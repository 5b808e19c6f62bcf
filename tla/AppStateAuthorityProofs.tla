---------------------- MODULE AppStateAuthorityProofs ----------------------
(***************************************************************************)
(* Proofs about AppStateAuthority for every set of threads and commands    *)
(* and every bound.                                                        *)
(*                                                                         *)
(* The argument is about the store's queue.  A command is handed to the    *)
(* store only while nobody holds the lock, and then the queue is empty: it *)
(* is first in the queue until it is persisted, so that no load, commit or *)
(* reread comes between its check and its publication.  Each of the other  *)
(* jobs belongs to the transaction or the reread that waits for it.        *)
(***************************************************************************)
EXTENDS AppStateAuthority, SequenceTheorems, FiniteSetTheorems, TLAPS

\* A job of the queue is awaited by whoever queued it, and only the first one
\* persists a command.
JobsAreAwaited ==
    \A i \in 1..Len(jobs) :
        /\ jobs[i].kind = "persist" => i = 1 /\ working # NoCommand
        /\ jobs[i].kind = "load" => tx[jobs[i].manager].step = "loading"
        /\ jobs[i].kind = "commit" => tx[jobs[i].manager].step = "committing"
        /\ jobs[i].kind = "reread" => reread.step = "loading"

\* Nobody awaits two jobs.
JobsAreDistinct == \A i, j \in 1..Len(jobs) : i # j => jobs[i] # jobs[j]

\* While a command is persisted its job is first, and what began after it has not
\* got past its own job.
CommandAlone ==
    working # NoCommand =>
        /\ available
        /\ jobs # <<>> /\ jobs[1].kind = "persist"
        /\ reread.step \in {"idle", "loading"}
        /\ \A m \in Manager : tx[m].step \in {"idle", "begun", "loading"}
        /\ snapshot[working.command.thread] # Gone
        /\ working.after = [snapshot EXCEPT ![working.command.thread] = @ \cup {working.command.id}]

\* The inductive invariant.
IInv ==
    /\ TypeOK
    /\ JobsAreAwaited
    /\ JobsAreDistinct
    /\ CommandAlone
    /\ NothingMovesUnderCommand
    /\ TransactionSeesLastEdit

\* Recovery and transactions exclude each other when they do not overlap.
Apart == rereads > 0 \/ reread.step # "idle" => \A m \in Manager : tx[m] = NoTx

\* What a reread found is still what is stored.
RereadIsFresh == reread.step = "ready" => reread.snapshot = stored

\* What is inductive, with IInv, when recovery and transactions do not overlap.
ApartInv == Apart /\ RereadIsFresh /\ MemoryMatchesStore

\* The managers that hold the lock.
Busy(states) == {m \in Manager : states[m] # NoTx}

-----------------------------------------------------------------------------
(* The operators *)

\* How the number of busy managers changes with the state of one of them.
LEMMA BusyCount ==
    ASSUME NEW states \in [Manager -> Transaction], NEW m \in Manager, NEW next
    PROVE  /\ Cardinality(Busy(states)) \in Nat
           /\ states[m] = NoTx /\ next # NoTx =>
                  Cardinality(Busy([states EXCEPT ![m] = next])) = Cardinality(Busy(states)) + 1
           /\ states[m] # NoTx /\ next # NoTx =>
                  Cardinality(Busy([states EXCEPT ![m] = next])) = Cardinality(Busy(states))
           /\ states[m] # NoTx /\ next = NoTx =>
                  /\ Cardinality(Busy([states EXCEPT ![m] = next])) = Cardinality(Busy(states)) - 1
                  /\ Cardinality(Busy(states)) > 0
<1> DEFINE changed == [states EXCEPT ![m] = next]
<1>1. IsFiniteSet(Manager)
  <2>1. IsFiniteSet({"deletion"})
    BY FS_Singleton
  <2>2. IsFiniteSet({"deletion"} \cup {"relocation"})
    BY <2>1, FS_AddElement
  <2> QED BY <2>2 DEF Manager
<1>2. IsFiniteSet(Busy(states)) /\ Cardinality(Busy(states)) \in Nat
  BY <1>1, FS_Subset, FS_CardinalityType DEF Busy
<1>3. CASE states[m] = NoTx /\ next # NoTx
  <2>1. Busy(changed) = Busy(states) \cup {m} /\ m \notin Busy(states)
    BY <1>3 DEF Busy
  <2> QED BY <2>1, <1>2, <1>3, FS_AddElement
<1>4. CASE states[m] # NoTx /\ next # NoTx
  <2>1. Busy(changed) = Busy(states)
    BY <1>4 DEF Busy
  <2> QED BY <2>1, <1>2, <1>4
<1>5. CASE states[m] # NoTx /\ next = NoTx
  <2>1. Busy(changed) = Busy(states) \ {m} /\ m \in Busy(states)
    BY <1>5 DEF Busy
  <2>2. Cardinality(Busy(states)) # 0
    BY <2>1, <1>2, FS_EmptySet
  <2>3. Cardinality(Busy(states) \ {m}) = Cardinality(Busy(states)) - 1
    BY <2>1, <1>2, FS_RemoveElement
  <2>4. Cardinality(Busy(changed)) = Cardinality(Busy(states)) - 1
    BY <2>1, <2>3
  <2>5. Cardinality(Busy(states)) > 0
    BY <2>2, <1>2
  <2> QED BY <2>4, <2>5, <1>2, <1>5
<1> QED BY <1>2, <1>3, <1>4, <1>5

\* While nobody holds the lock all managers are idle and nothing is reread.
LEMMA Unlocked ==
    ASSUME TypeOK, transactions = 0
    PROVE  /\ \A m \in Manager : tx[m] = NoTx
           /\ rereads = 0 /\ reread.step = "idle"
<1>1. IsFiniteSet(Manager)
  <2>1. IsFiniteSet({"deletion"})
    BY FS_Singleton
  <2>2. IsFiniteSet({"deletion"} \cup {"relocation"})
    BY <2>1, FS_AddElement
  <2> QED BY <2>2 DEF Manager
<1>2. IsFiniteSet(Busy(tx)) /\ Cardinality(Busy(tx)) \in Nat
  BY <1>1, FS_Subset, FS_CardinalityType DEF Busy
<1>3. transactions = Cardinality(Busy(tx)) + rereads + (IF reread.step = "idle" THEN 0 ELSE 1)
      /\ rereads \in Nat
  BY DEF TypeOK, Busy
<1>4. Cardinality(Busy(tx)) = 0 /\ rereads = 0 /\ reread.step = "idle"
  BY <1>2, <1>3
<1> QED BY <1>2, <1>4, FS_EmptySet DEF Busy

\* A job at the end of the queue comes after the ones that were there.
LEMMA Queued ==
    ASSUME jobs \in Seq(StoreJob), NEW job \in StoreJob, jobs' = Append(jobs, job)
    PROVE  /\ jobs' \in Seq(StoreJob) /\ Len(jobs') = Len(jobs) + 1 /\ Len(jobs) \in Nat
           /\ \A i \in 1..Len(jobs) : jobs'[i] = jobs[i]
           /\ jobs'[Len(jobs) + 1] = job
           /\ jobs # <<>> => jobs'[1] = jobs[1]
  BY AppendProperties, LenProperties

\* The first job leaves the others, each one place further to the front.
LEMMA Taken ==
    ASSUME jobs \in Seq(StoreJob), jobs # <<>>, jobs' = Tail(jobs), JobsAreDistinct
    PROVE  /\ Head(jobs) = jobs[1] /\ Head(jobs) \in StoreJob
           /\ jobs' \in Seq(StoreJob) /\ Len(jobs') = Len(jobs) - 1 /\ Len(jobs) \in Nat \ {0}
           /\ \A i \in 1..Len(jobs') : /\ i + 1 \in 1..Len(jobs)
                                       /\ jobs'[i] = jobs[i + 1]
                                       /\ jobs'[i] # jobs[1]
           /\ JobsAreDistinct'
<1>1. Head(jobs) = jobs[1] /\ Head(jobs) \in StoreJob
  BY HeadTailProperties
<1>2. /\ jobs' \in Seq(StoreJob) /\ Len(jobs') = Len(jobs) - 1
      /\ \A i \in 1..Len(jobs') : jobs'[i] = jobs[i + 1]
  BY HeadTailProperties
<1>3. Len(jobs) \in Nat /\ Len(jobs) # 0
  BY LenProperties, EmptySeq
<1>4. \A i \in 1..Len(jobs') : i + 1 \in 1..Len(jobs) /\ i + 1 # 1
  BY <1>2, <1>3
<1>5. 1 \in 1..Len(jobs)
  BY <1>3
<1>6. \A i \in 1..Len(jobs') : jobs'[i] # jobs[1]
  BY <1>2, <1>4, <1>5 DEF JobsAreDistinct
<1>7. ASSUME NEW i \in 1..Len(jobs'), NEW j \in 1..Len(jobs'), i # j
      PROVE  jobs'[i] # jobs'[j]
  <2>1. i + 1 # j + 1
    BY <1>7
  <2> QED BY <2>1, <1>2, <1>4 DEF JobsAreDistinct
<1> QED BY <1>1, <1>2, <1>3, <1>4, <1>6, <1>7 DEF JobsAreDistinct

\* The identities remembered stay within their limit.
LEMMA Remembered ==
    ASSUME applied \in Seq(CommandId), Len(applied) <= MaxApplied,
           NEW id \in CommandId, RememberCommand(id)
    PROVE  applied' \in Seq(CommandId) /\ Len(applied') <= MaxApplied
<1> DEFINE remembered == Append(applied, id)
<1>1. remembered \in Seq(CommandId) /\ remembered # <<>> /\ Len(remembered) = Len(applied) + 1
      /\ Len(applied) \in Nat
  BY AppendProperties, LenProperties
<1>2. Tail(remembered) \in Seq(CommandId) /\ Len(Tail(remembered)) = Len(remembered) - 1
  BY <1>1, HeadTailProperties
<1>3. applied' = IF Len(remembered) > MaxApplied THEN Tail(remembered) ELSE remembered
  BY DEF RememberCommand
<1> HIDE DEF remembered
<1> QED BY <1>1, <1>2, <1>3, AppStateAssumption

\* Only the first job can be a command's, and only while one is processed.
LEMMA HeadJob ==
    ASSUME IInv, jobs # <<>>
    PROVE  /\ Head(jobs) = jobs[1] /\ Head(jobs) \in StoreJob /\ 1 \in 1..Len(jobs)
           /\ working # NoCommand => Head(jobs).kind = "persist"
           /\ Head(jobs).kind = "persist" => working # NoCommand /\ working \in Working
<1>1. jobs \in Seq(StoreJob) /\ working \in Working \cup {NoCommand}
  BY DEF IInv, TypeOK
<1>2. Head(jobs) = jobs[1] /\ Head(jobs) \in StoreJob
  BY <1>1, HeadTailProperties
<1>3. 1 \in 1..Len(jobs)
  BY <1>1, LenProperties, EmptySeq
<1>4. working # NoCommand => Head(jobs).kind = "persist"
  BY <1>2 DEF IInv, CommandAlone
<1>5. Head(jobs).kind = "persist" => working # NoCommand
  BY <1>2, <1>3 DEF IInv, JobsAreAwaited
<1> QED BY <1>1, <1>2, <1>3, <1>4, <1>5

\* What the step of a manager says of its state.
LEMMA TransactionShape ==
    ASSUME NEW state \in Transaction
    PROVE  /\ state.step \in {"idle", "begun", "loading", "loaded", "committing", "ending"}
           /\ state = NoTx <=> state.step = "idle"
           /\ state # NoTx => state.thread \in Thread
           /\ state.step \in {"loaded", "committing", "ending"} =>
                  state \in [step : {"loaded", "committing", "ending"}, thread : Thread, before : Snapshot]
  BY DEF Transaction, NoTx

\* A manager that goes on keeps the lock, and the others stay where they are.
LEMMA ManagerMoves ==
    ASSUME TypeOK, NEW m \in Manager, NEW next \in Transaction,
           tx[m] # NoTx, next # NoTx, Goes(m, next)
    PROVE  /\ tx' \in [Manager -> Transaction]
           /\ tx'[m] = next
           /\ \A n \in Manager \ {m} : tx'[n] = tx[n]
           /\ Cardinality({n \in Manager : tx'[n] # NoTx}) = Cardinality({n \in Manager : tx[n] # NoTx})
<1>1. tx \in [Manager -> Transaction] /\ tx' = [tx EXCEPT ![m] = next]
  BY DEF TypeOK, Goes
<1>2. Cardinality(Busy(tx')) = Cardinality(Busy(tx))
  BY <1>1, BusyCount
<1>3. /\ tx' \in [Manager -> Transaction]
      /\ tx'[m] = next
      /\ \A n \in Manager \ {m} : tx'[n] = tx[n]
  BY <1>1
<1> QED BY <1>2, <1>3 DEF Busy

-----------------------------------------------------------------------------
(* One lemma per action *)

\* What only the queue of commands and the remembered identities see.
LEMMA QuietStep ==
    ASSUME IInv,
           UNCHANGED <<stored, snapshot, revision, available, working, jobs, tx, reread, rereads, transactions>>,
           applied' \in Seq(CommandId), Len(applied') <= MaxApplied, requests' \in Seq(Command)
    PROVE  IInv'
<1>1. TypeOK'
  BY DEF IInv, TypeOK
<1>2. JobsAreAwaited' /\ JobsAreDistinct'
  BY DEF IInv, JobsAreAwaited, JobsAreDistinct
<1>3. CommandAlone' /\ NothingMovesUnderCommand' /\ TransactionSeesLastEdit'
  BY DEF IInv, CommandAlone, NothingMovesUnderCommand, TransactionSeesLastEdit
<1> QED BY <1>1, <1>2, <1>3 DEF IInv

LEMMA SubmitStep ==
    ASSUME IInv, NEW id \in CommandId, NEW t \in Thread, NEW base \in SeenRevisions \cup {NoBase},
           Submit([id |-> id, thread |-> t, base |-> base])
    PROVE  IInv'
<1>1. base \in Nat \cup {NoBase}
  BY DEF SeenRevisions, IInv, TypeOK
<1>2. [id |-> id, thread |-> t, base |-> base] \in Command
  BY <1>1 DEF Command
<1>3. requests' \in Seq(Command)
  BY <1>2, AppendProperties DEF Submit, IInv, TypeOK
<1> QED BY <1>3, QuietStep DEF Submit, IInv, TypeOK, authorityVars, storeVars, rereadVars

LEMMA RejectStep ==
    ASSUME IInv, Reject
    PROVE  IInv'
<1>1. requests' \in Seq(Command)
  BY HeadTailProperties DEF Reject, IInv, TypeOK
<1> QED BY <1>1, QuietStep DEF Reject, IInv, TypeOK, authorityVars, storeVars, rereadVars

LEMMA AcceptUnchangedStep ==
    ASSUME IInv, AcceptUnchanged
    PROVE  IInv'
<1>1. requests \in Seq(Command) /\ requests # <<>> /\ requests' = Tail(requests)
  BY DEF AcceptUnchanged, IInv, TypeOK
<1>2. requests' \in Seq(Command) /\ Head(requests) \in Command
  BY <1>1, HeadTailProperties
<1>3. RememberCommand(Head(requests).id) /\ Head(requests).id \in CommandId
  BY <1>2 DEF AcceptUnchanged, Command
<1>4. applied' \in Seq(CommandId) /\ Len(applied') <= MaxApplied
  BY <1>3, Remembered DEF IInv, TypeOK
<1> QED BY <1>2, <1>4, QuietStep DEF AcceptUnchanged, storeVars, rereadVars

\* A command is handed to the store while nobody holds the lock: the queue is
\* empty then.
LEMMA PersistStep ==
    ASSUME IInv, Persist
    PROVE  IInv'
<1> DEFINE command == Head(requests)
           job == [kind |-> "persist"]
<1>1. TypeOK /\ working = NoCommand /\ requests # <<>> /\ requests' = Tail(requests)
      /\ UNCHANGED <<stored, snapshot, revision, available, applied, tx, reread, rereads, transactions>>
      /\ jobs' = Append(jobs, job)
  BY DEF Persist, IInv, authorityVars, rereadVars
<1>2. requests' \in Seq(Command) /\ command \in Command
  BY <1>1, HeadTailProperties DEF TypeOK
<1>3. command.id \in CommandId /\ command.thread \in Thread /\ command.base \in Nat \cup {NoBase}
  BY <1>2 DEF Command
<1>4. available /\ transactions = 0 /\ (command.base # NoBase => command.base = revision)
  <2>1. ~Refused(command)
    BY DEF Persist
  <2>2. transactions \in Nat
    <3>1. Cardinality(Busy(tx)) \in Nat
      BY <1>1, BusyCount DEF TypeOK, Manager
    <3> QED BY <1>1, <3>1 DEF TypeOK, Busy
  <2> QED BY <2>1, <2>2 DEF Refused
<1>5. snapshot[command.thread] # Gone
  BY DEF Persist, Reducible
<1>6. working' = [command |-> command, before |-> snapshot, after |-> Reduced(command)]
  BY DEF Persist
<1>7. Reduced(command) = [snapshot EXCEPT ![command.thread] = @ \cup {command.id}]
  BY DEF Reduced
<1>8. Reduced(command) \in Snapshot
  <2>1. snapshot[command.thread] \in SUBSET (CommandId \cup Manager)
    BY <1>1, <1>3, <1>5 DEF TypeOK, Snapshot
  <2>2. snapshot[command.thread] \cup {command.id} \in SUBSET (CommandId \cup Manager)
    BY <2>1, <1>3
  <2> HIDE DEF command
  <2> QED BY <2>2, <1>1, <1>3, <1>7 DEF TypeOK, Snapshot
<1>9. (\A m \in Manager : tx[m] = NoTx) /\ rereads = 0 /\ reread.step = "idle"
  BY <1>1, <1>4, Unlocked
<1>10. jobs = <<>>
  <2> SUFFICES ASSUME jobs # <<>> PROVE FALSE
    OBVIOUS
  <2>1. Head(jobs) = jobs[1] /\ Head(jobs) \in StoreJob /\ 1 \in 1..Len(jobs)
        /\ Head(jobs).kind # "persist"
    BY <1>1, HeadJob
  <2>2. CASE Head(jobs).kind \in {"load", "commit"}
    <3>1. Head(jobs).manager \in Manager
      BY <2>1, <2>2 DEF StoreJob
    <3> QED BY <3>1, <2>1, <2>2, <1>9 DEF IInv, JobsAreAwaited, NoTx
  <2>3. CASE Head(jobs).kind = "reread"
    BY <2>1, <2>3, <1>9 DEF IInv, JobsAreAwaited
  <2> QED BY <2>1, <2>2, <2>3 DEF StoreJob
<1>11. job \in StoreJob
  BY DEF StoreJob
<1>12. jobs' \in Seq(StoreJob) /\ Len(jobs') = 1 /\ jobs'[1] = job /\ jobs' # <<>>
  <2>1. Len(jobs) = 0
    BY <1>10
  <2> QED BY <2>1, <1>1, <1>11, AppendProperties DEF TypeOK
<1>13. working' \in Working /\ working' # NoCommand
  BY <1>1, <1>2, <1>6, <1>8, AppStateAssumption DEF Working, TypeOK
<1> HIDE DEF command, job
<1>14. TypeOK'
  BY <1>1, <1>2, <1>12, <1>13 DEF TypeOK
<1>15. JobsAreAwaited' /\ JobsAreDistinct'
  BY <1>12, <1>13 DEF job, JobsAreAwaited, JobsAreDistinct
<1>16. CommandAlone'
  <2>1. jobs'[1].kind = "persist"
    BY <1>12 DEF job
  <2>2. \A m \in Manager : tx'[m].step \in {"idle", "begun", "loading"}
    BY <1>1, <1>9 DEF NoTx
  <2> QED BY <1>1, <1>4, <1>5, <1>6, <1>7, <1>9, <1>12, <2>1, <2>2 DEF CommandAlone
<1>17. NothingMovesUnderCommand'
  BY <1>1, <1>4, <1>6 DEF NothingMovesUnderCommand
<1>18. TransactionSeesLastEdit'
  BY <1>1, <1>9 DEF TransactionSeesLastEdit, NoTx
<1> QED BY <1>14, <1>15, <1>16, <1>17, <1>18 DEF IInv

\* The command is persisted, and published as it was computed.
LEMMA PersistJobStep ==
    ASSUME IInv, PersistJob
    PROVE  IInv'
<1> DEFINE command == working.command
<1>1. /\ TypeOK /\ jobs # <<>> /\ Head(jobs).kind = "persist" /\ jobs' = Tail(jobs)
      /\ UNCHANGED <<available, requests, reread, rereads, tx, transactions>>
      /\ snapshot' = working.after /\ revision' = revision + 1 /\ working' = NoCommand
      /\ stored[command.thread] # Gone
      /\ stored' = [stored EXCEPT ![command.thread] = @ \cup {command.id}]
      /\ RememberCommand(command.id)
  BY DEF PersistJob, PublishSnapshot, IInv, rereadVars
<1>2. working # NoCommand /\ working \in Working
  BY <1>1, HeadJob
<1>3. command \in Command /\ command.id \in CommandId /\ command.thread \in Thread
      /\ working.after \in Snapshot
  BY <1>2 DEF Working, Command
<1>4. applied' \in Seq(CommandId) /\ Len(applied') <= MaxApplied
  BY <1>1, <1>3, Remembered DEF TypeOK
<1>5. /\ jobs' \in Seq(StoreJob) /\ JobsAreDistinct'
      /\ \A i \in 1..Len(jobs') : i + 1 \in 1..Len(jobs) /\ jobs'[i] = jobs[i + 1] /\ i + 1 # 1
  BY <1>1, Taken DEF IInv, TypeOK
<1>6. stored' \in Snapshot
  BY <1>1, <1>3 DEF TypeOK, Snapshot
<1> HIDE DEF command
<1>7. TypeOK'
  BY <1>1, <1>3, <1>4, <1>5, <1>6 DEF TypeOK
<1>8. JobsAreAwaited'
  BY <1>1, <1>5 DEF IInv, JobsAreAwaited
<1>9. CommandAlone' /\ NothingMovesUnderCommand'
  BY <1>1 DEF CommandAlone, NothingMovesUnderCommand
<1>10. TransactionSeesLastEdit'
  BY <1>1, <1>2 DEF TransactionSeesLastEdit, IInv, CommandAlone
<1> QED BY <1>5, <1>7, <1>8, <1>9, <1>10 DEF IInv

LEMMA PersistJobFailsStep ==
    ASSUME IInv, PersistJobFails
    PROVE  IInv'
<1>1. /\ TypeOK /\ jobs # <<>> /\ jobs' = Tail(jobs) /\ working' = NoCommand
      /\ UNCHANGED <<stored, snapshot, revision, available, applied, requests, reread, rereads, tx, transactions>>
  BY DEF PersistJobFails, IInv, authorityVars, rereadVars
<1>2. /\ jobs' \in Seq(StoreJob) /\ JobsAreDistinct'
      /\ \A i \in 1..Len(jobs') : i + 1 \in 1..Len(jobs) /\ jobs'[i] = jobs[i + 1] /\ i + 1 # 1
  BY <1>1, Taken DEF IInv, TypeOK
<1>3. TypeOK'
  BY <1>1, <1>2 DEF TypeOK
<1>4. JobsAreAwaited'
  BY <1>1, <1>2 DEF IInv, JobsAreAwaited
<1>5. CommandAlone' /\ NothingMovesUnderCommand' /\ TransactionSeesLastEdit'
  BY <1>1 DEF IInv, CommandAlone, NothingMovesUnderCommand, TransactionSeesLastEdit
<1> QED BY <1>2, <1>3, <1>4, <1>5 DEF IInv

\* A manager takes the lock.
LEMMA BeginTransactionStep ==
    ASSUME IInv, NEW m \in Manager, NEW t \in Thread, BeginTransaction(m, t)
    PROVE  IInv'
<1> DEFINE next == [step |-> "begun", thread |-> t]
<1>1. /\ TypeOK /\ tx[m] = NoTx /\ tx' = [tx EXCEPT ![m] = next]
      /\ transactions' = transactions + 1
      /\ UNCHANGED <<stored, snapshot, revision, available, applied, requests, working, jobs, reread, rereads>>
  BY DEF BeginTransaction, SetTransactionActive, Goes, IInv, authorityVars, storeVars, queueVars, rereadVars
<1>2. next \in Transaction /\ next # NoTx /\ next.step = "begun"
  BY DEF Transaction, NoTx
<1> HIDE DEF next
<1>3. tx' \in [Manager -> Transaction] /\ tx'[m] = next /\ \A n \in Manager \ {m} : tx'[n] = tx[n]
  BY <1>1, <1>2 DEF TypeOK
<1>4. Cardinality(Busy(tx')) = Cardinality(Busy(tx)) + 1 /\ Cardinality(Busy(tx)) \in Nat
  BY <1>1, <1>2, BusyCount DEF TypeOK
<1>5. TypeOK'
  BY <1>1, <1>3, <1>4 DEF TypeOK, Busy
<1>6. JobsAreDistinct' /\ NothingMovesUnderCommand'
  BY <1>1 DEF IInv, JobsAreDistinct, NothingMovesUnderCommand
<1>7. JobsAreAwaited'
  <2>1. ASSUME NEW i \in 1..Len(jobs), jobs[i].kind \in {"load", "commit"}
        PROVE  tx'[jobs[i].manager] = tx[jobs[i].manager]
    <3>1. jobs[i].manager \in Manager
      BY <1>1, <2>1, ElementOfSeq DEF TypeOK, StoreJob
    <3>2. tx[jobs[i].manager] # NoTx
      BY <2>1, <3>1 DEF IInv, JobsAreAwaited, NoTx
    <3> QED BY <3>1, <3>2, <1>1, <1>3
  <2> QED BY <1>1, <2>1 DEF IInv, JobsAreAwaited
<1>8. CommandAlone'
  BY <1>1, <1>2, <1>3 DEF IInv, CommandAlone
<1>9. TransactionSeesLastEdit'
  BY <1>1, <1>2, <1>3 DEF IInv, TransactionSeesLastEdit
<1> QED BY <1>5, <1>6, <1>7, <1>8, <1>9 DEF IInv

\* A manager queues a job and awaits it: no job of the queue was its own.
LEMMA JobOfManager ==
    ASSUME IInv, NEW m \in Manager, NEW kind \in {"load", "commit"}, NEW next \in Transaction,
           tx[m].step \in {"begun", "loaded"}, Goes(m, next),
           next.step = IF kind = "load" THEN "loading" ELSE "committing",
           jobs' = Append(jobs, [kind |-> kind, manager |-> m]),
           UNCHANGED <<working, reread>>
    PROVE  jobs' \in Seq(StoreJob) /\ JobsAreAwaited' /\ JobsAreDistinct'
<1> DEFINE job == [kind |-> kind, manager |-> m]
<1>1. TypeOK /\ jobs \in Seq(StoreJob) /\ job \in StoreJob /\ tx' = [tx EXCEPT ![m] = next]
      /\ tx \in [Manager -> Transaction]
  BY DEF IInv, TypeOK, StoreJob, Goes
<1>2. job.kind = kind /\ job.manager = m
  OBVIOUS
<1> HIDE DEF job
<1>3. /\ jobs' \in Seq(StoreJob) /\ Len(jobs') = Len(jobs) + 1 /\ Len(jobs) \in Nat
      /\ \A i \in 1..Len(jobs) : jobs'[i] = jobs[i]
      /\ jobs'[Len(jobs) + 1] = job
  BY <1>1, Queued DEF job
<1>4. \A i \in 1..Len(jobs') : i \in 1..Len(jobs) \/ i = Len(jobs) + 1
  BY <1>3
<1>5. ASSUME NEW i \in 1..Len(jobs)
      PROVE  /\ jobs[i] \in StoreJob
             /\ jobs[i].kind \in {"load", "commit"} => jobs[i].manager \in Manager /\ jobs[i].manager # m
  <2>1. jobs[i] \in StoreJob
    BY <1>1, <1>5, ElementOfSeq
  <2>2. jobs[i].kind \in {"load", "commit"} => jobs[i].manager \in Manager
    BY <2>1 DEF StoreJob
  <2> QED BY <2>1, <2>2 DEF IInv, JobsAreAwaited
<1>6. \A n \in Manager \ {m} : tx'[n] = tx[n]
  BY <1>1
<1>7. tx'[m] = next
  BY <1>1
<1>8. JobsAreAwaited'
  <2>1. ASSUME NEW i \in 1..Len(jobs)
        PROVE  /\ jobs'[i].kind = "persist" => i = 1 /\ working' # NoCommand
               /\ jobs'[i].kind = "load" => tx'[jobs'[i].manager].step = "loading"
               /\ jobs'[i].kind = "commit" => tx'[jobs'[i].manager].step = "committing"
               /\ jobs'[i].kind = "reread" => reread'.step = "loading"
    BY <1>3, <1>5, <1>6 DEF IInv, JobsAreAwaited
  <2>2. /\ job.kind \notin {"persist", "reread"}
        /\ job.kind = "load" => tx'[job.manager].step = "loading"
        /\ job.kind = "commit" => tx'[job.manager].step = "committing"
    BY <1>2, <1>7
  <2> QED BY <1>3, <1>4, <2>1, <2>2 DEF JobsAreAwaited
<1>9. JobsAreDistinct'
  <2>1. \A i \in 1..Len(jobs) : jobs[i] # job
    BY <1>2, <1>5
  <2> QED BY <1>3, <1>4, <2>1 DEF IInv, JobsAreDistinct
<1> QED BY <1>3, <1>8, <1>9

LEMMA LoadBeforeStep ==
    ASSUME IInv, NEW m \in Manager, LoadBefore(m)
    PROVE  IInv'
<1> DEFINE next == [step |-> "loading", thread |-> tx[m].thread]
<1>1. /\ TypeOK /\ tx[m].step = "begun" /\ Goes(m, next)
      /\ jobs' = Append(jobs, [kind |-> "load", manager |-> m])
      /\ UNCHANGED <<stored, snapshot, revision, available, applied, requests, working, reread, rereads, transactions>>
  BY DEF LoadBefore, IInv, authorityVars, queueVars, rereadVars
<1>2. tx[m] \in Transaction /\ tx[m] # NoTx /\ tx[m].thread \in Thread
  BY <1>1, TransactionShape DEF TypeOK
<1>3. next \in Transaction /\ next.step = "loading" /\ next # NoTx
  BY <1>2 DEF Transaction, NoTx
<1> HIDE DEF next
<1>4. jobs' \in Seq(StoreJob) /\ JobsAreAwaited' /\ JobsAreDistinct'
  BY <1>1, <1>3, JobOfManager
<1>5. /\ tx' \in [Manager -> Transaction] /\ tx'[m] = next
      /\ \A n \in Manager \ {m} : tx'[n] = tx[n]
      /\ Cardinality({n \in Manager : tx'[n] # NoTx}) = Cardinality({n \in Manager : tx[n] # NoTx})
  BY <1>1, <1>2, <1>3, ManagerMoves
<1>6. TypeOK'
  BY <1>1, <1>4, <1>5 DEF TypeOK
<1>7. CommandAlone'
  <2>1. working # NoCommand => jobs' # <<>> /\ jobs'[1] = jobs[1]
    <3>1. [kind |-> "load", manager |-> m] \in StoreJob
      BY DEF StoreJob
    <3> QED BY <3>1, <1>1, Queued, AppendProperties DEF IInv, CommandAlone, TypeOK
  <2> QED BY <2>1, <1>1, <1>3, <1>5 DEF IInv, CommandAlone
<1>8. NothingMovesUnderCommand'
  BY <1>1 DEF IInv, NothingMovesUnderCommand
<1>9. TransactionSeesLastEdit'
  BY <1>1, <1>3, <1>5 DEF IInv, TransactionSeesLastEdit
<1> QED BY <1>4, <1>6, <1>7, <1>8, <1>9 DEF IInv

\* The first job is done: what is left in the queue is still awaited.
LEMMA JobOfManagerDone ==
    ASSUME IInv, jobs # <<>>, Head(jobs).kind \in {"load", "commit"}, jobs' = Tail(jobs),
           NEW next \in Transaction, next # NoTx, Goes(Head(jobs).manager, next),
           UNCHANGED <<working, reread>>
    PROVE  /\ Head(jobs).manager \in Manager /\ working = NoCommand
           /\ tx[Head(jobs).manager].step = IF Head(jobs).kind = "load" THEN "loading" ELSE "committing"
           /\ jobs' \in Seq(StoreJob) /\ JobsAreAwaited' /\ JobsAreDistinct'
           /\ tx' \in [Manager -> Transaction] /\ tx'[Head(jobs).manager] = next
           /\ \A n \in Manager \ {Head(jobs).manager} : tx'[n] = tx[n]
           /\ Cardinality({n \in Manager : tx'[n] # NoTx}) = Cardinality({n \in Manager : tx[n] # NoTx})
<1> DEFINE m == Head(jobs).manager
<1>1. TypeOK /\ jobs \in Seq(StoreJob) /\ tx \in [Manager -> Transaction]
  BY DEF IInv, TypeOK
<1>2. Head(jobs) = jobs[1] /\ Head(jobs) \in StoreJob /\ 1 \in 1..Len(jobs)
      /\ (working # NoCommand => Head(jobs).kind = "persist")
  BY HeadJob
<1>3. m \in Manager /\ working = NoCommand
  BY <1>2 DEF StoreJob
<1>4. tx[m].step = IF Head(jobs).kind = "load" THEN "loading" ELSE "committing"
  BY <1>2 DEF IInv, JobsAreAwaited
<1>5. tx[m] # NoTx
  BY <1>4 DEF NoTx
<1>6. /\ tx' \in [Manager -> Transaction] /\ tx'[m] = next
      /\ \A n \in Manager \ {m} : tx'[n] = tx[n]
      /\ Cardinality({n \in Manager : tx'[n] # NoTx}) = Cardinality({n \in Manager : tx[n] # NoTx})
  BY <1>1, <1>3, <1>5, ManagerMoves
<1>7. /\ jobs' \in Seq(StoreJob) /\ JobsAreDistinct' /\ Len(jobs) \in Nat
      /\ \A i \in 1..Len(jobs') : /\ i + 1 \in 1..Len(jobs) /\ i + 1 # 1
                                  /\ jobs'[i] = jobs[i + 1] /\ jobs'[i] # jobs[1]
  BY <1>1, Taken DEF IInv
<1>8. ASSUME NEW i \in 1..Len(jobs'), jobs'[i].kind \in {"load", "commit"}
      PROVE  jobs'[i].manager \in Manager \ {m}
  <2>1. jobs'[i] \in StoreJob
    BY <1>7, ElementOfSeq
  <2>2. jobs'[i] \in [kind : {"load", "commit"}, manager : Manager]
        /\ jobs[1] \in [kind : {"load", "commit"}, manager : Manager]
    BY <2>1, <1>2, <1>8 DEF StoreJob
  <2>3. jobs'[i].manager = m => jobs'[i].kind # jobs[1].kind
    BY <2>2, <1>2, <1>7
  <2>4. tx[jobs'[i].manager].step = IF jobs'[i].kind = "load" THEN "loading" ELSE "committing"
    BY <1>7, <1>8 DEF IInv, JobsAreAwaited
  <2> QED BY <2>2, <2>3, <2>4, <1>2, <1>4
<1> HIDE DEF m
<1>9. JobsAreAwaited'
  <2>1. ASSUME NEW i \in 1..Len(jobs')
        PROVE  /\ jobs'[i].kind = "persist" => i = 1 /\ working' # NoCommand
               /\ jobs'[i].kind = "load" => tx'[jobs'[i].manager].step = "loading"
               /\ jobs'[i].kind = "commit" => tx'[jobs'[i].manager].step = "committing"
               /\ jobs'[i].kind = "reread" => reread'.step = "loading"
    BY <1>6, <1>7, <1>8 DEF IInv, JobsAreAwaited
  <2> QED BY <2>1 DEF JobsAreAwaited
<1> QED BY <1>3, <1>4, <1>6, <1>7, <1>9 DEF m

LEMMA LoadJobStep ==
    ASSUME IInv, LoadJob
    PROVE  IInv'
<1> DEFINE m == Head(jobs).manager
           next == [step |-> "loaded", thread |-> tx[m].thread, before |-> stored]
<1>1. /\ TypeOK /\ jobs # <<>> /\ Head(jobs).kind = "load" /\ jobs' = Tail(jobs) /\ Goes(m, next)
      /\ UNCHANGED <<stored, snapshot, revision, available, applied, requests, working, reread, rereads, transactions>>
  BY DEF LoadJob, IInv, authorityVars, queueVars, rereadVars
<1>2. Head(jobs) = jobs[1] /\ Head(jobs) \in StoreJob /\ 1 \in 1..Len(jobs)
  BY <1>1, HeadJob
<1>3. m \in Manager /\ tx[m].step = "loading"
  BY <1>1, <1>2 DEF StoreJob, IInv, JobsAreAwaited
<1>4. tx[m].thread \in Thread
  BY <1>3, <1>1, TransactionShape DEF TypeOK, NoTx
<1>5. next \in Transaction /\ next # NoTx /\ next.step = "loaded" /\ next.before = stored
  BY <1>1, <1>4 DEF Transaction, NoTx, TypeOK
<1> HIDE DEF next
<1>6. /\ working = NoCommand /\ jobs' \in Seq(StoreJob) /\ JobsAreAwaited' /\ JobsAreDistinct'
      /\ tx' \in [Manager -> Transaction] /\ tx'[m] = next
      /\ \A n \in Manager \ {m} : tx'[n] = tx[n]
      /\ Cardinality({n \in Manager : tx'[n] # NoTx}) = Cardinality({n \in Manager : tx[n] # NoTx})
  BY <1>1, <1>5, JobOfManagerDone
<1> HIDE DEF m
<1>7. TypeOK'
  BY <1>1, <1>6 DEF TypeOK
<1>8. CommandAlone' /\ NothingMovesUnderCommand'
  BY <1>1, <1>6 DEF CommandAlone, NothingMovesUnderCommand
<1>9. TransactionSeesLastEdit'
  BY <1>1, <1>3, <1>5, <1>6 DEF IInv, TransactionSeesLastEdit
<1> QED BY <1>6, <1>7, <1>8, <1>9 DEF IInv

LEMMA CommitStep ==
    ASSUME IInv, NEW m \in Manager, Commit(m)
    PROVE  IInv'
<1> DEFINE next == [tx[m] EXCEPT !.step = "committing"]
<1>1. /\ TypeOK /\ tx[m].step = "loaded" /\ Goes(m, next)
      /\ jobs' = Append(jobs, [kind |-> "commit", manager |-> m])
      /\ UNCHANGED <<stored, snapshot, revision, available, applied, requests, working, reread, rereads, transactions>>
  BY DEF Commit, IInv, authorityVars, queueVars, rereadVars
<1>2. /\ tx[m] # NoTx
      /\ tx[m] \in [step : {"loaded", "committing", "ending"}, thread : Thread, before : Snapshot]
  BY <1>1, TransactionShape DEF TypeOK
<1>3. next \in Transaction /\ next.step = "committing" /\ next # NoTx /\ next.before = tx[m].before
  BY <1>2 DEF Transaction, NoTx
<1> HIDE DEF next
<1>4. jobs' \in Seq(StoreJob) /\ JobsAreAwaited' /\ JobsAreDistinct'
  BY <1>1, <1>3, JobOfManager
<1>5. /\ tx' \in [Manager -> Transaction] /\ tx'[m] = next
      /\ \A n \in Manager \ {m} : tx'[n] = tx[n]
      /\ Cardinality({n \in Manager : tx'[n] # NoTx}) = Cardinality({n \in Manager : tx[n] # NoTx})
  BY <1>1, <1>2, <1>3, ManagerMoves
<1>6. working = NoCommand
  BY <1>1 DEF IInv, CommandAlone
<1>7. TypeOK'
  BY <1>1, <1>4, <1>5 DEF TypeOK
<1>8. CommandAlone' /\ NothingMovesUnderCommand'
  BY <1>1, <1>6 DEF CommandAlone, NothingMovesUnderCommand
<1>9. TransactionSeesLastEdit'
  BY <1>1, <1>3, <1>5 DEF IInv, TransactionSeesLastEdit
<1> QED BY <1>4, <1>7, <1>8, <1>9 DEF IInv

\* What a transaction commits is a snapshot, and takes no edit from a thread
\* it leaves.
LEMMA CommittedSnapshot ==
    ASSUME NEW s \in Snapshot, NEW m \in Manager, NEW t \in Thread
    PROVE  /\ Committed(s, m, t) \in Snapshot
           /\ \A u \in Thread : Committed(s, m, t)[u] # Gone =>
                  s[u] # Gone /\ Committed(s, m, t)[u] \ Manager = s[u] \ Manager
<1>1. CASE m = "deletion"
  BY <1>1 DEF Committed, Snapshot
<1>2. CASE m # "deletion" /\ s[t] = Gone
  BY <1>2 DEF Committed, Snapshot
<1>3. CASE m # "deletion" /\ s[t] # Gone
  <2>1. Committed(s, m, t) = [s EXCEPT ![t] = @ \cup {m}]
    BY <1>3 DEF Committed
  <2>2. (s[t] \cup {m}) \in SUBSET (CommandId \cup Manager)
        /\ (s[t] \cup {m}) \ Manager = s[t] \ Manager
    BY <1>3 DEF Snapshot
  <2> QED BY <2>1, <2>2, <1>3 DEF Snapshot
<1> QED BY <1>1, <1>2, <1>3

\* A transaction commits over the edits it found, and memory follows.
LEMMA CommitJobStep ==
    ASSUME IInv, CommitJob
    PROVE  IInv'
<1> DEFINE m == Head(jobs).manager
           committed == Committed(stored, m, tx[m].thread)
           next == [tx[m] EXCEPT !.step = "ending"]
<1>1. /\ TypeOK /\ jobs # <<>> /\ Head(jobs).kind = "commit" /\ jobs' = Tail(jobs) /\ Goes(m, next)
      /\ stored' = committed
      /\ IF available THEN snapshot' = committed /\ revision' = revision + 1
                      ELSE snapshot' = snapshot /\ revision' = revision
      /\ UNCHANGED <<available, applied, requests, working, reread, rereads, transactions>>
  BY DEF CommitJob, AdoptExternalSnapshot, PublishSnapshot, IInv, queueVars, rereadVars
<1>2. Head(jobs) = jobs[1] /\ Head(jobs) \in StoreJob /\ 1 \in 1..Len(jobs)
  BY <1>1, HeadJob
<1>3. m \in Manager /\ tx[m].step = "committing"
  BY <1>1, <1>2 DEF StoreJob, IInv, JobsAreAwaited
<1>4. /\ tx[m] # NoTx /\ tx[m].thread \in Thread
      /\ tx[m] \in [step : {"loaded", "committing", "ending"}, thread : Thread, before : Snapshot]
  BY <1>1, <1>3, TransactionShape DEF TypeOK
<1>5. next \in Transaction /\ next # NoTx /\ next.step = "ending"
  BY <1>4 DEF Transaction, NoTx
<1>6. /\ committed \in Snapshot
      /\ \A u \in Thread : committed[u] # Gone =>
             stored[u] # Gone /\ committed[u] \ Manager = stored[u] \ Manager
  BY <1>1, <1>3, <1>4, CommittedSnapshot DEF TypeOK
<1> HIDE DEF next
<1>7. /\ working = NoCommand /\ jobs' \in Seq(StoreJob) /\ JobsAreAwaited' /\ JobsAreDistinct'
      /\ tx' \in [Manager -> Transaction] /\ tx'[m] = next
      /\ \A n \in Manager \ {m} : tx'[n] = tx[n]
      /\ Cardinality({n \in Manager : tx'[n] # NoTx}) = Cardinality({n \in Manager : tx[n] # NoTx})
  BY <1>1, <1>5, JobOfManagerDone
<1> HIDE DEF m, committed
<1>8. TypeOK'
  BY <1>1, <1>6, <1>7 DEF TypeOK
<1>9. CommandAlone' /\ NothingMovesUnderCommand'
  BY <1>1, <1>7 DEF CommandAlone, NothingMovesUnderCommand
<1>10. TransactionSeesLastEdit'
  BY <1>1, <1>5, <1>6, <1>7 DEF IInv, TransactionSeesLastEdit
<1> QED BY <1>7, <1>8, <1>9, <1>10 DEF IInv

LEMMA CommitJobFailsStep ==
    ASSUME IInv, CommitJobFails
    PROVE  IInv'
<1> DEFINE m == Head(jobs).manager
           next == [tx[m] EXCEPT !.step = "ending"]
<1>1. /\ TypeOK /\ jobs # <<>> /\ Head(jobs).kind = "commit" /\ jobs' = Tail(jobs) /\ Goes(m, next)
      /\ UNCHANGED <<stored, snapshot, revision, available, applied, requests, working, reread, rereads, transactions>>
  BY DEF CommitJobFails, IInv, authorityVars, queueVars, rereadVars
<1>2. Head(jobs) = jobs[1] /\ Head(jobs) \in StoreJob /\ 1 \in 1..Len(jobs)
  BY <1>1, HeadJob
<1>3. m \in Manager /\ tx[m].step = "committing"
  BY <1>1, <1>2 DEF StoreJob, IInv, JobsAreAwaited
<1>4. tx[m] \in [step : {"loaded", "committing", "ending"}, thread : Thread, before : Snapshot]
  BY <1>1, <1>3, TransactionShape DEF TypeOK
<1>5. next \in Transaction /\ next # NoTx /\ next.step = "ending"
  BY <1>4 DEF Transaction, NoTx
<1> HIDE DEF next
<1>6. /\ working = NoCommand /\ jobs' \in Seq(StoreJob) /\ JobsAreAwaited' /\ JobsAreDistinct'
      /\ tx' \in [Manager -> Transaction] /\ tx'[m] = next
      /\ \A n \in Manager \ {m} : tx'[n] = tx[n]
      /\ Cardinality({n \in Manager : tx'[n] # NoTx}) = Cardinality({n \in Manager : tx[n] # NoTx})
  BY <1>1, <1>5, JobOfManagerDone
<1> HIDE DEF m
<1>7. TypeOK'
  BY <1>1, <1>6 DEF TypeOK
<1>8. CommandAlone' /\ NothingMovesUnderCommand'
  BY <1>1, <1>6 DEF CommandAlone, NothingMovesUnderCommand
<1>9. TransactionSeesLastEdit'
  BY <1>1, <1>5, <1>6 DEF IInv, TransactionSeesLastEdit
<1> QED BY <1>6, <1>7, <1>8, <1>9 DEF IInv

\* A manager gives the lock back while no job of the queue is its own.
LEMMA EndTransactionStep ==
    ASSUME IInv, NEW m \in Manager, EndTransaction(m)
    PROVE  IInv'
<1>1. /\ TypeOK /\ tx[m].step \in {"begun", "loaded", "ending"} /\ tx' = [tx EXCEPT ![m] = NoTx]
      /\ transactions' = IF transactions = 0 THEN 0 ELSE transactions - 1
      /\ UNCHANGED <<stored, snapshot, revision, available, applied, requests, working, jobs, reread, rereads>>
  BY DEF EndTransaction, SetTransactionActive, Goes, IInv, authorityVars, storeVars, queueVars, rereadVars
<1>2. tx[m] # NoTx /\ NoTx \in Transaction
  BY <1>1 DEF NoTx, Transaction
<1>3. tx' \in [Manager -> Transaction] /\ tx'[m] = NoTx /\ \A n \in Manager \ {m} : tx'[n] = tx[n]
  BY <1>1, <1>2 DEF TypeOK
<1>4. Cardinality(Busy(tx')) = Cardinality(Busy(tx)) - 1
      /\ Cardinality(Busy(tx)) \in Nat /\ Cardinality(Busy(tx)) > 0
  BY <1>1, <1>2, BusyCount DEF TypeOK
<1>5. TypeOK'
  <2>1. transactions = Cardinality(Busy(tx)) + rereads + (IF reread.step = "idle" THEN 0 ELSE 1)
    BY <1>1 DEF TypeOK, Busy
  <2>2. rereads \in Nat
    BY <1>1 DEF TypeOK
  <2>3. transactions > 0
    BY <2>1, <2>2, <1>4
  <2>4. transactions' = Cardinality(Busy(tx')) + rereads + (IF reread.step = "idle" THEN 0 ELSE 1)
    BY <2>1, <2>2, <2>3, <1>1, <1>4
  <2> QED BY <2>4, <1>1, <1>3 DEF TypeOK, Busy
<1>6. JobsAreDistinct' /\ NothingMovesUnderCommand'
  BY <1>1 DEF IInv, JobsAreDistinct, NothingMovesUnderCommand
<1>7. JobsAreAwaited'
  <2>1. ASSUME NEW i \in 1..Len(jobs), jobs[i].kind \in {"load", "commit"}
        PROVE  tx'[jobs[i].manager] = tx[jobs[i].manager]
    <3>1. jobs[i].manager \in Manager
      BY <1>1, <2>1, ElementOfSeq DEF TypeOK, StoreJob
    <3>2. jobs[i].manager # m
      BY <2>1, <1>1 DEF IInv, JobsAreAwaited
    <3> QED BY <3>1, <3>2, <1>3
  <2> QED BY <1>1, <2>1 DEF IInv, JobsAreAwaited
<1>8. CommandAlone'
  BY <1>1, <1>3 DEF IInv, CommandAlone, NoTx
<1>9. TransactionSeesLastEdit'
  BY <1>1, <1>3 DEF IInv, TransactionSeesLastEdit, NoTx
<1> QED BY <1>5, <1>6, <1>7, <1>8, <1>9 DEF IInv

\* runRecoveryOperation takes the lock before it waits.
LEMMA AskRereadStep ==
    ASSUME IInv, AskReread
    PROVE  IInv'
<1>1. /\ TypeOK /\ rereads' = rereads + 1 /\ transactions' = transactions + 1
      /\ UNCHANGED <<stored, snapshot, revision, available, applied, requests, working, jobs, tx, reread>>
  BY DEF AskReread, SetTransactionActive, IInv, authorityVars, storeVars, queueVars
<1>2. TypeOK'
  <2>1. Cardinality(Busy(tx)) \in Nat
    BY <1>1, BusyCount DEF TypeOK, Manager
  <2> QED BY <2>1, <1>1 DEF TypeOK, Busy
<1>3. JobsAreAwaited' /\ JobsAreDistinct'
  BY <1>1 DEF IInv, JobsAreAwaited, JobsAreDistinct
<1>4. CommandAlone' /\ NothingMovesUnderCommand' /\ TransactionSeesLastEdit'
  BY <1>1 DEF IInv, CommandAlone, NothingMovesUnderCommand, TransactionSeesLastEdit
<1> QED BY <1>2, <1>3, <1>4 DEF IInv

LEMMA StartRereadStep ==
    ASSUME IInv, StartReread
    PROVE  IInv'
<1> DEFINE job == [kind |-> "reread"]
<1>1. /\ TypeOK /\ rereads > 0 /\ reread.step = "idle" /\ rereads' = rereads - 1
      /\ reread' = [step |-> "loading"] /\ jobs' = Append(jobs, job)
      /\ UNCHANGED <<stored, snapshot, revision, available, applied, requests, working, tx, transactions>>
  BY DEF StartReread, IInv, authorityVars, queueVars
<1>2. job \in StoreJob /\ job.kind = "reread"
  BY DEF StoreJob
<1>3. reread' \in Reread /\ reread'.step = "loading"
  BY <1>1 DEF Reread
<1> HIDE DEF job
<1>4. /\ jobs' \in Seq(StoreJob) /\ Len(jobs') = Len(jobs) + 1 /\ Len(jobs) \in Nat
      /\ \A i \in 1..Len(jobs) : jobs'[i] = jobs[i]
      /\ jobs'[Len(jobs) + 1] = job /\ jobs' # <<>>
      /\ jobs # <<>> => jobs'[1] = jobs[1]
  BY <1>1, <1>2, Queued, AppendProperties DEF TypeOK
<1>5. \A i \in 1..Len(jobs') : i \in 1..Len(jobs) \/ i = Len(jobs) + 1
  BY <1>4
<1>6. \A i \in 1..Len(jobs) : jobs[i].kind # "reread"
  BY <1>1 DEF IInv, JobsAreAwaited
<1>7. TypeOK'
  <2>1. Cardinality(Busy(tx)) \in Nat
    BY <1>1, BusyCount DEF TypeOK, Manager
  <2> QED BY <2>1, <1>1, <1>3, <1>4 DEF TypeOK, Busy
<1>8. JobsAreAwaited'
  <2>1. ASSUME NEW i \in 1..Len(jobs)
        PROVE  /\ jobs'[i].kind = "persist" => i = 1 /\ working' # NoCommand
               /\ jobs'[i].kind = "load" => tx'[jobs'[i].manager].step = "loading"
               /\ jobs'[i].kind = "commit" => tx'[jobs'[i].manager].step = "committing"
               /\ jobs'[i].kind # "reread"
    BY <1>1, <1>4, <1>6 DEF IInv, JobsAreAwaited
  <2> QED BY <2>1, <1>2, <1>3, <1>4, <1>5 DEF JobsAreAwaited
<1>9. JobsAreDistinct'
  BY <1>2, <1>4, <1>5, <1>6 DEF IInv, JobsAreDistinct
<1>10. CommandAlone' /\ NothingMovesUnderCommand' /\ TransactionSeesLastEdit'
  BY <1>1, <1>3, <1>4 DEF IInv, CommandAlone, NothingMovesUnderCommand, TransactionSeesLastEdit
<1> QED BY <1>4, <1>7, <1>8, <1>9, <1>10 DEF IInv

\* The database is read while no command is between its check and its
\* publication.
LEMMA RereadJobStep ==
    ASSUME IInv, RereadJob
    PROVE  IInv'
<1>1. /\ TypeOK /\ jobs # <<>> /\ Head(jobs).kind = "reread" /\ jobs' = Tail(jobs)
      /\ reread' = [step |-> "ready", snapshot |-> stored] \/ reread' = [step |-> "invalid"]
      /\ UNCHANGED <<stored, snapshot, revision, available, applied, requests, working, tx, rereads, transactions>>
  BY DEF RereadJob, IInv, authorityVars, queueVars
<1>2. Head(jobs) = jobs[1] /\ 1 \in 1..Len(jobs) /\ jobs[1] \in StoreJob /\ working = NoCommand
  BY <1>1, HeadJob
<1>3. reread.step = "loading"
  BY <1>1, <1>2 DEF IInv, JobsAreAwaited
<1>4. reread' \in Reread /\ reread'.step # "idle"
  BY <1>1 DEF Reread, TypeOK
<1>5. /\ jobs' \in Seq(StoreJob) /\ JobsAreDistinct'
      /\ \A i \in 1..Len(jobs') : /\ i + 1 \in 1..Len(jobs) /\ i + 1 # 1
                                  /\ jobs'[i] = jobs[i + 1] /\ jobs'[i] # jobs[1]
  BY <1>1, Taken DEF IInv, TypeOK
<1>6. ASSUME NEW i \in 1..Len(jobs')
      PROVE  jobs'[i].kind # "reread"
  <2>1. jobs'[i] \in StoreJob
    BY <1>5, ElementOfSeq
  <2>2. ASSUME NEW a \in StoreJob, NEW b \in StoreJob, a.kind = "reread", b.kind = "reread"
        PROVE  a = b
    BY <2>2 DEF StoreJob
  <2> QED BY <2>1, <2>2, <1>1, <1>2, <1>5
<1>7. TypeOK'
  BY <1>1, <1>3, <1>4, <1>5 DEF TypeOK
<1>8. JobsAreAwaited'
  BY <1>1, <1>5, <1>6 DEF IInv, JobsAreAwaited
<1>9. CommandAlone' /\ NothingMovesUnderCommand' /\ TransactionSeesLastEdit'
  BY <1>1, <1>2 DEF IInv, CommandAlone, NothingMovesUnderCommand, TransactionSeesLastEdit
<1> QED BY <1>5, <1>7, <1>8, <1>9 DEF IInv

\* A recovery operation that is past its job gives the lock back.
LEMMA RereadEnds ==
    ASSUME IInv, reread.step \in {"ready", "invalid"}, reread' = [step |-> "idle"],
           SetTransactionActive(FALSE), snapshot' \in Snapshot, revision' \in Nat, available' \in BOOLEAN,
           UNCHANGED <<stored, applied, requests, working, jobs, tx, rereads>>
    PROVE  IInv' /\ working = NoCommand
<1>1. TypeOK /\ transactions' = IF transactions = 0 THEN 0 ELSE transactions - 1
  BY DEF IInv, SetTransactionActive
<1>2. reread' \in Reread /\ reread'.step = "idle"
  BY DEF Reread
<1>3. working = NoCommand
  BY DEF IInv, CommandAlone
<1>4. TypeOK'
  <2>1. Cardinality(Busy(tx)) \in Nat /\ rereads \in Nat
    BY <1>1, BusyCount DEF TypeOK, Manager
  <2>2. transactions = Cardinality(Busy(tx)) + rereads + 1
    BY <1>1 DEF TypeOK, Busy
  <2>3. transactions' = Cardinality(Busy(tx)) + rereads
    BY <2>1, <2>2, <1>1
  <2> QED BY <2>1, <2>3, <1>1, <1>2 DEF TypeOK, Busy
<1>5. JobsAreAwaited' /\ JobsAreDistinct'
  BY DEF IInv, JobsAreAwaited, JobsAreDistinct
<1>6. CommandAlone' /\ NothingMovesUnderCommand' /\ TransactionSeesLastEdit'
  BY <1>3 DEF IInv, CommandAlone, NothingMovesUnderCommand, TransactionSeesLastEdit
<1> QED BY <1>3, <1>4, <1>5, <1>6 DEF IInv

LEMMA ReplaceStateStep ==
    ASSUME IInv, ReplaceState
    PROVE  IInv'
<1>1. reread \in Reread /\ snapshot \in Snapshot /\ revision \in Nat
  BY DEF IInv, TypeOK
<1>2. reread.step = "ready" => reread.snapshot \in Snapshot
  BY <1>1 DEF Reread
<1>3. snapshot' \in Snapshot /\ revision' \in Nat /\ available' \in BOOLEAN
  BY <1>1, <1>2 DEF ReplaceState, PublishSnapshot
<1> QED BY <1>3, RereadEnds DEF ReplaceState, storeVars, queueVars

LEMMA RereadFailsStep ==
    ASSUME IInv, RereadFails
    PROVE  IInv'
<1>1. snapshot' \in Snapshot /\ revision' \in Nat /\ available' \in BOOLEAN
  BY DEF RereadFails, authorityVars, IInv, TypeOK
<1> QED BY <1>1, RereadEnds DEF RereadFails, authorityVars, storeVars, queueVars

-----------------------------------------------------------------------------
(* The invariant *)

LEMMA InitIInv == Init => IInv
<1> SUFFICES ASSUME Init PROVE IInv
  OBVIOUS
<1>1. stored \in Snapshot
  BY DEF Init, Snapshot
<1>2. tx \in [Manager -> Transaction] /\ {m \in Manager : tx[m] # NoTx} = {}
  BY DEF Init, Transaction
<1>3. applied \in Seq(CommandId) /\ requests \in Seq(Command) /\ jobs \in Seq(StoreJob)
      /\ Len(applied) = 0 /\ Len(jobs) = 0
  BY EmptySeq DEF Init
<1>4. reread \in Reread /\ reread.step = "idle"
  BY DEF Init, Reread
<1>5. TypeOK
  <2>1. Cardinality({m \in Manager : tx[m] # NoTx}) = 0
    BY <1>2, FS_EmptySet
  <2>2. Len(applied) <= MaxApplied
    BY <1>3, AppStateAssumption
  <2> QED BY <1>1, <1>2, <1>3, <1>4, <2>1, <2>2 DEF Init, TypeOK
<1>6. JobsAreAwaited /\ JobsAreDistinct
  BY <1>3 DEF JobsAreAwaited, JobsAreDistinct
<1>7. CommandAlone /\ NothingMovesUnderCommand
  BY DEF Init, CommandAlone, NothingMovesUnderCommand
<1>8. TransactionSeesLastEdit
  BY DEF Init, TransactionSeesLastEdit, NoTx
<1> QED BY <1>5, <1>6, <1>7, <1>8 DEF IInv

LEMMA NextStep ==
    ASSUME IInv, [Next]_vars
    PROVE  IInv'
<1>1. CASE \E id \in CommandId, t \in Thread, base \in SeenRevisions \cup {NoBase} :
              Submit([id |-> id, thread |-> t, base |-> base])
  BY <1>1, SubmitStep
<1>2. CASE Process
  BY <1>2, RejectStep, AcceptUnchangedStep, PersistStep DEF Process
<1>3. CASE Job
  BY <1>3, PersistJobStep, PersistJobFailsStep, LoadJobStep, CommitJobStep, CommitJobFailsStep,
     RereadJobStep DEF Job
<1>4. CASE \E m \in Manager, t \in Thread : BeginTransaction(m, t)
  BY <1>4, BeginTransactionStep
<1>5. CASE \E m \in Manager : LoadBefore(m) \/ Commit(m) \/ EndTransaction(m)
  BY <1>5, LoadBeforeStep, CommitStep, EndTransactionStep
<1>6. CASE AskReread \/ StartReread \/ ReplaceState \/ RereadFails
  BY <1>6, AskRereadStep, StartRereadStep, ReplaceStateStep, RereadFailsStep
<1>7. CASE UNCHANGED vars
  <2>1. UNCHANGED <<stored, snapshot, revision, available, applied, requests, working, jobs, tx, reread,
                    rereads, transactions>>
    BY <1>7 DEF vars, authorityVars, storeVars, queueVars, rereadVars
  <2> QED BY <2>1, QuietStep DEF IInv, TypeOK
<1> QED BY <1>1, <1>2, <1>3, <1>4, <1>5, <1>6, <1>7 DEF Next

\* The invariant holds in every reachable state of the App State authority.
THEOREM Invariance == Spec => []IInv
<1>1. IInv /\ [Next]_vars => IInv'
  BY NextStep
<1> QED BY <1>1, InitIInv, PTL DEF Spec

\* Every variable keeps its shape, and the count of active transactions is the
\* number of managers and recovery operations that hold the lock.
THEOREM TypeCorrect == Spec => []TypeOK
<1>1. IInv => TypeOK
  BY DEF IInv
<1> QED BY <1>1, Invariance, PTL

\* What process publishes after its await was computed from the snapshot that is
\* still current, and from the revision its sender named: also when rereads and
\* transactions overlap.
THEOREM CommandSeesItsState == Spec => []NothingMovesUnderCommand
<1>1. IInv => NothingMovesUnderCommand
  BY DEF IInv
<1> QED BY <1>1, Invariance, PTL

\* A transaction commits over the edits it found when it chose what to delete or
\* to move: also when rereads and transactions overlap.
THEOREM NoEditSlipsIn == Spec => []TransactionSeesLastEdit
<1>1. IInv => TransactionSeesLastEdit
  BY DEF IInv
<1> QED BY <1>1, Invariance, PTL

-----------------------------------------------------------------------------
(* Memory and store, while recovery and transactions do not overlap *)

LEMMA ApartStep ==
    ASSUME ~Overlap, IInv, ApartInv, [Next]_vars
    PROVE  ApartInv'
<1> USE DEF ApartInv, Apart, RereadIsFresh, MemoryMatchesStore
<1>1. TypeOK
  BY DEF IInv
<1>2. ASSUME UNCHANGED <<stored, snapshot, available, tx, reread, rereads>>
      PROVE  ApartInv'
  BY <1>2
<1>3. ASSUME NEW m \in Manager, tx[m] # NoTx, \E next : Goes(m, next),
             UNCHANGED <<stored, snapshot, available, reread, rereads>>
      PROVE  ApartInv'
  <2>1. rereads = 0 /\ reread.step = "idle"
    BY <1>1, <1>3 DEF TypeOK
  <2> QED BY <1>3, <2>1
<1>4. CASE \E id \in CommandId, t \in Thread, base \in SeenRevisions \cup {NoBase} :
              Submit([id |-> id, thread |-> t, base |-> base])
  BY <1>2, <1>4 DEF Submit, authorityVars, storeVars, rereadVars
<1>5. CASE Process
  BY <1>2, <1>5 DEF Process, Reject, AcceptUnchanged, Persist, authorityVars, storeVars, rereadVars
<1>6. CASE PersistJob
  <2>1. jobs # <<>> /\ Head(jobs).kind = "persist"
    BY <1>6 DEF PersistJob
  <2>2. working # NoCommand
    BY <2>1, HeadJob
  <2>3. /\ available /\ reread.step \in {"idle", "loading"}
        /\ working.after = [snapshot EXCEPT ![working.command.thread] = @ \cup {working.command.id}]
    BY <2>2 DEF IInv, CommandAlone
  <2>4. stored' = snapshot' /\ UNCHANGED <<tx, reread, rereads>>
    BY <2>3, <1>6 DEF PersistJob, PublishSnapshot, rereadVars
  <2> QED BY <2>3, <2>4
<1>7. CASE PersistJobFails
  BY <1>2, <1>7 DEF PersistJobFails, authorityVars, rereadVars
<1>8. CASE LoadJob
  <2>1. /\ Head(jobs).manager \in Manager
        /\ tx[Head(jobs).manager].step = "loading"
    <3>1. jobs # <<>> /\ Head(jobs).kind = "load"
      BY <1>8 DEF LoadJob
    <3>2. Head(jobs) = jobs[1] /\ Head(jobs) \in StoreJob /\ 1 \in 1..Len(jobs)
      BY <3>1, HeadJob
    <3> QED BY <3>1, <3>2 DEF StoreJob, IInv, JobsAreAwaited
  <2>2. tx[Head(jobs).manager] # NoTx
    BY <2>1 DEF NoTx
  <2>3. \E next : Goes(Head(jobs).manager, next)
    BY <1>8 DEF LoadJob
  <2>4. UNCHANGED <<stored, snapshot, available, reread, rereads>>
    BY <1>8 DEF LoadJob, authorityVars, rereadVars
  <2> QED BY <2>1, <2>2, <2>3, <2>4, <1>3
<1>9. ASSUME CommitJob \/ CommitJobFails
      PROVE  /\ Head(jobs).manager \in Manager /\ tx[Head(jobs).manager] # NoTx
             /\ \E next : Goes(Head(jobs).manager, next)
  <2>1. jobs # <<>> /\ Head(jobs).kind = "commit"
    BY <1>9 DEF CommitJob, CommitJobFails
  <2>2. Head(jobs) = jobs[1] /\ Head(jobs) \in StoreJob /\ 1 \in 1..Len(jobs)
    BY <2>1, HeadJob
  <2>3. Head(jobs).manager \in Manager /\ tx[Head(jobs).manager].step = "committing"
    BY <2>1, <2>2 DEF StoreJob, IInv, JobsAreAwaited
  <2>4. \E next : Goes(Head(jobs).manager, next)
    BY <1>9 DEF CommitJob, CommitJobFails
  <2> QED BY <2>3, <2>4 DEF NoTx
<1>10. CASE CommitJob
  <2>1. \/ available /\ stored' = snapshot'
        \/ ~available /\ snapshot' = snapshot
    <3> DEFINE committed == Committed(stored, Head(jobs).manager, tx[Head(jobs).manager].thread)
    <3>1. stored' = committed /\ AdoptExternalSnapshot(committed)
      BY <1>10 DEF CommitJob
    <3> HIDE DEF committed
    <3> QED BY <3>1 DEF AdoptExternalSnapshot, PublishSnapshot
  <2>2. UNCHANGED <<available, reread, rereads>>
    BY <1>10 DEF CommitJob, rereadVars
  <2>3. rereads = 0 /\ reread.step = "idle"
    BY <1>1, <1>9, <1>10 DEF TypeOK
  <2>4. Apart' /\ RereadIsFresh'
    BY <2>2, <2>3
  <2>5. MemoryMatchesStore'
    BY <2>1, <2>2
  <2> QED BY <2>4, <2>5
<1>11. CASE CommitJobFails
  BY <1>3, <1>9, <1>11 DEF CommitJobFails, authorityVars, rereadVars
<1>12. CASE RereadJob
  <2>1. jobs # <<>> /\ Head(jobs).kind = "reread"
    BY <1>12 DEF RereadJob
  <2>2. Head(jobs) = jobs[1] /\ 1 \in 1..Len(jobs)
    BY <2>1, HeadJob
  <2>3. reread.step = "loading"
    BY <2>1, <2>2 DEF IInv, JobsAreAwaited
  <2>4. UNCHANGED <<stored, snapshot, available, tx, rereads>>
    BY <1>12 DEF RereadJob, authorityVars
  <2>5. reread' = [step |-> "ready", snapshot |-> stored] \/ reread' = [step |-> "invalid"]
    BY <1>12 DEF RereadJob
  <2> QED BY <2>3, <2>4, <2>5
<1>13. CASE \E m \in Manager, t \in Thread : BeginTransaction(m, t)
  BY <1>13 DEF BeginTransaction, authorityVars, storeVars, rereadVars
<1>14. CASE \E m \in Manager : LoadBefore(m) \/ Commit(m) \/ EndTransaction(m)
  <2>1. PICK m \in Manager : LoadBefore(m) \/ Commit(m) \/ EndTransaction(m)
    BY <1>14
  <2>2. tx[m] # NoTx
    <3>1. tx[m].step \in {"begun", "loaded", "ending"}
      BY <2>1 DEF LoadBefore, Commit, EndTransaction
    <3> QED BY <3>1 DEF NoTx
  <2>3. \E next : Goes(m, next)
    BY <2>1 DEF LoadBefore, Commit, EndTransaction
  <2>4. UNCHANGED <<stored, snapshot, available, reread, rereads>>
    BY <2>1 DEF LoadBefore, Commit, EndTransaction, authorityVars, storeVars, rereadVars
  <2> QED BY <2>2, <2>3, <2>4, <1>3
<1>15. CASE AskReread
  BY <1>15 DEF AskReread, authorityVars, storeVars
<1>16. CASE StartReread
  BY <1>16, <1>1 DEF StartReread, authorityVars, TypeOK
<1>17. CASE ReplaceState
  BY <1>17, <1>1 DEF ReplaceState, PublishSnapshot, storeVars, TypeOK
<1>18. CASE RereadFails
  BY <1>18 DEF RereadFails, authorityVars, storeVars
<1>19. CASE UNCHANGED vars
  BY <1>2, <1>19 DEF vars, authorityVars, storeVars, rereadVars
<1> QED BY <1>4, <1>5, <1>6, <1>7, <1>8, <1>10, <1>11, <1>12, <1>13, <1>14, <1>15, <1>16, <1>17, <1>18,
           <1>19 DEF Next, Job

\* What the windows are shown is what is persisted, as long as no reread runs
\* together with a deletion or a relocation.
THEOREM MemoryAgrees ==
    ASSUME ~Overlap
    PROVE  Spec => []MemoryMatchesStore
<1>1. Init => ApartInv
  BY DEF Init, ApartInv, Apart, RereadIsFresh, MemoryMatchesStore
<1>2. IInv /\ ApartInv /\ [Next]_vars => ApartInv'
  BY ApartStep
<1>3. ApartInv => MemoryMatchesStore
  BY DEF ApartInv
<1> QED BY <1>1, <1>2, <1>3, Invariance, PTL DEF Spec

=============================================================================
