------------------------ MODULE RunReplicationProofs ------------------------
(***************************************************************************)
(* Proofs about RunAuthority and RunReplication for every set of threads,  *)
(* runs, interactions and windows.                                         *)
(***************************************************************************)
EXTENDS RunReplication, SequenceTheorems, FiniteSetTheorems, TLAPS

(***************************************************************************)
(*                        Part 1: the authority                            *)
(*                                                                         *)
(* The safety invariants are inductive only together, and with two facts   *)
(* no window can see: a run id that was never sent has left no trace, and  *)
(* a live run has an active turn.  Nearly every action replaces one live   *)
(* run by its next version, so one lemma, Advance, carries the argument    *)
(* and each action only shows what its next version looks like.            *)
(***************************************************************************)

\* The turn of a live run goes on.
LiveRunIsActive == \A r \in RunId : IsLive(r) => turn[r] = "active"

\* A run id that was never sent is neither indexed nor part of an answer.
UnusedRunIsFresh ==
    \A r \in RunId : turn[r] = "unused" =>
        /\ threadOf[r] = NoThread
        /\ \A a \in answered \cup accepted : a[1] # r

\* The inductive invariant.
IInv ==
    /\ TypeOK
    /\ IndexMatchesTable
    /\ StatusMatchesInteractions
    /\ AnsweredAtMostOnce
    /\ AcceptedUntilSettled
    /\ OrphanTurnIsStopped
    /\ QueueReachesRevision
    /\ LiveRunIsActive
    /\ UnusedRunIsFresh

\* A terminal run of the table stays as it is, leaves it, or is replaced.
FinalKept ==
    \A t \in Thread : runs[t] # NoRun /\ runs[t].status \in TerminalStatus =>
        runs'[t] \in {runs[t], NoRun} \/ runs'[t].id # runs[t].id

\* What every step is shown to do.
StepOK == IInv' /\ FinalKept

\* What a step leaves of the stream: typed, and the queue in order.
StreamOK ==
    /\ revision \in Nat
    /\ queue \in Seq(Update)
    /\ subscribers \subseteq Window
    /\ channel \in [Window -> Seq(Seq(Update))]
    /\ QueueReachesRevision

-----------------------------------------------------------------------------
(* The operators *)

\* A run with its status settled, its interactions replaced, its stop noted or
\* an event counted is a run, of the same id and thread.
LEMMA RunVariants ==
    ASSUME NEW run \in Run
    PROVE  /\ \A status \in TerminalStatus :
                  /\ Settled(run, status) \in Run
                  /\ Settled(run, status).id = run.id /\ Settled(run, status).thread = run.thread
                  /\ Settled(run, status).status = status
                  /\ Settled(run, status).permissions = {} /\ Settled(run, status).questions = {}
           /\ LimitFailure(run) \in Run
           /\ LimitFailure(run).id = run.id /\ LimitFailure(run).thread = run.thread
           /\ LimitFailure(run).status = "failed"
           /\ LimitFailure(run).permissions = {} /\ LimitFailure(run).questions = {}
           /\ Counted(run) \in Run
           /\ Counted(run).id = run.id /\ Counted(run).thread = run.thread
           /\ Counted(run).status = run.status /\ Counted(run).begun = run.begun
           /\ Counted(run).permissions = run.permissions /\ Counted(run).questions = run.questions
<1>1. ASSUME NEW status \in TerminalStatus
      PROVE  /\ Settled(run, status) \in Run
             /\ Settled(run, status).id = run.id /\ Settled(run, status).thread = run.thread
             /\ Settled(run, status).status = status
             /\ Settled(run, status).permissions = {} /\ Settled(run, status).questions = {}
  BY DEF Run, Settled
<1>2. /\ LimitFailure(run) \in Run
      /\ LimitFailure(run).id = run.id /\ LimitFailure(run).thread = run.thread
      /\ LimitFailure(run).status = "failed"
      /\ LimitFailure(run).permissions = {} /\ LimitFailure(run).questions = {}
  <2> DEFINE settled == Settled(run, "failed")
  <2>1. settled \in Run /\ settled.id = run.id /\ settled.thread = run.thread
        /\ settled.status = "failed" /\ settled.permissions = {} /\ settled.questions = {}
    BY <1>1 DEF TerminalStatus
  <2> DEFINE failure == [settled EXCEPT !.stopRequested = TRUE, !.begun = FALSE, !.count = @ + 1]
  <2>2. LimitFailure(run) = failure
    BY DEF LimitFailure
  <2>3. failure \in Run /\ failure.id = run.id /\ failure.thread = run.thread
        /\ failure.status = "failed" /\ failure.permissions = {} /\ failure.questions = {}
    <3> HIDE DEF settled
    <3>1. settled.count + 1 \in Nat
      BY <2>1 DEF Run
    <3> QED BY <2>1, <3>1 DEF Run
  <2> HIDE DEF settled, failure
  <2> QED BY <2>2, <2>3
<1>3. /\ Counted(run) \in Run
      /\ Counted(run).id = run.id /\ Counted(run).thread = run.thread
      /\ Counted(run).status = run.status /\ Counted(run).begun = run.begun
      /\ Counted(run).permissions = run.permissions /\ Counted(run).questions = run.questions
  BY DEF Run, Counted
<1> QED BY <1>1, <1>2, <1>3

\* The status a run gets from its interactions is a live one, and depends on
\* nothing but the interactions and the start.
LEMMA StatusIsLive ==
    ASSUME NEW run
    PROVE  StatusAfterInteraction(run) \in LiveStatus
  BY DEF StatusAfterInteraction, LiveStatus

\* Replacing the interactions of a run leaves a run whose status follows them.
LEMMA InteractionsVariant ==
    ASSUME NEW run \in Run, NEW ps \in SUBSET Permission, NEW qs \in SUBSET Question
    PROVE  /\ WithInteractions(run, ps, qs) \in Run
           /\ WithInteractions(run, ps, qs).id = run.id
           /\ WithInteractions(run, ps, qs).thread = run.thread
           /\ WithInteractions(run, ps, qs).permissions = ps
           /\ WithInteractions(run, ps, qs).questions = qs
           /\ WithInteractions(run, ps, qs).status \in LiveStatus
           /\ WithInteractions(run, ps, qs).status
                 = StatusAfterInteraction(WithInteractions(run, ps, qs))
<1> DEFINE next == [run EXCEPT !.permissions = ps, !.questions = qs]
           final == [next EXCEPT !.status = StatusAfterInteraction(next)]
<1>1. next \in Run /\ next.id = run.id /\ next.thread = run.thread
      /\ next.permissions = ps /\ next.questions = qs /\ next.begun = run.begun
  BY DEF Run
<1>2. StatusAfterInteraction(next) \in LiveStatus
  BY StatusIsLive
<1>3. final \in Run /\ final.id = run.id /\ final.thread = run.thread
      /\ final.permissions = ps /\ final.questions = qs /\ final.begun = run.begun
      /\ final.status = StatusAfterInteraction(next)
  <2> HIDE DEF next
  <2> QED BY <1>1, <1>2 DEF Run
<1>4. StatusAfterInteraction(final) = StatusAfterInteraction(next)
  <2> HIDE DEF next, final
  <2> QED BY <1>1, <1>3 DEF StatusAfterInteraction
<1> QED
  <2> WithInteractions(run, ps, qs) = final
    BY DEF WithInteractions
  <2> HIDE DEF next, final
  <2> QED BY <1>2, <1>3, <1>4

\* A change carries what it was made of.
LEMMA ChangeIsUpdate ==
    ASSUME NEW r \in Nat, NEW run \in Run \cup {NoRun}, NEW gone \in RunId \cup {NoId}
    PROVE  /\ Change(r, run, gone) \in Update
           /\ EventChange(r, run, gone) \in Update
           /\ EventChange(r, run, gone).base = r
           /\ EventChange(r, run, gone).revision = r + 1
<1>1. Change(r, run, gone) \in Update /\ Change(r, run, gone).base = r
      /\ Change(r, run, gone).revision = r + 1
  BY DEF Change, Update
<1> DEFINE change == Change(r, run, gone)
<1> HIDE DEF change
<1>2. [change EXCEPT !.event = TRUE] \in Update /\ [change EXCEPT !.event = TRUE].base = change.base
      /\ [change EXCEPT !.event = TRUE].revision = change.revision
  BY <1>1 DEF change, Update
<1> QED BY <1>1, <1>2 DEF change, EventChange

\* Publishing at once empties the queue and leaves the stream in order.
LEMMA DispatchKeepsStream ==
    ASSUME StreamOK, NEW updates \in Seq(Update), Dispatch(updates)
    PROVE  StreamOK'
<1> DEFINE batch == IF queue = <<>> THEN <<>> ELSE <<queue>>
           single == [i \in 1..Len(updates) |-> <<updates[i]>>]
           sent == batch \o single
<1>1. batch \in Seq(Seq(Update))
  BY DEF StreamOK
<1>2. single \in Seq(Seq(Update))
  <2>1. \A i \in 1..Len(updates) : <<updates[i]>> \in Seq(Update)
    OBVIOUS
  <2> QED BY <2>1
<1>3. sent \in Seq(Seq(Update))
  <2> HIDE DEF batch, single
  <2> QED BY <1>1, <1>2
<1>4. channel' = [w \in Window |-> IF w \in subscribers THEN channel[w] \o sent ELSE channel[w]]
  BY DEF Dispatch
<1>5. channel' \in [Window -> Seq(Seq(Update))]
  <2> HIDE DEF sent
  <2> SUFFICES ASSUME NEW w \in Window
               PROVE  (IF w \in subscribers THEN channel[w] \o sent ELSE channel[w]) \in Seq(Seq(Update))
    BY <1>4, Zenon
  <2>1. channel[w] \in Seq(Seq(Update))
    BY DEF StreamOK
  <2> QED BY <2>1, <1>3
<1> QED
  BY <1>5 DEF StreamOK, Dispatch, QueueReachesRevision

\* A batchable update takes the next revision at the end of the queue.
LEMMA EnqueueKeepsStream ==
    ASSUME StreamOK, NEW update \in Update, Enqueue(update),
           update.base = revision, update.revision = revision + 1
    PROVE  StreamOK'
<1>1. queue' \in Seq(Update) /\ Len(queue') = Len(queue) + 1
  BY DEF StreamOK, Enqueue
<1>2. ASSUME NEW i \in DOMAIN queue'
      PROVE  queue'[i].revision = revision' - Len(queue') + i /\ queue'[i].base + 1 = queue'[i].revision
  <2>1. i \in 1..(Len(queue) + 1)
    BY <1>1, <1>2
  <2>2. CASE i = Len(queue) + 1
    <3>1. queue'[i] = update
      BY <2>2 DEF StreamOK, Enqueue
    <3> QED BY <3>1, <2>2, <1>1 DEF StreamOK, Enqueue
  <2>3. CASE i \in DOMAIN queue
    <3>1. queue'[i] = queue[i]
      BY <2>3 DEF StreamOK, Enqueue
    <3>2. queue[i].revision = revision - Len(queue) + i /\ queue[i].base + 1 = queue[i].revision
      BY <2>3 DEF StreamOK, QueueReachesRevision
    <3>3. queue[i] \in Update /\ i \in Nat /\ Len(queue) \in Nat /\ revision \in Nat
      BY <2>3 DEF StreamOK
    <3> QED BY <3>1, <3>2, <3>3, <1>1 DEF Enqueue, Update
  <2> QED BY <2>1, <2>2, <2>3 DEF StreamOK
<1> QED
  BY <1>1, <1>2 DEF StreamOK, Enqueue, QueueReachesRevision

-----------------------------------------------------------------------------
(* Replacing a run *)

\* What the table and the index hold after a run was put in.
LEMMA ReplaceRunEffect ==
    ASSUME TypeOK, NEW run \in Run, ReplaceRun(run)
    PROVE  /\ runs' \in [Thread -> Run \cup {NoRun}]
           /\ threadOf' \in [RunId -> Thread \cup {NoThread}]
           /\ runs'[run.thread] = run /\ threadOf'[run.id] = run.thread
           /\ \A t \in Thread : t # run.thread => runs'[t] = runs[t]
           /\ \A r \in RunId : r # run.id =>
                 threadOf'[r] = IF runs[run.thread] # NoRun /\ r = runs[run.thread].id THEN NoThread
                                ELSE threadOf[r]
<1>1. run.id \in RunId /\ run.thread \in Thread
  BY DEF Run
<1> QED BY <1>1 DEF TypeOK, ReplaceRun

\* Putting a run in keeps the index and the table in agreement, whether it is
\* the next version of its thread's run or the first of a fresh id.
LEMMA ReplaceRunKeepsIndex ==
    ASSUME TypeOK, IndexMatchesTable, NEW run \in Run, ReplaceRun(run),
           threadOf[run.id] \in {run.thread, NoThread}
    PROVE  IndexMatchesTable'
<1> USE RunAuthorityAssumption
<1>1. run.id \in RunId /\ run.thread \in Thread /\ run # NoRun
  BY DEF Run
<1>2. ASSUME NEW r \in RunId, threadOf'[r] # NoThread
      PROVE  runs'[threadOf'[r]] # NoRun /\ runs'[threadOf'[r]].id = r
  <2>1. CASE r = run.id
    BY <2>1, <1>1, ReplaceRunEffect
  <2>2. CASE r # run.id
    <3>1. threadOf'[r] = threadOf[r] /\ ~(runs[run.thread] # NoRun /\ r = runs[run.thread].id)
      BY <1>2, <2>2, ReplaceRunEffect
    <3>2. threadOf[r] \in Thread /\ runs[threadOf[r]] # NoRun /\ runs[threadOf[r]].id = r
      BY <1>2, <3>1 DEF TypeOK, IndexMatchesTable
    <3>3. threadOf[r] # run.thread
      BY <3>1, <3>2
    <3> QED BY <3>1, <3>2, <3>3, ReplaceRunEffect
  <2> QED BY <2>1, <2>2
<1>3. ASSUME NEW t \in Thread, runs'[t] # NoRun
      PROVE  threadOf'[runs'[t].id] = t /\ runs'[t].thread = t
  <2>1. CASE t = run.thread
    BY <2>1, <1>1, ReplaceRunEffect
  <2>2. CASE t # run.thread
    <3>1. runs'[t] = runs[t] /\ runs[t] # NoRun /\ runs[t].id \in RunId
      BY <1>3, <2>2, ReplaceRunEffect DEF TypeOK, Run
    <3>2. threadOf[runs[t].id] = t /\ runs[t].thread = t
      BY <3>1 DEF IndexMatchesTable
    <3>3. runs[t].id # run.id
      BY <3>2, <2>2, <1>1
    <3>4. ~(runs[run.thread] # NoRun /\ runs[t].id = runs[run.thread].id)
      BY <3>2, <2>2, <1>1 DEF IndexMatchesTable
    <3> QED BY <3>1, <3>2, <3>3, <3>4, ReplaceRunEffect
  <2> QED BY <2>1, <2>2
<1> QED BY <1>2, <1>3 DEF IndexMatchesTable

\* After that a run other than the one put in, and other than the one it took
\* the place of, is known and live exactly when it was.
LEMMA OtherRunsStay ==
    ASSUME TypeOK, IndexMatchesTable, NEW run \in Run, ReplaceRun(run),
           threadOf[run.id] \in {run.thread, NoThread},
           NEW r \in RunId, r # run.id,
           Known(r) => threadOf[r] # run.thread
    PROVE  (IsLive(r) <=> IsLive(r)') /\ (IsLive(r) => RunOf(r)' = RunOf(r))
<1> USE RunAuthorityAssumption
<1>1. CASE Known(r)
  <2>1. threadOf[r] \in Thread /\ runs[threadOf[r]] # NoRun /\ runs[threadOf[r]].id = r
    BY <1>1 DEF Known
  <2>2. ~(runs[run.thread] # NoRun /\ r = runs[run.thread].id)
    BY <2>1, <1>1 DEF IndexMatchesTable, Run
  <2>3. threadOf'[r] = threadOf[r] /\ runs'[threadOf[r]] = runs[threadOf[r]]
    BY <2>1, <2>2, <1>1, ReplaceRunEffect
  <2> QED BY <2>3 DEF IsLive, Known, RunOf
<1>2. CASE ~Known(r)
  <2>1. threadOf[r] = NoThread
    BY <1>2 DEF Known, TypeOK, IndexMatchesTable
  <2>2. threadOf'[r] = NoThread
    BY <2>1, ReplaceRunEffect
  <2> QED BY <2>1, <2>2 DEF IsLive, Known
<1> QED BY <1>1, <1>2

\* The run that was put in is known, under the index it was given.
LEMMA RunPutIn ==
    ASSUME TypeOK, NEW run \in Run, ReplaceRun(run)
    PROVE  RunOf(run.id)' = run /\ (IsLive(run.id)' <=> run.status \in LiveStatus)
<1> USE RunAuthorityAssumption
<1>1. run.id \in RunId /\ run.thread \in Thread /\ run # NoRun
  BY DEF Run
<1> QED BY <1>1, ReplaceRunEffect DEF RunOf, IsLive, Known

-----------------------------------------------------------------------------
(* One live run takes its next version *)

\* The status and the interactions of a run agree.
StatusFits(run) ==
    IF run.status \in LiveStatus THEN run.status = StatusAfterInteraction(run)
    ELSE run.permissions = {} /\ run.questions = {}

\* The answers of other runs stay what they were.
OthersKept(r, before, after) == {a \in after : a[1] # r} = {a \in before : a[1] # r}

\* The turn of r goes on, or ends with its run; the other turns stay.
TurnFollows(r, run) ==
    /\ turn' \in [RunId -> {"unused", "active", "ended"}]
    /\ \A q \in RunId : q # r => turn'[q] = turn[q]
    /\ turn'[r] = "active" \/ (turn'[r] = "ended" /\ run.status \notin LiveStatus)
    /\ run.status \notin LiveStatus /\ turn'[r] = "active" => r \in told'
    /\ told \subseteq told' /\ told' \subseteq RunId

\* The answers of r fit what its next version waits for.
AnswersFit(r, run) ==
    /\ answered' \subseteq RunId \X Interaction /\ OthersKept(r, answered, answered')
    /\ accepted' \subseteq RunId \X Question /\ OthersKept(r, accepted, accepted')
    /\ run.status \in LiveStatus =>
          /\ \A i \in run.permissions \cup run.questions : <<r, i>> \notin answered'
          /\ {q \in Question : <<r, q>> \in accepted'} = {q \in Question : <<r, q>> \in answered'}

\* A step that replaces the live run r by a version that fits keeps the
\* invariant.
LEMMA Advance ==
    ASSUME IInv, NEW r \in RunId, IsLive(r), NEW run \in Run, run.id = r, run.thread = threadOf[r],
           ReplaceRun(run), StreamOK', StatusFits(run), TurnFollows(r, run), AnswersFit(r, run)
    PROVE  StepOK
<1> USE RunAuthorityAssumption
<1>1. TypeOK /\ IndexMatchesTable /\ threadOf[r] \in Thread /\ Known(r)
  BY DEF IInv, IsLive, Known
<1>2. TypeOK'
  BY <1>1, ReplaceRunEffect DEF TypeOK, StreamOK, TurnFollows, AnswersFit
<1>3. IndexMatchesTable'
  BY <1>1, ReplaceRunKeepsIndex
<1>4. RunOf(r)' = run /\ (IsLive(r)' <=> run.status \in LiveStatus)
  BY <1>1, RunPutIn
<1>5. ASSUME NEW q \in RunId, q # r
      PROVE  (IsLive(q) <=> IsLive(q)') /\ (IsLive(q) => RunOf(q)' = RunOf(q))
  <2>1. Known(q) => threadOf[q] # run.thread
    BY <1>1, <1>5 DEF Known
  <2> QED BY <1>1, <1>5, <2>1, OtherRunsStay
<1>6. StatusMatchesInteractions'
  <2> SUFFICES ASSUME NEW t \in Thread, runs'[t] # NoRun
               PROVE  StatusFits(runs'[t])
    BY DEF StatusMatchesInteractions, StatusFits
  <2>1. CASE t = threadOf[r]
    BY <2>1, <1>1, ReplaceRunEffect
  <2>2. CASE t # threadOf[r]
    <3>1. runs'[t] = runs[t]
      BY <2>2, <1>1, ReplaceRunEffect
    <3> QED BY <3>1 DEF IInv, StatusMatchesInteractions, StatusFits
  <2> QED BY <2>1, <2>2
<1>7. AnsweredAtMostOnce'
  <2> SUFFICES ASSUME NEW a \in answered', IsLive(a[1])'
               PROVE  a[2] \notin RunOf(a[1])'.permissions \cup RunOf(a[1])'.questions
    BY DEF AnsweredAtMostOnce
  <2>1. a[1] \in RunId /\ a = <<a[1], a[2]>>
    BY <1>2 DEF TypeOK
  <2>2. CASE a[1] = r
    BY <2>1, <2>2, <1>4 DEF AnswersFit
  <2>3. CASE a[1] # r
    <3>1. a \in answered
      BY <2>3 DEF AnswersFit, OthersKept
    <3> QED BY <2>1, <2>3, <3>1, <1>5 DEF IInv, AnsweredAtMostOnce
  <2> QED BY <2>2, <2>3
<1>8. AcceptedUntilSettled'
  <2> SUFFICES ASSUME NEW q \in RunId, IsLive(q)'
               PROVE  {i \in Question : <<q, i>> \in accepted'} = {i \in Question : <<q, i>> \in answered'}
    BY DEF AcceptedUntilSettled
  <2>1. CASE q = r
    BY <2>1, <1>4 DEF AnswersFit
  <2>2. CASE q # r
    <3>1. \A i \in Question : <<q, i>> \in accepted' <=> <<q, i>> \in accepted
      BY <2>2 DEF AnswersFit, OthersKept
    <3>2. \A i \in Question : <<q, i>> \in answered' <=> <<q, i>> \in answered
      BY <2>2 DEF AnswersFit, OthersKept
    <3>3. {i \in Question : <<q, i>> \in accepted} = {i \in Question : <<q, i>> \in answered}
      BY <2>2, <1>5 DEF IInv, AcceptedUntilSettled
    <3> QED BY <3>1, <3>2, <3>3
  <2> QED BY <2>1, <2>2
<1>9. OrphanTurnIsStopped' /\ LiveRunIsActive'
  BY <1>4, <1>5 DEF IInv, OrphanTurnIsStopped, LiveRunIsActive, TurnFollows
<1>10. UnusedRunIsFresh'
  <2> SUFFICES ASSUME NEW q \in RunId, turn'[q] = "unused"
               PROVE  /\ threadOf'[q] = NoThread
                      /\ \A a \in answered' \cup accepted' : a[1] # q
    BY DEF UnusedRunIsFresh
  <2>1. q # r /\ turn[q] = "unused"
    BY DEF TurnFollows
  <2>2. threadOf[q] = NoThread /\ \A a \in answered \cup accepted : a[1] # q
    BY <2>1 DEF IInv, UnusedRunIsFresh
  <2>3. threadOf'[q] = NoThread
    BY <2>1, <2>2, <1>1, ReplaceRunEffect
  <2> QED BY <2>1, <2>2, <2>3 DEF AnswersFit, OthersKept
<1>11. FinalKept
  <2>1. runs[threadOf[r]].status \notin TerminalStatus
    BY DEF IsLive, RunOf, LiveStatus, TerminalStatus
  <2> QED BY <2>1, <1>1, ReplaceRunEffect DEF FinalKept
<1> QED BY <1>2, <1>3, <1>6, <1>7, <1>8, <1>9, <1>10, <1>11 DEF StepOK, IInv, StreamOK

\* What the invariant says of a live run.
LEMMA LiveRun ==
    ASSUME IInv, NEW r \in RunId, IsLive(r)
    PROVE  /\ RunOf(r) \in Run /\ RunOf(r).id = r /\ RunOf(r).thread = threadOf[r]
           /\ RunOf(r).status \in LiveStatus /\ StatusFits(RunOf(r))
           /\ turn[r] = "active" /\ threadOf[r] \in Thread
           /\ \A i \in RunOf(r).permissions \cup RunOf(r).questions : <<r, i>> \notin answered
           /\ {q \in Question : <<r, q>> \in accepted} = {q \in Question : <<r, q>> \in answered}
<1>1. threadOf[r] \in Thread /\ RunOf(r) = runs[threadOf[r]] /\ runs[threadOf[r]] # NoRun
      /\ RunOf(r).id = r /\ RunOf(r).status \in LiveStatus
  BY DEF IsLive, Known, RunOf
<1>2. RunOf(r) \in Run /\ RunOf(r).thread = threadOf[r]
  BY <1>1 DEF IInv, TypeOK, IndexMatchesTable
<1>3. StatusFits(RunOf(r))
  BY <1>1 DEF IInv, StatusMatchesInteractions, StatusFits
<1>4. turn[r] = "active"
  BY DEF IInv, LiveRunIsActive
<1>5. \A i \in RunOf(r).permissions \cup RunOf(r).questions : <<r, i>> \notin answered
  BY DEF IInv, AnsweredAtMostOnce
<1>6. {q \in Question : <<r, q>> \in accepted} = {q \in Question : <<r, q>> \in answered}
  BY DEF IInv, AcceptedUntilSettled
<1> QED BY <1>1, <1>2, <1>3, <1>4, <1>5, <1>6

LEMMA StreamIsOK == ASSUME IInv PROVE StreamOK
  BY DEF IInv, TypeOK, StreamOK

\* Failing a run for the payload limit publishes in order and stops its turn.
LEMMA LimitFailureEffect ==
    ASSUME IInv, NEW run \in Run, NEW gone \in RunId \cup {NoId}, FailForPayloadLimit(run, gone)
    PROVE  /\ StreamOK' /\ ReplaceRun(LimitFailure(run))
           /\ told \subseteq told' /\ told' \subseteq RunId
           /\ run.status \in LiveStatus => run.id \in told'
<1>1. LimitFailure(run) \in Run /\ revision \in Nat
  BY RunVariants DEF IInv, TypeOK
<1> DEFINE update == EventChange(revision, LimitFailure(run), gone)
<1>2. update \in Update /\ Dispatch(<<update>>)
  BY <1>1, ChangeIsUpdate DEF FailForPayloadLimit
<1>3. StreamOK'
  <2> HIDE DEF update
  <2>1. <<update>> \in Seq(Update)
    BY <1>2
  <2> QED BY <1>2, <2>1, StreamIsOK, DispatchKeepsStream
<1>4. run.id \in RunId /\ told \subseteq RunId
  BY DEF IInv, TypeOK, Run
<1> QED BY <1>3, <1>4 DEF FailForPayloadLimit

\* A live run that is failed for the payload limit, in its present or its next
\* version, whatever happens to its answers.
LEMMA LimitAdvance ==
    ASSUME IInv, NEW r \in RunId, IsLive(r), NEW next \in Run, next.id = r, next.thread = threadOf[r],
           FailForPayloadLimit(next, NoId),
           \/ turn' = turn /\ next.status \in LiveStatus
           \/ turn' = [turn EXCEPT ![r] = "ended"],
           answered' \subseteq RunId \X Interaction, OthersKept(r, answered, answered'),
           accepted' \subseteq RunId \X Question, OthersKept(r, accepted, accepted')
    PROVE  StepOK
<1> DEFINE run == LimitFailure(next)
<1>1. run \in Run /\ run.id = r /\ run.thread = threadOf[r] /\ run.status = "failed"
      /\ run.permissions = {} /\ run.questions = {}
  BY RunVariants
<1>2. StreamOK' /\ ReplaceRun(run) /\ told \subseteq told' /\ told' \subseteq RunId
      /\ (next.status \in LiveStatus => r \in told')
  BY LimitFailureEffect
<1> HIDE DEF run
<1>3. run.status \notin LiveStatus
  BY <1>1 DEF LiveStatus
<1>4. StatusFits(run) /\ AnswersFit(r, run)
  BY <1>1, <1>3 DEF StatusFits, AnswersFit
<1>5. turn[r] = "active" /\ turn \in [RunId -> {"unused", "active", "ended"}]
  BY LiveRun DEF IInv, TypeOK
<1>6. TurnFollows(r, run)
  BY <1>2, <1>3, <1>5 DEF TurnFollows
<1> QED BY <1>1, <1>2, <1>4, <1>6, Advance

\* An event that is recorded with a next version that fits.
LEMMA RecordAdvance ==
    ASSUME IInv, NEW r \in RunId, IsLive(r), NEW next \in Run, next.id = r, next.thread = threadOf[r],
           StatusFits(next), NEW batchable \in BOOLEAN, Record(r, next, batchable),
           \/ turn' = turn /\ next.status \in LiveStatus
           \/ turn' = [turn EXCEPT ![r] = "ended"] /\ next.status \notin LiveStatus,
           AnswersFit(r, next)
    PROVE  StepOK
<1> DEFINE update == EventChange(revision, next, NoId)
<1>1. revision \in Nat /\ told \subseteq RunId /\ turn \in [RunId -> {"unused", "active", "ended"}]
  BY DEF IInv, TypeOK
<1>2. update \in Update /\ update.base = revision /\ update.revision = revision + 1
  BY <1>1, ChangeIsUpdate
<1>3. CASE ReplaceRun(next) /\ (IF batchable THEN Enqueue(update) ELSE Dispatch(<<update>>)) /\ UNCHANGED told
  <2> HIDE DEF update
  <2>1. <<update>> \in Seq(Update)
    BY <1>2
  <2>2. StreamOK'
    BY <1>2, <1>3, <2>1, StreamIsOK, DispatchKeepsStream, EnqueueKeepsStream
  <2>3. TurnFollows(r, next)
    BY <1>1, <1>3, LiveRun DEF TurnFollows
  <2> QED BY <1>3, <2>2, <2>3, Advance
<1>4. CASE FailForPayloadLimit(RunOf(r), NoId)
  BY <1>4, LiveRun, LimitAdvance DEF AnswersFit
<1>5. CASE FailForPayloadLimit(next, NoId)
  BY <1>5, LimitAdvance DEF AnswersFit
<1> QED BY <1>3, <1>4, <1>5 DEF Record

\* A command that is published with a live next version that fits, or failed.
LEMMA PublishAdvance ==
    ASSUME IInv, NEW r \in RunId, IsLive(r), NEW next \in Run, next.id = r, next.thread = threadOf[r],
           StatusFits(next), next.status \in LiveStatus, turn' = turn,
           \/ /\ ReplaceRun(next) /\ Dispatch(<<Change(revision, next, NoId)>>)
              /\ told \subseteq told' /\ told' \subseteq RunId
              /\ AnswersFit(r, next)
           \/ /\ FailForPayloadLimit(next, NoId)
              /\ answered' = answered
              /\ accepted' \subseteq RunId \X Question /\ OthersKept(r, accepted, accepted')
    PROVE  StepOK
<1> DEFINE change == Change(revision, next, NoId)
<1>1. revision \in Nat /\ turn \in [RunId -> {"unused", "active", "ended"}]
      /\ answered \subseteq RunId \X Interaction
  BY DEF IInv, TypeOK
<1>2. change \in Update
  BY <1>1, ChangeIsUpdate
<1>3. CASE /\ ReplaceRun(next) /\ Dispatch(<<change>>)
           /\ told \subseteq told' /\ told' \subseteq RunId
           /\ AnswersFit(r, next)
  <2> HIDE DEF change
  <2>1. <<change>> \in Seq(Update)
    BY <1>2
  <2>2. StreamOK'
    BY <1>3, <2>1, StreamIsOK, DispatchKeepsStream
  <2>3. TurnFollows(r, next)
    BY <1>1, <1>3, LiveRun DEF TurnFollows
  <2> QED BY <1>3, <2>2, <2>3, Advance
<1>4. CASE /\ FailForPayloadLimit(next, NoId)
           /\ answered' = answered
           /\ accepted' \subseteq RunId \X Question /\ OthersKept(r, accepted, accepted')
  <2>1. OthersKept(r, answered, answered')
    BY <1>4 DEF OthersKept
  <2> QED BY <1>1, <1>4, <2>1, LimitAdvance
<1> QED BY <1>3, <1>4

-----------------------------------------------------------------------------
(* The events of the runtime *)

\* Counting an event, or noting a stop, leaves a version that fits.
LEMMA CountedFits ==
    ASSUME NEW run \in Run, StatusFits(run)
    PROVE  /\ StatusFits(Counted(run))
           /\ StatusFits([run EXCEPT !.stopRequested = TRUE])
  BY DEF StatusFits, StatusAfterInteraction, Counted, Run

\* Replacing the interactions of a run leaves a version that fits.
LEMMA InteractionsFit ==
    ASSUME NEW run \in Run, NEW ps \in SUBSET Permission, NEW qs \in SUBSET Question
    PROVE  StatusFits(WithInteractions(run, ps, qs))
  BY InteractionsVariant DEF StatusFits

\* Events that settle no interaction.
LEMMA ProgressStep ==
    ASSUME IInv, NEW r \in RunId, Started(r) \/ Output(r) \/ Progress(r)
    PROVE  StepOK
<1>1. IsLive(r) /\ UNCHANGED <<accepted, turn, answered>>
  BY DEF Started, Output, Progress, MayEmit, Emits
<1>2. /\ RunOf(r) \in Run /\ RunOf(r).id = r /\ RunOf(r).thread = threadOf[r]
      /\ RunOf(r).status \in LiveStatus /\ StatusFits(RunOf(r))
      /\ \A i \in RunOf(r).permissions \cup RunOf(r).questions : <<r, i>> \notin answered
      /\ {q \in Question : <<r, q>> \in accepted} = {q \in Question : <<r, q>> \in answered}
      /\ answered \subseteq RunId \X Interaction /\ accepted \subseteq RunId \X Question
  BY <1>1, LiveRun DEF IInv, TypeOK
<1>3. CASE Started(r)
  <2> DEFINE begun == [RunOf(r) EXCEPT !.begun = TRUE]
             run == Counted(begun)
             next == WithInteractions(run, run.permissions, run.questions)
  <2>1. begun \in Run /\ begun.id = r /\ begun.thread = threadOf[r]
        /\ begun.permissions = RunOf(r).permissions /\ begun.questions = RunOf(r).questions
    BY <1>2 DEF Run
  <2>2. run \in Run /\ run.id = r /\ run.thread = threadOf[r]
        /\ run.permissions = RunOf(r).permissions /\ run.questions = RunOf(r).questions
    <3> HIDE DEF begun
    <3> QED BY <2>1, RunVariants
  <2>3. Record(r, next, FALSE)
    BY <1>3 DEF Started
  <2>4. run.permissions \in SUBSET Permission /\ run.questions \in SUBSET Question
    <3> HIDE DEF run
    <3> QED BY <2>2 DEF Run
  <2> HIDE DEF run
  <2>5. next \in Run /\ next.id = r /\ next.thread = threadOf[r] /\ next.status \in LiveStatus
        /\ next.permissions = RunOf(r).permissions /\ next.questions = RunOf(r).questions
        /\ StatusFits(next)
    BY <2>2, <2>4, InteractionsVariant, InteractionsFit
  <2> HIDE DEF next
  <2>6. AnswersFit(r, next)
    BY <1>1, <1>2, <2>5 DEF AnswersFit, OthersKept
  <2> QED BY <1>1, <2>3, <2>5, <2>6, RecordAdvance
<1>4. CASE Output(r) \/ Progress(r)
  <2> DEFINE next == Counted(RunOf(r))
  <2>1. next \in Run /\ next.id = r /\ next.thread = threadOf[r] /\ next.status \in LiveStatus
        /\ next.permissions = RunOf(r).permissions /\ next.questions = RunOf(r).questions
        /\ StatusFits(next)
    BY <1>2, RunVariants, CountedFits
  <2>2. Record(r, next, TRUE) \/ Record(r, next, FALSE)
    BY <1>4 DEF Output, Progress
  <2> HIDE DEF next
  <2>3. AnswersFit(r, next)
    BY <1>1, <1>2, <2>1 DEF AnswersFit, OthersKept
  <2> QED BY <1>1, <2>1, <2>2, <2>3, RecordAdvance
<1> QED BY <1>3, <1>4

\* The answers of r once it waits for these interactions.
AnswersLeft(r, waiting) ==
    /\ answered' \subseteq RunId \X Interaction /\ OthersKept(r, answered, answered')
    /\ accepted' \subseteq RunId \X Question /\ OthersKept(r, accepted, accepted')
    /\ \A i \in waiting : <<r, i>> \notin answered'
    /\ {q \in Question : <<r, q>> \in accepted'} = {q \in Question : <<r, q>> \in answered'}

\* An event that replaces the interactions of its run by ps and qs.
LEMMA InteractionAdvance ==
    ASSUME IInv, NEW r \in RunId, IsLive(r), turn' = turn,
           NEW ps \in SUBSET Permission, NEW qs \in SUBSET Question,
           Record(r, WithInteractions(Counted(RunOf(r)), ps, qs), FALSE),
           AnswersLeft(r, ps \cup qs)
    PROVE  StepOK
<1> DEFINE next == WithInteractions(Counted(RunOf(r)), ps, qs)
<1>1. Counted(RunOf(r)) \in Run /\ Counted(RunOf(r)).id = r /\ Counted(RunOf(r)).thread = threadOf[r]
  BY LiveRun, RunVariants
<1>2. next \in Run /\ next.id = r /\ next.thread = threadOf[r] /\ next.status \in LiveStatus
      /\ next.permissions = ps /\ next.questions = qs /\ StatusFits(next)
  BY <1>1, InteractionsVariant, InteractionsFit
<1>3. Record(r, next, FALSE)
  OBVIOUS
<1> HIDE DEF next
<1>4. AnswersFit(r, next)
  BY <1>2 DEF AnswersFit, AnswersLeft
<1> QED BY <1>2, <1>3, <1>4, RecordAdvance

\* Events that add or settle an interaction.
LEMMA InteractionStep ==
    ASSUME IInv, NEW r \in RunId,
           \/ \E p \in Permission : PermissionRequested(r, p) \/ PermissionResolved(r, p)
           \/ \E q \in Question : QuestionRequested(r, q) \/ QuestionResolved(r, q) \/ QuestionFailed(r, q)
    PROVE  StepOK
<1> USE RunAuthorityAssumption
<1> DEFINE run == Counted(RunOf(r))
           ps == RunOf(r).permissions
           qs == RunOf(r).questions
<1>1. IsLive(r) /\ turn' = turn
  BY DEF PermissionRequested, PermissionResolved, QuestionRequested, QuestionResolved, QuestionFailed,
         MayEmit, Emits
<1>2. /\ RunOf(r) \in Run
      /\ \A i \in ps \cup qs : <<r, i>> \notin answered
      /\ {q \in Question : <<r, q>> \in accepted} = {q \in Question : <<r, q>> \in answered}
      /\ answered \subseteq RunId \X Interaction /\ accepted \subseteq RunId \X Question
  BY <1>1, LiveRun DEF IInv, TypeOK
<1>3. run.permissions = ps /\ run.questions = qs /\ ps \in SUBSET Permission /\ qs \in SUBSET Question
  <2>1. ps \in SUBSET Permission /\ qs \in SUBSET Question
    BY <1>2 DEF Run
  <2> QED BY <1>2, <2>1, RunVariants
<1> HIDE DEF ps, qs
<1>4. ASSUME NEW p \in Permission, PermissionRequested(r, p)
      PROVE  StepOK
  <2> DEFINE ps1 == ps \cup {p}
             qs1 == qs
  <2>1. <<r, p>> \notin answered
    BY <1>4 DEF PermissionRequested, Outstanding
  <2>2. Record(r, WithInteractions(run, ps1, qs1), FALSE) /\ UNCHANGED <<accepted, answered>>
    BY <1>3, <1>4 DEF PermissionRequested
  <2>3. OthersKept(r, answered, answered') /\ OthersKept(r, accepted, accepted')
    BY <2>2 DEF OthersKept
  <2>4. AnswersLeft(r, ps1 \cup qs1)
    BY <1>2, <2>1, <2>2, <2>3 DEF AnswersLeft
  <2>5. ps1 \in SUBSET Permission /\ qs1 \in SUBSET Question
    BY <1>3
  <2> HIDE DEF ps1, qs1
  <2> QED BY <1>1, <2>2, <2>4, <2>5, InteractionAdvance
<1>5. ASSUME NEW p \in Permission, PermissionResolved(r, p)
      PROVE  StepOK
  <2> DEFINE ps1 == ps \ {p}
             qs1 == qs
  <2>2. Record(r, WithInteractions(run, ps1, qs1), FALSE) /\ answered' = answered \ {<<r, p>>} /\ accepted' = accepted
    BY <1>3, <1>5 DEF PermissionResolved
  <2>3. OthersKept(r, answered, answered') /\ OthersKept(r, accepted, accepted')
    BY <2>2 DEF OthersKept
  <2>4. AnswersLeft(r, ps1 \cup qs1)
    BY <1>2, <1>3, <2>2, <2>3 DEF AnswersLeft
  <2>5. ps1 \in SUBSET Permission /\ qs1 \in SUBSET Question
    BY <1>3
  <2> HIDE DEF ps1, qs1
  <2> QED BY <1>1, <2>2, <2>4, <2>5, InteractionAdvance
<1>6. ASSUME NEW q \in Question, QuestionRequested(r, q)
      PROVE  StepOK
  <2> DEFINE ps1 == ps
             qs1 == qs \cup {q}
  <2>1. <<r, q>> \notin answered
    BY <1>6 DEF QuestionRequested, Outstanding
  <2>2. Record(r, WithInteractions(run, ps1, qs1), FALSE) /\ UNCHANGED <<accepted, answered>>
    BY <1>3, <1>6 DEF QuestionRequested
  <2>3. OthersKept(r, answered, answered') /\ OthersKept(r, accepted, accepted')
    BY <2>2 DEF OthersKept
  <2>4. AnswersLeft(r, ps1 \cup qs1)
    BY <1>2, <2>1, <2>2, <2>3 DEF AnswersLeft
  <2>5. ps1 \in SUBSET Permission /\ qs1 \in SUBSET Question
    BY <1>3
  <2> HIDE DEF ps1, qs1
  <2> QED BY <1>1, <2>2, <2>4, <2>5, InteractionAdvance
<1>7. ASSUME NEW q \in Question, QuestionResolved(r, q)
      PROVE  StepOK
  <2> DEFINE ps1 == ps
             qs1 == qs \ {q}
  <2>2. Record(r, WithInteractions(run, ps1, qs1), FALSE) /\ answered' = answered \ {<<r, q>>} /\ accepted' = accepted \ {<<r, q>>}
    BY <1>3, <1>7 DEF QuestionResolved
  <2>3. OthersKept(r, answered, answered') /\ OthersKept(r, accepted, accepted')
    BY <2>2 DEF OthersKept
  <2>4. AnswersLeft(r, ps1 \cup qs1)
    BY <1>2, <2>2, <2>3 DEF AnswersLeft
  <2>5. ps1 \in SUBSET Permission /\ qs1 \in SUBSET Question
    BY <1>3
  <2> HIDE DEF ps1, qs1
  <2> QED BY <1>1, <2>2, <2>4, <2>5, InteractionAdvance
<1>8. ASSUME NEW q \in Question, QuestionFailed(r, q)
      PROVE  StepOK
  <2> DEFINE ps1 == ps
             qs1 == qs \cup {q}
  <2>1. <<r, q>> \in answered /\ <<r, q>> \in accepted
    BY <1>2, <1>8 DEF QuestionFailed
  <2>2. Record(r, WithInteractions(run, ps1, qs1), FALSE) /\ answered' = answered \ {<<r, q>>} /\ accepted' = accepted \ {<<r, q>>}
    BY <1>3, <1>8, <2>1 DEF QuestionFailed
  <2>3. OthersKept(r, answered, answered') /\ OthersKept(r, accepted, accepted')
    BY <2>2 DEF OthersKept
  <2>4. AnswersLeft(r, ps1 \cup qs1)
    BY <1>2, <1>3, <2>2, <2>3 DEF AnswersLeft
  <2>5. ps1 \in SUBSET Permission /\ qs1 \in SUBSET Question
    BY <1>3
  <2> HIDE DEF ps1, qs1
  <2> QED BY <1>1, <2>2, <2>4, <2>5, InteractionAdvance
<1> QED BY <1>4, <1>5, <1>6, <1>7, <1>8

\* The last event of a turn, of a live run or of one that was already failed.
LEMMA EndStep ==
    ASSUME IInv, NEW r \in RunId, (\E status \in Endings : Ended(r, status)) \/ EndedUnheard(r)
    PROVE  StepOK
<1> USE RunAuthorityAssumption
<1>1. answered \subseteq RunId \X Interaction /\ accepted \subseteq RunId \X Question
      /\ turn \in [RunId -> {"unused", "active", "ended"}]
  BY DEF IInv, TypeOK
<1>2. ASSUME NEW status \in Endings, Ended(r, status)
      PROVE  StepOK
  <2> DEFINE next == Settled(Counted(RunOf(r)), status)
  <2>1. IsLive(r) /\ Record(r, next, FALSE) /\ turn' = [turn EXCEPT ![r] = "ended"]
        /\ answered' = Forget(r) /\ accepted' = {a \in accepted : a[1] # r}
    BY <1>2 DEF Ended, Emits
  <2>2. Counted(RunOf(r)) \in Run /\ Counted(RunOf(r)).id = r /\ Counted(RunOf(r)).thread = threadOf[r]
    BY <2>1, LiveRun, RunVariants
  <2>3. status \in TerminalStatus
    BY DEF TerminalStatus
  <2>4. next \in Run /\ next.id = r /\ next.thread = threadOf[r] /\ next.status = status
        /\ next.permissions = {} /\ next.questions = {}
    BY <2>2, <2>3, RunVariants
  <2> HIDE DEF next
  <2>5. next.status \notin LiveStatus /\ StatusFits(next)
    BY <2>3, <2>4 DEF StatusFits, LiveStatus, TerminalStatus
  <2>6. AnswersFit(r, next)
    BY <1>1, <2>1, <2>5 DEF AnswersFit, OthersKept, Forget
  <2> QED BY <2>1, <2>4, <2>5, <2>6, RecordAdvance
<1>3. CASE EndedUnheard(r)
  <2>1. turn[r] = "active" /\ ~IsLive(r) /\ turn' = [turn EXCEPT ![r] = "ended"] /\ answered' = Forget(r)
        /\ UNCHANGED <<revision, runs, threadOf, accepted, queue, subscribers, channel, told>>
    BY <1>3 DEF EndedUnheard
  <2>2. \A q \in RunId : (IsLive(q) <=> IsLive(q)') /\ RunOf(q)' = RunOf(q)
    BY <2>1 DEF IsLive, Known, RunOf
  <2>3. TypeOK' /\ IndexMatchesTable' /\ StatusMatchesInteractions' /\ QueueReachesRevision'
    <3>1. answered' \subseteq RunId \X Interaction
      BY <1>1, <2>1 DEF Forget
    <3> QED BY <1>1, <2>1, <3>1
            DEF IInv, TypeOK, IndexMatchesTable, StatusMatchesInteractions, QueueReachesRevision
  <2>4. AnsweredAtMostOnce'
    BY <1>1, <2>1, <2>2 DEF IInv, AnsweredAtMostOnce, Forget
  <2>5. AcceptedUntilSettled'
    <3> SUFFICES ASSUME NEW q \in RunId, IsLive(q)
                 PROVE  {i \in Question : <<q, i>> \in accepted} = {i \in Question : <<q, i>> \in answered'}
      BY <2>1, <2>2 DEF AcceptedUntilSettled
    <3>1. \A i \in Question : <<q, i>> \in answered' <=> <<q, i>> \in answered
      BY <2>1 DEF Forget
    <3> QED BY <3>1 DEF IInv, AcceptedUntilSettled
  <2>6. OrphanTurnIsStopped' /\ LiveRunIsActive'
    BY <1>1, <2>1, <2>2 DEF IInv, OrphanTurnIsStopped, LiveRunIsActive
  <2>7. UnusedRunIsFresh'
    BY <1>1, <2>1 DEF IInv, UnusedRunIsFresh, Forget
  <2> QED BY <2>1, <2>3, <2>4, <2>5, <2>6, <2>7 DEF StepOK, FinalKept, IInv
<1> QED BY <1>2, <1>3

LEMMA EventStep ==
    ASSUME IInv, NEW r \in RunId, Event(r)
    PROVE  StepOK
  BY ProgressStep, InteractionStep, EndStep DEF Event

-----------------------------------------------------------------------------
(* The commands of the windows *)

LEMMA StopStep ==
    ASSUME IInv, NEW r \in RunId, Stop(r)
    PROVE  StepOK
<1> DEFINE next == [RunOf(r) EXCEPT !.stopRequested = TRUE]
<1>1. IsLive(r) /\ turn' = turn /\ accepted' = accepted
  BY DEF Stop
<1>2. /\ RunOf(r) \in Run /\ RunOf(r).id = r /\ RunOf(r).thread = threadOf[r]
      /\ RunOf(r).status \in LiveStatus /\ StatusFits(RunOf(r))
      /\ \A i \in RunOf(r).permissions \cup RunOf(r).questions : <<r, i>> \notin answered
      /\ {q \in Question : <<r, q>> \in accepted} = {q \in Question : <<r, q>> \in answered}
      /\ answered \subseteq RunId \X Interaction /\ accepted \subseteq RunId \X Question
      /\ told \subseteq RunId
  BY <1>1, LiveRun DEF IInv, TypeOK
<1>3. next \in Run /\ next.id = r /\ next.thread = threadOf[r] /\ next.status \in LiveStatus
      /\ next.permissions = RunOf(r).permissions /\ next.questions = RunOf(r).questions
      /\ StatusFits(next)
  <2>1. StatusFits(next)
    BY <1>2, CountedFits
  <2>2. next \in Run
    BY <1>2 DEF Run
  <2>3. next.id = RunOf(r).id /\ next.thread = RunOf(r).thread /\ next.status = RunOf(r).status
        /\ next.permissions = RunOf(r).permissions /\ next.questions = RunOf(r).questions
    BY <1>2 DEF Run
  <2> QED BY <1>2, <2>1, <2>2, <2>3
<1>4. \/ /\ ReplaceRun(next) /\ Dispatch(<<Change(revision, next, NoId)>>)
         /\ told' = told \cup {r} /\ answered' = answered
      \/ FailForPayloadLimit(next, NoId) /\ answered' = answered
  BY DEF Stop, PublishRun
<1> HIDE DEF next
<1>5. answered' = answered => AnswersFit(r, next)
  BY <1>1, <1>2, <1>3 DEF AnswersFit, OthersKept
<1>6. OthersKept(r, accepted, accepted') /\ accepted' \subseteq RunId \X Question
  BY <1>1, <1>2 DEF OthersKept
<1> QED BY <1>1, <1>2, <1>3, <1>4, <1>5, <1>6, PublishAdvance

\* The answer to an interaction is accepted once, and goes to the runtime
\* unless the run it leaves behind is too large.
LEMMA AnswerStep ==
    ASSUME IInv, NEW r \in RunId, Answering(r)
    PROVE  StepOK
<1> USE RunAuthorityAssumption
<1> DEFINE ps == RunOf(r).permissions
           qs == RunOf(r).questions
           next(P, Q) == WithInteractions(RunOf(r), P, Q)
<1>1. Known(r) /\ turn' = turn /\ (ps # {} \/ qs # {})
  BY DEF Answering, RespondToPermission, RespondToQuestion
<1>2. IsLive(r)
  BY <1>1 DEF IInv, TypeOK, StatusMatchesInteractions, IsLive, Known, RunOf
<1>3. /\ RunOf(r) \in Run /\ RunOf(r).id = r /\ RunOf(r).thread = threadOf[r]
      /\ \A i \in ps \cup qs : <<r, i>> \notin answered
      /\ {q \in Question : <<r, q>> \in accepted} = {q \in Question : <<r, q>> \in answered}
      /\ answered \subseteq RunId \X Interaction /\ accepted \subseteq RunId \X Question
      /\ told \subseteq RunId
  BY <1>2, LiveRun DEF IInv, TypeOK
<1>4. ps \in SUBSET Permission /\ qs \in SUBSET Question
  BY <1>3 DEF Run
<1> HIDE DEF ps, qs
<1>5. ASSUME NEW p \in Permission, RespondToPermission(r, p)
      PROVE  StepOK
  <2> DEFINE left == ps \ {p}
             run == next(left, qs)
  <2>1. accepted' = accepted /\ p \in ps
        /\ \/ /\ ReplaceRun(run) /\ Dispatch(<<Change(revision, run, NoId)>>)
              /\ answered' = answered \cup {<<r, p>>} /\ told' = told
           \/ FailForPayloadLimit(run, NoId) /\ answered' = answered
    BY <1>5 DEF RespondToPermission, PublishRun, ps, qs
  <2>2. left \in SUBSET Permission
    BY <1>4
  <2> HIDE DEF left
  <2>3. run \in Run /\ run.id = r /\ run.thread = threadOf[r] /\ run.status \in LiveStatus
        /\ run.permissions = left /\ run.questions = qs /\ StatusFits(run)
    BY <1>3, <1>4, <2>2, InteractionsVariant, InteractionsFit
  <2> HIDE DEF next, run
  <2>4. <<r, p>> \in RunId \X Interaction /\ p \notin Question
    BY DEF Interaction
  <2>5. OthersKept(r, accepted, accepted') /\ accepted' \subseteq RunId \X Question
    BY <1>3, <2>1 DEF OthersKept
  <2>6. answered' = answered \cup {<<r, p>>} => AnswersFit(r, run)
    BY <1>3, <1>4, <2>1, <2>3, <2>4, <2>5 DEF AnswersFit, OthersKept, left
  <2> QED BY <1>1, <1>2, <1>3, <2>1, <2>3, <2>5, <2>6, PublishAdvance
<1>6. ASSUME NEW q \in Question, RespondToQuestion(r, q)
      PROVE  StepOK
  <2> DEFINE left == qs \ {q}
             run == next(ps, left)
  <2>1. accepted' = accepted \cup {<<r, q>>} /\ q \in qs
        /\ \/ /\ ReplaceRun(run) /\ Dispatch(<<Change(revision, run, NoId)>>)
              /\ answered' = answered \cup {<<r, q>>} /\ told' = told
           \/ FailForPayloadLimit(run, NoId) /\ answered' = answered
    BY <1>6 DEF RespondToQuestion, PublishRun, ps, qs
  <2>2. left \in SUBSET Question
    BY <1>4
  <2> HIDE DEF left
  <2>3. run \in Run /\ run.id = r /\ run.thread = threadOf[r] /\ run.status \in LiveStatus
        /\ run.permissions = ps /\ run.questions = left /\ StatusFits(run)
    BY <1>3, <1>4, <2>2, InteractionsVariant, InteractionsFit
  <2> HIDE DEF next, run
  <2>4. <<r, q>> \in RunId \X Interaction /\ q \notin Permission
    BY DEF Interaction
  <2>5. OthersKept(r, accepted, accepted') /\ accepted' \subseteq RunId \X Question
    BY <1>3, <2>1 DEF OthersKept
  <2>6. answered' = answered \cup {<<r, q>>} => AnswersFit(r, run)
    BY <1>3, <1>4, <2>1, <2>3, <2>4, <2>5 DEF AnswersFit, OthersKept, left
  <2> QED BY <1>1, <1>2, <1>3, <2>1, <2>3, <2>5, <2>6, PublishAdvance
<1> QED BY <1>5, <1>6 DEF Answering

\* A finished run leaves the table, and only that run does.
LEMMA AcknowledgeStep ==
    ASSUME IInv, NEW r \in RunId, NEW n, Acknowledge(r, n)
    PROVE  StepOK
<1> USE RunAuthorityAssumption
<1>1. /\ Known(r) /\ ~IsLive(r)
      /\ runs' = [runs EXCEPT ![threadOf[r]] = NoRun] /\ threadOf' = [threadOf EXCEPT ![r] = NoThread]
      /\ UNCHANGED <<accepted, turn, told, answered>>
  BY DEF Acknowledge, IsLive, RunOf, LiveStatus, TerminalStatus
<1>2. /\ threadOf[r] \in Thread /\ runs[threadOf[r]].id = r
      /\ runs \in [Thread -> Run \cup {NoRun}] /\ threadOf \in [RunId -> Thread \cup {NoThread}]
      /\ answered \subseteq RunId \X Interaction /\ revision \in Nat
  BY <1>1 DEF Known, IInv, TypeOK
<1>3. StreamOK'
  <2> DEFINE change == Change(revision, NoRun, r)
  <2>1. change \in Update
    BY <1>2, ChangeIsUpdate
  <2>2. Dispatch(<<change>>)
    BY DEF Acknowledge
  <2> HIDE DEF change
  <2>3. <<change>> \in Seq(Update)
    BY <2>1
  <2> QED BY <2>2, <2>3, StreamIsOK, DispatchKeepsStream
<1>4. ASSUME NEW q \in RunId
      PROVE  (IsLive(q) <=> IsLive(q)') /\ (IsLive(q) => RunOf(q)' = RunOf(q))
  <2>1. CASE q = r
    BY <1>1, <1>2, <2>1 DEF IsLive, Known
  <2>2. CASE q # r /\ threadOf[q] = threadOf[r]
    BY <1>1, <1>2, <2>2 DEF IsLive, Known
  <2>3. CASE q # r /\ threadOf[q] # threadOf[r]
    BY <1>1, <1>2, <2>3 DEF IsLive, Known, RunOf
  <2> QED BY <2>1, <2>2, <2>3
<1>5. TypeOK'
  BY <1>1, <1>2, <1>3 DEF IInv, TypeOK, StreamOK
<1>6. IndexMatchesTable'
  BY <1>1, <1>2 DEF IInv, IndexMatchesTable
<1>7. StatusMatchesInteractions'
  BY <1>1, <1>2 DEF IInv, StatusMatchesInteractions
<1>8. AnsweredAtMostOnce' /\ AcceptedUntilSettled'
  <2>1. \A a \in answered : a[1] \in RunId
    BY <1>2
  <2> QED BY <1>1, <1>4, <2>1 DEF IInv, AnsweredAtMostOnce, AcceptedUntilSettled
<1>9. OrphanTurnIsStopped' /\ LiveRunIsActive' /\ UnusedRunIsFresh'
  BY <1>1, <1>2, <1>4 DEF IInv, OrphanTurnIsStopped, LiveRunIsActive, UnusedRunIsFresh
<1>10. FinalKept
  BY <1>1, <1>2 DEF FinalKept
<1> QED BY <1>3, <1>5, <1>6, <1>7, <1>8, <1>9, <1>10 DEF StepOK, IInv, StreamOK

\* The first version of a run, put in for a fresh id when its thread has no
\* live run.
LEMMA SendAdvance ==
    ASSUME IInv, NEW t \in Thread, NEW r \in RunId, MaySend(t, r), turn[r] = "unused",
           NEW run \in Run, run.id = r, run.thread = t, ReplaceRun(run), StreamOK', StatusFits(run),
           run.permissions = {}, run.questions = {},
           \/ turn' = [turn EXCEPT ![r] = "active"] /\ run.status \in LiveStatus
           \/ turn' = [turn EXCEPT ![r] = "ended"] /\ run.status \notin LiveStatus,
           told \subseteq told', told' \subseteq RunId, UNCHANGED <<accepted, answered>>
    PROVE  StepOK
<1> USE RunAuthorityAssumption
<1>1. /\ TypeOK /\ IndexMatchesTable /\ threadOf[run.id] = NoThread
      /\ \A a \in answered \cup accepted : a[1] # r
      /\ answered \subseteq RunId \X Interaction /\ accepted \subseteq RunId \X Question
      /\ turn \in [RunId -> {"unused", "active", "ended"}]
  BY DEF IInv, TypeOK, MaySend, UnusedRunIsFresh
<1>2. TypeOK'
  BY <1>1, ReplaceRunEffect DEF TypeOK, StreamOK
<1>3. IndexMatchesTable'
  BY <1>1, ReplaceRunKeepsIndex
<1>4. RunOf(r)' = run /\ (IsLive(r)' <=> run.status \in LiveStatus)
  BY <1>1, RunPutIn
<1>5. ASSUME NEW q \in RunId, q # r
      PROVE  (IsLive(q) <=> IsLive(q)') /\ (IsLive(q) => RunOf(q)' = RunOf(q))
  <2>1. CASE Known(q) /\ threadOf[q] = t
    <3>1. ~IsLive(q)
      BY <2>1 DEF IsLive, Known, RunOf, MaySend, LiveStatus, TerminalStatus
    <3>2. threadOf'[q] = NoThread
      BY <1>1, <1>5, <2>1, ReplaceRunEffect DEF Known
    <3> QED BY <3>1, <3>2 DEF IsLive, Known
  <2>2. CASE ~(Known(q) /\ threadOf[q] = t)
    BY <1>1, <1>5, <2>2, OtherRunsStay
  <2> QED BY <2>1, <2>2
<1>6. StatusMatchesInteractions'
  <2> SUFFICES ASSUME NEW u \in Thread, runs'[u] # NoRun
               PROVE  StatusFits(runs'[u])
    BY DEF StatusMatchesInteractions, StatusFits
  <2>1. CASE u = t
    BY <2>1, <1>1, ReplaceRunEffect
  <2>2. CASE u # t
    <3>1. runs'[u] = runs[u]
      BY <2>2, <1>1, ReplaceRunEffect
    <3> QED BY <3>1 DEF IInv, StatusMatchesInteractions, StatusFits
  <2> QED BY <2>1, <2>2
<1>7. AnsweredAtMostOnce'
  <2> SUFFICES ASSUME NEW a \in answered, IsLive(a[1])'
               PROVE  a[2] \notin RunOf(a[1])'.permissions \cup RunOf(a[1])'.questions
    BY DEF AnsweredAtMostOnce
  <2>1. a[1] \in RunId /\ a[1] # r
    BY <1>1
  <2> QED BY <2>1, <1>5 DEF IInv, AnsweredAtMostOnce
<1>8. AcceptedUntilSettled'
  <2> SUFFICES ASSUME NEW q \in RunId, IsLive(q)'
               PROVE  {i \in Question : <<q, i>> \in accepted} = {i \in Question : <<q, i>> \in answered}
    BY DEF AcceptedUntilSettled
  <2>1. CASE q = r
    <3>1. \A i \in Question : <<r, i>> \notin accepted /\ <<r, i>> \notin answered
      BY <1>1
    <3> QED BY <2>1, <3>1
  <2>2. CASE q # r
    BY <2>2, <1>5 DEF IInv, AcceptedUntilSettled
  <2> QED BY <2>1, <2>2
<1>9. OrphanTurnIsStopped' /\ LiveRunIsActive'
  BY <1>1, <1>4, <1>5 DEF IInv, OrphanTurnIsStopped, LiveRunIsActive
<1>10. UnusedRunIsFresh'
  <2> SUFFICES ASSUME NEW q \in RunId, turn'[q] = "unused"
               PROVE  /\ threadOf'[q] = NoThread
                      /\ \A a \in answered \cup accepted : a[1] # q
    BY DEF UnusedRunIsFresh
  <2>1. q # r /\ turn[q] = "unused"
    BY <1>1
  <2>2. threadOf[q] = NoThread /\ \A a \in answered \cup accepted : a[1] # q
    BY <2>1 DEF IInv, UnusedRunIsFresh
  <2>3. threadOf'[q] = NoThread
    BY <2>1, <2>2, <1>1, ReplaceRunEffect
  <2> QED BY <2>2, <2>3
<1>11. FinalKept
  <2>1. runs[t] # NoRun => runs[t].id # r
    BY <1>1 DEF IndexMatchesTable
  <2> QED BY <2>1, <1>1, ReplaceRunEffect DEF FinalKept
<1> QED BY <1>2, <1>3, <1>6, <1>7, <1>8, <1>9, <1>10, <1>11 DEF StepOK, IInv, StreamOK

\* What a send puts in the table.
LEMMA NewRunIsRun ==
    ASSUME NEW t \in Thread, NEW r \in RunId
    PROVE  /\ NewRun(t, r) \in Run /\ NewRun(t, r).id = r /\ NewRun(t, r).thread = t
           /\ NewRun(t, r).permissions = {} /\ NewRun(t, r).questions = {}
           /\ NewRun(t, r).status \in LiveStatus /\ StatusFits(NewRun(t, r))
  BY DEF NewRun, Run, LiveStatus, StatusFits, StatusAfterInteraction

LEMMA SendStep ==
    ASSUME IInv, NEW t \in Thread, NEW r \in RunId, Sending(t, r)
    PROVE  StepOK
<1> DEFINE first == NewRun(t, r)
<1>1. /\ first \in Run /\ first.id = r /\ first.thread = t /\ first.permissions = {} /\ first.questions = {}
      /\ first.status \in LiveStatus /\ StatusFits(first)
  BY NewRunIsRun
<1>2. revision \in Nat /\ told \subseteq RunId /\ ReplacedBy(t) \in RunId \cup {NoId}
  BY DEF IInv, TypeOK, ReplacedBy, Run
<1>3. MaySend(t, r) /\ turn[r] = "unused" /\ UNCHANGED <<accepted, answered>>
  BY DEF Sending, Send, SendRefusedByRuntime, SendOverLimit
<1>4. CASE Send(t, r)
  <2> DEFINE change == Change(revision, first, ReplacedBy(t))
  <2>1. ReplaceRun(first) /\ Dispatch(<<change>>) /\ turn' = [turn EXCEPT ![r] = "active"] /\ told' = told
    BY <1>4 DEF Send
  <2>2. change \in Update
    BY <1>1, <1>2, ChangeIsUpdate
  <2> HIDE DEF change
  <2>3. <<change>> \in Seq(Update)
    BY <2>2
  <2>4. StreamOK'
    BY <2>1, <2>3, StreamIsOK, DispatchKeepsStream
  <2> HIDE DEF first
  <2> QED BY <1>1, <1>2, <1>3, <2>1, <2>4, SendAdvance
<1>5. CASE SendRefusedByRuntime(t, r)
  <2> DEFINE settled == Settled(first, "failed")
             refused == [settled EXCEPT !.count = 1]
             change1 == Change(revision, first, ReplacedBy(t))
             change2 == EventChange(revision + 1, refused, NoId)
  <2>1. ReplaceRun(refused) /\ Dispatch(<<change1, change2>>) /\ turn' = [turn EXCEPT ![r] = "ended"]
        /\ told' = told
    BY <1>5 DEF SendRefusedByRuntime
  <2>2. settled \in Run /\ settled.id = r /\ settled.thread = t /\ settled.status = "failed"
        /\ settled.permissions = {} /\ settled.questions = {}
    <3> HIDE DEF first
    <3> QED BY <1>1, RunVariants DEF TerminalStatus
  <2> HIDE DEF settled
  <2>3. refused \in Run /\ refused.id = r /\ refused.thread = t /\ refused.status = "failed"
        /\ refused.permissions = {} /\ refused.questions = {}
    BY <2>2 DEF Run
  <2> HIDE DEF first, refused
  <2>4. change1 \in Update /\ change2 \in Update
    BY <1>1, <1>2, <2>3, ChangeIsUpdate
  <2> HIDE DEF change1, change2
  <2>5. <<change1, change2>> \in Seq(Update)
    BY <2>4
  <2>6. StreamOK'
    BY <2>1, <2>5, StreamIsOK, DispatchKeepsStream
  <2>7. refused.status \notin LiveStatus /\ StatusFits(refused)
    BY <2>3 DEF StatusFits, LiveStatus
  <2> QED BY <1>2, <1>3, <2>1, <2>3, <2>6, <2>7, SendAdvance
<1>6. CASE SendOverLimit(t, r)
  <2> DEFINE failure == LimitFailure(first)
  <2>1. FailForPayloadLimit(first, ReplacedBy(t)) /\ turn' = [turn EXCEPT ![r] = "ended"]
    BY <1>6 DEF SendOverLimit
  <2> HIDE DEF first
  <2>2. failure \in Run /\ failure.id = r /\ failure.thread = t /\ failure.status = "failed"
        /\ failure.permissions = {} /\ failure.questions = {}
    BY <1>1, RunVariants
  <2>3. StreamOK' /\ ReplaceRun(failure) /\ told \subseteq told' /\ told' \subseteq RunId
    BY <1>1, <1>2, <2>1, LimitFailureEffect
  <2> HIDE DEF failure
  <2>4. failure.status \notin LiveStatus /\ StatusFits(failure)
    BY <2>2 DEF StatusFits, LiveStatus
  <2> QED BY <1>2, <1>3, <2>1, <2>2, <2>3, <2>4, SendAdvance
<1> QED BY <1>4, <1>5, <1>6 DEF Sending

\* The steps that leave the table alone.
LEMMA StreamStep ==
    ASSUME IInv, BatchTimerFires \/ \E w \in Window : Subscribe(w) \/ Unsubscribe(w)
    PROVE  StepOK
<1>1. UNCHANGED <<revision, runs, threadOf, accepted, turn, told, answered>>
  BY DEF BatchTimerFires, Subscribe, Unsubscribe
<1>2. StreamOK'
  <2>1. CASE BatchTimerFires
    <3>1. \A w \in Window : channel[w] \in Seq(Seq(Update)) /\ Append(channel[w], queue) \in Seq(Seq(Update))
      BY DEF IInv, TypeOK
    <3>2. channel' \in [Window -> Seq(Seq(Update))]
      BY <2>1, <3>1 DEF BatchTimerFires
    <3> QED BY <2>1, <3>2 DEF BatchTimerFires, IInv, TypeOK, StreamOK, QueueReachesRevision
  <2>2. CASE \E w \in Window : Subscribe(w) \/ Unsubscribe(w)
    <3>1. subscribers' \subseteq Window /\ UNCHANGED <<revision, queue, channel>>
      BY <2>2 DEF Subscribe, Unsubscribe, IInv, TypeOK
    <3> QED BY <3>1 DEF IInv, TypeOK, StreamOK, QueueReachesRevision
  <2> QED BY <2>1, <2>2
<1>3. TypeOK'
  BY <1>1, <1>2 DEF IInv, TypeOK, StreamOK
<1> QED
  BY <1>1, <1>2, <1>3
  DEF StepOK, FinalKept, IInv, StreamOK, IndexMatchesTable, StatusMatchesInteractions, AnsweredAtMostOnce, AcceptedUntilSettled,
      OrphanTurnIsStopped, LiveRunIsActive, UnusedRunIsFresh, IsLive, Known, RunOf

-----------------------------------------------------------------------------
(* The theorems *)

LEMMA InitIInv == Init => IInv
<1> SUFFICES ASSUME Init PROVE IInv
  OBVIOUS
<1> USE RunAuthorityAssumption
<1>1. TypeOK
  BY DEF Init, TypeOK
<1>2. \A r \in RunId : ~IsLive(r) /\ threadOf[r] = NoThread /\ turn[r] = "unused"
  BY DEF Init, IsLive, Known
<1> QED
  BY <1>1, <1>2
  DEF Init, IInv, IndexMatchesTable, StatusMatchesInteractions, AnsweredAtMostOnce, AcceptedUntilSettled,
      OrphanTurnIsStopped, QueueReachesRevision, LiveRunIsActive, UnusedRunIsFresh

LEMMA NextStep == IInv /\ [Next]_vars => StepOK
<1> SUFFICES ASSUME IInv, [Next]_vars PROVE StepOK
  OBVIOUS
<1>1. ASSUME NEW t \in Thread, NEW r \in RunId, Sending(t, r) PROVE StepOK
  BY <1>1, SendStep
<1>2. ASSUME NEW r \in RunId, Stop(r) PROVE StepOK
  BY <1>2, StopStep
<1>3. ASSUME NEW r \in RunId, Answering(r) PROVE StepOK
  BY <1>3, AnswerStep
<1>4. ASSUME NEW r \in RunId, Event(r) PROVE StepOK
  BY <1>4, EventStep
<1>5. ASSUME NEW r \in RunId, NEW n \in 0..(MaxEvents + 2), Acknowledge(r, n) PROVE StepOK
  <2>1. n \in Nat
    BY RunAuthorityAssumption
  <2> QED BY <1>5, <2>1, AcknowledgeStep
<1>6. CASE BatchTimerFires \/ \E w \in Window : Subscribe(w) \/ Unsubscribe(w)
  BY <1>6, StreamStep
<1>7. CASE UNCHANGED vars
  BY <1>7
  DEF StepOK, FinalKept, vars, IInv, TypeOK, IndexMatchesTable, StatusMatchesInteractions, AnsweredAtMostOnce, AcceptedUntilSettled,
      OrphanTurnIsStopped, QueueReachesRevision, LiveRunIsActive, UnusedRunIsFresh, IsLive, Known, RunOf
<1> QED BY <1>1, <1>2, <1>3, <1>4, <1>5, <1>6, <1>7 DEF Next

\* The invariant holds in every reachable state of the chat run authority.
THEOREM Invariance == Spec => []IInv
<1>1. IInv /\ [Next]_vars => IInv'
  BY NextStep DEF StepOK
<1> QED BY <1>1, InitIInv, PTL DEF Spec

\* Every variable of the authority keeps its shape, whatever the windows and
\* the runtime do.
THEOREM TypeCorrect == Spec => []TypeOK
<1>1. IInv => TypeOK
  BY DEF IInv
<1> QED BY <1>1, Invariance, PTL

\* runsByThreadId and threadIdByRunId never disagree.
THEOREM IndexAgrees == Spec => []IndexMatchesTable
<1>1. IInv => IndexMatchesTable
  BY DEF IInv
<1> QED BY <1>1, Invariance, PTL

\* The status a window shows is the one the pending interactions call for.
THEOREM StatusAgrees == Spec => []StatusMatchesInteractions
<1>1. IInv => StatusMatchesInteractions
  BY DEF IInv
<1> QED BY <1>1, Invariance, PTL

\* No request is answered twice.
THEOREM AnsweredOnce == Spec => []AnsweredAtMostOnce
<1>1. IInv => AnsweredAtMostOnce
  BY DEF IInv
<1> QED BY <1>1, Invariance, PTL

\* An accepted answer is kept exactly while it may still fail.
THEOREM AcceptedKept == Spec => []AcceptedUntilSettled
<1>1. IInv => AcceptedUntilSettled
  BY DEF IInv
<1> QED BY <1>1, Invariance, PTL

\* No runtime turn goes on unseen without having been told to stop.
THEOREM OrphansStopped == Spec => []OrphanTurnIsStopped
<1>1. IInv => OrphanTurnIsStopped
  BY DEF IInv
<1> QED BY <1>1, Invariance, PTL

\* Batched updates are never overtaken.
THEOREM QueueInOrder == Spec => []QueueReachesRevision
<1>1. IInv => QueueReachesRevision
  BY DEF IInv
<1> QED BY <1>1, Invariance, PTL

\* A terminal run never changes again, whatever arrives late.
THEOREM TerminalIsFinal == Spec => TerminalRunIsFinal
<1>1. IInv /\ [Next]_vars => [FinalKept]_vars
  BY NextStep DEF StepOK
<1>2. Spec => [][FinalKept]_vars
  BY <1>1, Invariance, PTL DEF Spec
<1> QED BY <1>2 DEF TerminalRunIsFinal, FinalKept

-----------------------------------------------------------------------------
(***************************************************************************)
(*                       Part 2: the replication                           *)
(*                                                                         *)
(* A window never compares its runs with the authority's, so agreement is  *)
(* not inductive by itself: a replica that lags must be right about a      *)
(* table that is gone.  The argument keeps those tables: h[n] is the table *)
(* the authority had at revision n.  Every update on its way leads from    *)
(* the table before it to the table after it, and every snapshot on its    *)
(* way, like every replica, holds the table of its revision.               *)
(***************************************************************************)

\* The tables of the past, by revision.
Tables == [Nat -> SUBSET Run]

\* The updates that a window may still receive.
Travelling ==
    {u \in Update :
        \/ \E i \in DOMAIN queue : queue[i] = u
        \/ \E w \in Window : \E i \in DOMAIN channel[w] :
              \E j \in DOMAIN channel[w][i] : channel[w][i][j] = u}

\* The run of an update takes the place of its version before, or of the run
\* that went, or is the first of its thread.  An event counts one more than the
\* version before, unless it is a failure; an update without one counts none.
Follows(table, u) ==
    u.run # NoRun =>
        /\ u.run.id # u.gone
        /\ \A x \in table : x.id = u.run.id => x.thread = u.run.thread
        /\ \A x \in table : x.thread = u.run.thread => x.id \in {u.run.id, u.gone}
        /\ u.event => \/ u.run.status = "failed"
                      \/ \E x \in table : x.id = u.run.id /\ x.count + 1 = u.run.count
        /\ ~u.event => \/ u.run.count = 0
                       \/ \E x \in table : x.id = u.run.id /\ x.count = u.run.count

\* The runs an update and a table show were sent once.
UpdateSent(u) == u.run # NoRun => turn[u.run.id] # "unused"

\* An update leads from the table of one revision to that of the next.
Leads(h, u) ==
    /\ u.revision <= revision /\ u.base + 1 = u.revision
    /\ h[u.revision] = Applied(h[u.base], u)
    /\ u.event => u.run # NoRun
    /\ Follows(h[u.base], u)
    /\ UpdateSent(u)

\* h is the past of the authority, as far as anyone can still hear of it.
Past(h) == h[revision] = Table /\ \A u \in Travelling : Leads(h, u)

\* The snapshots that wait for a window, and the replicas.
Snapshots ==
    {s \in State :
        \/ \E w \in Window : replica[w] = s
        \/ \E w \in Window : \E i \in DOMAIN replies[w] : replies[w][i].state = s}

\* A snapshot holds the table of its revision.
Shows(h, s) == s.revision <= revision /\ s.runs = h[s.revision]

\* The shape of what the argument reads.
MessagesOK ==
    /\ sends \subseteq [window : Window, thread : Thread, id : RunId]
    /\ replies \in [Window -> Seq(Reply)]
    /\ replica \in [Window -> State \cup {NoState}]

\* The inductive invariant.
ReplicationIInv ==
    /\ IInv
    /\ MessagesOK
    /\ \E h \in Tables : Past(h) /\ \A s \in Snapshots : Shows(h, s)

\* A run that was sent stays sent.
TurnsGoOn == \A r \in RunId : turn[r] # "unused" => turn'[r] # "unused"

\* A step prolongs the past: what was known of it stays.
PastGoesOn ==
    /\ revision <= revision'
    /\ TurnsGoOn
    /\ \A h \in Tables : Past(h) =>
          \E k \in Tables : Past(k)' /\ \A n \in 0..revision : k[n] = h[n]

\* A step that takes no run off the table goes on from the past.
GoesOn == PastGoesOn /\ \A t \in Thread : runs[t] # NoRun => runs'[t] # NoRun

-----------------------------------------------------------------------------
(* The stream of updates *)

\* Publishing at once adds nothing to the stream but what is published.
LEMMA DispatchTravels ==
    ASSUME StreamOK, NEW updates \in Seq(Update), Dispatch(updates)
    PROVE  \A u \in Travelling' : u \in Travelling \/ \E i \in 1..Len(updates) : updates[i] = u
<1> DEFINE batch == IF queue = <<>> THEN <<>> ELSE <<queue>>
           single == [i \in 1..Len(updates) |-> <<updates[i]>>]
           sent == batch \o single
<1>1. queue' = <<>> /\ channel' = [w \in Window |-> IF w \in subscribers THEN channel[w] \o sent ELSE channel[w]]
  BY DEF Dispatch
<1>2. batch \in Seq(Seq(Update)) /\ single \in Seq(Seq(Update)) /\ Len(single) = Len(updates)
  <2>1. \A i \in 1..Len(updates) : <<updates[i]>> \in Seq(Update)
    OBVIOUS
  <2>2. single \in Seq(Seq(Update)) /\ Len(single) = Len(updates)
    BY <2>1
  <2>3. batch \in Seq(Seq(Update))
    BY DEF StreamOK
  <2> HIDE DEF batch, single
  <2> QED BY <2>2, <2>3
<1>3. \A i \in DOMAIN batch : batch[i] = queue
  OBVIOUS
<1>4. \A i \in DOMAIN single : single[i] = <<updates[i]>> /\ i \in 1..Len(updates)
  OBVIOUS
<1> HIDE DEF batch, single
<1>5. sent \in Seq(Seq(Update))
      /\ \A i \in DOMAIN sent : (\E b \in DOMAIN batch : sent[i] = batch[b]) \/ \E b \in DOMAIN single : sent[i] = single[b]
  <2>1. sent \in Seq(Seq(Update)) /\ Len(sent) = Len(batch) + Len(single)
    BY <1>2
  <2>2. ASSUME NEW i \in DOMAIN sent, i <= Len(batch)
        PROVE  i \in DOMAIN batch /\ sent[i] = batch[i]
    BY <1>2, <2>1, <2>2
  <2>3. ASSUME NEW i \in DOMAIN sent, ~(i <= Len(batch))
        PROVE  i - Len(batch) \in DOMAIN single /\ sent[i] = single[i - Len(batch)]
    BY <1>2, <2>1, <2>3
  <2> HIDE DEF sent
  <2> QED BY <2>1, <2>2, <2>3
<1> HIDE DEF sent
<1> SUFFICES ASSUME NEW u \in Travelling'
             PROVE  u \in Travelling \/ \E i \in 1..Len(updates) : updates[i] = u
  OBVIOUS
<1>6. u \in Update
  BY DEF Travelling
<1>7. PICK w \in Window : \E i \in DOMAIN channel'[w] : \E j \in DOMAIN channel'[w][i] : channel'[w][i][j] = u
  BY <1>1 DEF Travelling
<1>8. PICK i \in DOMAIN channel'[w] : \E j \in DOMAIN channel'[w][i] : channel'[w][i][j] = u
  BY <1>7
<1>9. PICK j \in DOMAIN channel'[w][i] : channel'[w][i][j] = u
  BY <1>8
<1>10. channel[w] \in Seq(Seq(Update))
  BY DEF StreamOK
<1>11. CASE i \in DOMAIN channel[w]
  <2>1. channel'[w][i] = channel[w][i]
    BY <1>1, <1>5, <1>10, <1>11
  <2> QED BY <1>6, <1>9, <1>11, <2>1 DEF Travelling
<1>12. CASE i \notin DOMAIN channel[w]
  <2>1. \E b \in DOMAIN sent : channel'[w][i] = sent[b]
    <3>1. channel'[w] = channel[w] \o sent
      BY <1>1, <1>8, <1>12
    <3>2. i \in 1..(Len(channel[w]) + Len(sent)) /\ i - Len(channel[w]) \in DOMAIN sent
      BY <1>5, <1>8, <1>10, <1>12, <3>1
    <3>3. channel'[w][i] = sent[i - Len(channel[w])]
      BY <1>5, <1>10, <1>12, <3>1, <3>2
    <3> QED BY <3>2, <3>3
  <2>2. channel'[w][i] = queue \/ \E b \in 1..Len(updates) : channel'[w][i] = <<updates[b]>>
    BY <1>3, <1>4, <1>5, <2>1
  <2>3. CASE channel'[w][i] = queue
    BY <1>6, <1>9, <2>3 DEF Travelling
  <2>4. CASE \E b \in 1..Len(updates) : channel'[w][i] = <<updates[b]>>
    <3>1. PICK b \in 1..Len(updates) : channel'[w][i] = <<updates[b]>>
      BY <2>4
    <3>2. j = 1
      BY <1>9, <3>1
    <3> QED BY <1>9, <3>1, <3>2
  <2> QED BY <2>2, <2>3, <2>4
<1> QED BY <1>11, <1>12

\* A batchable update joins the stream.
LEMMA EnqueueTravels ==
    ASSUME StreamOK, NEW update \in Update, Enqueue(update)
    PROVE  \A u \in Travelling' : u \in Travelling \/ u = update
<1> SUFFICES ASSUME NEW u \in Travelling' PROVE u \in Travelling \/ u = update
  OBVIOUS
<1>1. channel' = channel /\ queue' = Append(queue, update) /\ queue \in Seq(Update) /\ u \in Update
  BY DEF Enqueue, StreamOK, Travelling
<1>2. CASE \E i \in DOMAIN queue' : queue'[i] = u
  <2>1. PICK i \in DOMAIN queue' : queue'[i] = u
    BY <1>2
  <2>2. (i \in DOMAIN queue /\ queue'[i] = queue[i]) \/ queue'[i] = update
    BY <1>1, <2>1
  <2> QED BY <1>1, <2>1, <2>2 DEF Travelling
<1>3. CASE \E w \in Window : \E i \in DOMAIN channel'[w] : \E j \in DOMAIN channel'[w][i] : channel'[w][i][j] = u
  BY <1>1, <1>3 DEF Travelling
<1> QED BY <1>2, <1>3 DEF Travelling

\* The timer moves the queue into the channels; a window takes a change off its
\* channel, or leaves it behind when it is closed.
LEMMA NothingNewTravels ==
    ASSUME StreamOK,
           \/ BatchTimerFires
           \/ UNCHANGED <<queue, channel>>
           \/ \E w \in Window : TakeChange(w)
           \/ queue' = queue /\ \E w \in Window : channel' = [channel EXCEPT ![w] = <<>>]
    PROVE  \A u \in Travelling' : u \in Travelling
<1> SUFFICES ASSUME NEW u \in Travelling' PROVE u \in Travelling
  OBVIOUS
<1>1. queue \in Seq(Update) /\ channel \in [Window -> Seq(Seq(Update))] /\ u \in Update
  BY DEF StreamOK, Travelling
<1>2. CASE BatchTimerFires
  <2>1. queue' = <<>>
        /\ channel' = [w \in Window |-> IF w \in subscribers THEN Append(channel[w], queue) ELSE channel[w]]
    BY <1>2 DEF BatchTimerFires
  <2>2. PICK w \in Window : \E i \in DOMAIN channel'[w] : \E j \in DOMAIN channel'[w][i] : channel'[w][i][j] = u
    BY <2>1 DEF Travelling
  <2>3. PICK i \in DOMAIN channel'[w] : \E j \in DOMAIN channel'[w][i] : channel'[w][i][j] = u
    BY <2>2
  <2>4. (i \in DOMAIN channel[w] /\ channel'[w][i] = channel[w][i]) \/ channel'[w][i] = queue
    BY <1>1, <2>1, <2>3
  <2> QED BY <1>1, <2>3, <2>4 DEF Travelling
<1>3. CASE UNCHANGED <<queue, channel>>
  BY <1>3 DEF Travelling
<1>4. CASE \E v \in Window : TakeChange(v)
  <2>1. PICK v \in Window : TakeChange(v)
    BY <1>4
  <2>2. queue' = queue /\ channel' = [channel EXCEPT ![v] = Tail(@)] /\ channel[v] # <<>>
    BY <2>1 DEF TakeChange
  <2>3. CASE \E i \in DOMAIN queue' : queue'[i] = u
    BY <1>1, <2>2, <2>3 DEF Travelling
  <2>4. CASE \E w \in Window : \E i \in DOMAIN channel'[w] : \E j \in DOMAIN channel'[w][i] : channel'[w][i][j] = u
    <3>1. PICK w \in Window : \E i \in DOMAIN channel'[w] : \E j \in DOMAIN channel'[w][i] : channel'[w][i][j] = u
      BY <2>4
    <3>2. PICK i \in DOMAIN channel'[w] : \E j \in DOMAIN channel'[w][i] : channel'[w][i][j] = u
      BY <3>1
    <3>3. channel[w] \in Seq(Seq(Update))
      BY <1>1
    <3>4. \E k \in DOMAIN channel[w] : channel'[w][i] = channel[w][k]
      <4>1. CASE w = v
        <5>1. channel'[w] = Tail(channel[w]) /\ channel[w] # <<>>
          BY <1>1, <2>2, <4>1
        <5>2. i + 1 \in DOMAIN channel[w] /\ channel'[w][i] = channel[w][i + 1]
          BY <3>2, <3>3, <5>1
        <5> QED BY <5>2
      <4>2. CASE w # v
        <5>1. channel'[w] = channel[w]
          BY <1>1, <2>2, <4>2
        <5> QED BY <3>2, <5>1
      <4> QED BY <4>1, <4>2
    <3> QED BY <1>1, <3>2, <3>4 DEF Travelling
  <2> QED BY <2>3, <2>4 DEF Travelling
<1>5. CASE queue' = queue /\ \E w \in Window : channel' = [channel EXCEPT ![w] = <<>>]
  <2>1. PICK v \in Window : channel' = [channel EXCEPT ![v] = <<>>]
    BY <1>5
  <2>2. CASE \E i \in DOMAIN queue' : queue'[i] = u
    BY <1>1, <1>5, <2>2 DEF Travelling
  <2>3. CASE \E w \in Window : \E i \in DOMAIN channel'[w] : \E j \in DOMAIN channel'[w][i] : channel'[w][i][j] = u
    <3>1. PICK w \in Window : \E i \in DOMAIN channel'[w] : \E j \in DOMAIN channel'[w][i] : channel'[w][i][j] = u
      BY <2>3
    <3>2. channel'[w] # <<>>
      BY <3>1
    <3>3. w # v /\ channel'[w] = channel[w]
      BY <1>1, <2>1, <3>2
    <3> QED BY <1>1, <3>1, <3>3 DEF Travelling
  <2> QED BY <2>2, <2>3 DEF Travelling
<1> QED BY <1>2, <1>3, <1>4, <1>5

-----------------------------------------------------------------------------
(* Finite sets *)

\* Every nonempty set of natural numbers has a least one.
LEMMA LeastNumber ==
    ASSUME NEW T, T \subseteq Nat, T # {}
    PROVE  \E n \in T : \A m \in T : n <= m
<1> DEFINE U == {1..n : n \in T}
<1>1. U \subseteq FiniteSubsetsOf(Nat) /\ U # {}
  <2>1. \A n \in T : 1..n \subseteq Nat /\ IsFiniteSet(1..n)
    BY FS_Interval
  <2> QED BY <2>1 DEF FiniteSubsetsOf
<1>2. IsWellFoundedOn(StrictSubsetOrdering(Nat), FiniteSubsetsOf(Nat))
  BY FS_StrictSubsetOrderingWellFounded
<1>3. PICK x \in U : \A y \in U : <<y, x>> \notin StrictSubsetOrdering(Nat)
  <2> HIDE DEF U
  <2> QED BY <1>1, <1>2, WFMin
<1>4. PICK n \in T : x = 1..n
  OBVIOUS
<1>5. ASSUME NEW m \in T PROVE n <= m
  <2> SUFFICES ASSUME m < n PROVE FALSE
    OBVIOUS
  <2>1. 1..m \subseteq 1..n /\ n \in 1..n /\ n \notin 1..m
    OBVIOUS
  <2>2. <<1..m, 1..n>> \in StrictSubsetOrdering(Nat)
    BY <2>1 DEF StrictSubsetOrdering
  <2> QED BY <1>3, <1>4, <2>2
<1> QED BY <1>5

\* A nonempty finite set of natural numbers has a greatest one, which Max finds.
LEMMA GreatestNumber ==
    ASSUME NEW S, S \subseteq Nat, IsFiniteSet(S), S # {}
    PROVE  Max(S) \in S
<1> DEFINE Above(n) == {m \in S : m > n}
           U == {Above(n) : n \in S}
<1>1. U \subseteq FiniteSubsetsOf(Nat) /\ U # {}
  <2>1. \A n \in S : Above(n) \in SUBSET S /\ IsFiniteSet(Above(n))
    BY FS_Subset
  <2> QED BY <2>1 DEF FiniteSubsetsOf
<1>2. IsWellFoundedOn(StrictSubsetOrdering(Nat), FiniteSubsetsOf(Nat))
  BY FS_StrictSubsetOrderingWellFounded
<1>3. PICK x \in U : \A y \in U : <<y, x>> \notin StrictSubsetOrdering(Nat)
  <2> HIDE DEF U
  <2> QED BY <1>1, <1>2, WFMin
<1>4. PICK n \in S : x = Above(n)
  OBVIOUS
<1>5. ASSUME NEW m \in S PROVE n >= m
  <2> SUFFICES ASSUME m > n PROVE FALSE
    OBVIOUS
  <2>1. Above(m) \subseteq Above(n) /\ m \in Above(n) /\ m \notin Above(m)
    <3>1. n \in Nat /\ m \in Nat /\ S \subseteq Nat
      OBVIOUS
    <3>2. \A k \in Nat : k > m => k > n
      BY <3>1
    <3>3. ~(m > m)
      BY <3>1
    <3>4. Above(m) \subseteq Above(n)
      BY <3>1, <3>2
    <3> QED BY <3>3, <3>4
  <2>2. Above(m) \in U /\ Above(m) \subseteq Nat /\ Above(n) \subseteq Nat
    OBVIOUS
  <2>3. <<Above(m), Above(n)>> \in StrictSubsetOrdering(Nat)
    <3> HIDE DEF Above
    <3> QED BY <2>1, <2>2 DEF StrictSubsetOrdering
  <2> HIDE DEF Above, U
  <2> QED BY <1>3, <1>4, <2>3, <2>2
<1>6. \E y \in S : \A m \in S : y >= m
  BY <1>5
<1> QED BY <1>6 DEF Max

\* A function takes finitely many values on a finite set.
LEMMA FiniteValues ==
    ASSUME NEW S, IsFiniteSet(S), NEW f, DOMAIN f = S, f = [x \in S |-> f[x]]
    PROVE  IsFiniteSet({f[x] : x \in S})
<1> DEFINE T == {f[x] : x \in S}
<1>1. f \in Surjection(S, T)
  <2>1. f \in [S -> T]
    OBVIOUS
  <2>2. \A y \in T : \E x \in S : f[x] = y
    OBVIOUS
  <2> HIDE DEF T
  <2> QED BY <2>1, <2>2 DEF Surjection
<1> HIDE DEF T
<1>2. IsFiniteSet(T)
  BY <1>1, FS_Surjection
<1> QED BY <1>2 DEF T

-----------------------------------------------------------------------------
(* The past goes on *)

\* What a change does to the table is said by its run and the one that went.
LEMMA AppliedChange ==
    ASSUME NEW r, NEW run, NEW gone, NEW table
    PROVE  /\ Change(r, run, gone).run = run /\ Change(r, run, gone).gone = gone
           /\ EventChange(r, run, gone).run = run /\ EventChange(r, run, gone).gone = gone
           /\ Applied(table, EventChange(r, run, gone)) = Applied(table, Change(r, run, gone))
<1>1. /\ Change(r, run, gone).run = run /\ Change(r, run, gone).gone = gone
      /\ EventChange(r, run, gone).run = run /\ EventChange(r, run, gone).gone = gone
  BY DEF Change, EventChange
<1> QED BY <1>1 DEF Applied

\* What is a change with an event, and what is not.
LEMMA ChangeEvent ==
    ASSUME NEW r, NEW run, NEW gone
    PROVE  /\ Change(r, run, gone).event = FALSE
           /\ EventChange(r, run, gone).event = TRUE
<1>1. Change(r, run, gone).event = FALSE
  BY DEF Change
<1> DEFINE u == Change(r, run, gone)
<1>2. "event" \in DOMAIN u
  BY DEF Change
<1> HIDE DEF u
<1>3. [u EXCEPT !.event = TRUE].event = TRUE
  BY <1>2
<1> QED BY <1>1, <1>3 DEF EventChange, u

\* The runs of the table have ids and threads of their own.
LEMMA TableRuns ==
    ASSUME TypeOK, IndexMatchesTable
    PROVE  /\ Table \in SUBSET Run /\ Table \in RunTable
           /\ \A t \in Thread : runs[t] # NoRun => runs[t] \in Table /\ runs[t].thread = t
           /\ \A x \in Table : x.thread \in Thread /\ runs[x.thread] = x /\ x # NoRun
           /\ \A x, y \in Table : x.id = y.id => x = y
<1>1. Table \in SUBSET Run
  BY DEF Table, TypeOK
<1>2. \A t \in Thread : runs[t] # NoRun => runs[t] \in Table /\ runs[t].thread = t
  BY DEF Table, IndexMatchesTable
<1>3. \A x \in Table : x.thread \in Thread /\ runs[x.thread] = x /\ threadOf[x.id] = x.thread /\ x # NoRun
  BY DEF Table, IndexMatchesTable
<1>4. \A x, y \in Table : x.id = y.id => x = y
  BY <1>3
<1>5. IsFiniteSet(Table)
  <2>1. DOMAIN runs = Thread /\ runs = [t \in Thread |-> runs[t]]
    BY DEF TypeOK
  <2>2. IsFiniteSet({runs[t] : t \in Thread})
    BY <2>1, FiniteValues, RunReplicationAssumption
  <2> QED BY <2>2, FS_RemoveElement DEF Table
<1> QED BY <1>1, <1>2, <1>3, <1>4, <1>5 DEF RunTable

\* Putting a run in leaves the table that the change published with it calls for.
LEMMA ReplaceRunApplied ==
    ASSUME TypeOK, IndexMatchesTable, NEW run \in Run, ReplaceRun(run),
           threadOf[run.id] \in {run.thread, NoThread},
           NEW gone \in RunId \cup {NoId},
           runs[run.thread] # NoRun => runs[run.thread].id \in {run.id, gone},
           gone # NoId => runs[run.thread] # NoRun /\ runs[run.thread].id = gone,
           NEW r
    PROVE  Table' = Applied(Table, Change(r, run, gone))
<1> USE RunAuthorityAssumption
<1> DEFINE left == {x \in {y \in Table : y.id # gone} : x.id # run.id} \cup {run}
<1>1. run.id \in RunId /\ run.thread \in Thread /\ run # NoRun
  BY DEF Run
<1>2. Applied(Table, Change(r, run, gone)) = left
  <2> DEFINE u == Change(r, run, gone)
  <2>1. u.run = run /\ u.gone = gone
    BY AppliedChange
  <2> HIDE DEF u
  <2>2. Applied(Table, u) = left
    BY <1>1, <2>1 DEF Applied
  <2> QED BY <2>2 DEF u
<1>3. /\ runs'[run.thread] = run
      /\ \A t \in Thread : t # run.thread => runs'[t] = runs[t]
  BY ReplaceRunEffect
<1>4. Table \in SUBSET Run
  BY TableRuns
<1>5. ASSUME NEW x \in Table' PROVE x \in left
  <2>1. PICK t \in Thread : x = runs'[t] /\ x # NoRun
    BY DEF Table
  <2>2. CASE t = run.thread
    BY <1>3, <2>1, <2>2
  <2>3. CASE t # run.thread
    <3>1. x = runs[t] /\ x \in Table /\ x.thread = t
      BY <1>3, <2>1, <2>3, TableRuns
    <3>2. threadOf[x.id] = t
      BY <2>1, <3>1 DEF IndexMatchesTable
    <3>3. x.id # run.id
      BY <2>3, <3>2
    <3>4. x.id # gone
      <4>1. x.id \in RunId
        BY <1>4, <3>1 DEF Run
      <4>2. CASE gone = NoId
        BY <4>1, <4>2
      <4>3. CASE gone # NoId
        <5>1. threadOf[gone] = run.thread
          BY <1>1, <4>3 DEF IndexMatchesTable
        <5> QED BY <2>3, <3>2, <5>1
      <4> QED BY <4>2, <4>3
    <3> QED BY <3>1, <3>3, <3>4
  <2> QED BY <2>2, <2>3
<1>6. ASSUME NEW x \in left PROVE x \in Table'
  <2>1. CASE x = run
    BY <1>1, <1>3, <2>1 DEF Table
  <2>2. CASE x # run
    <3>1. x \in Table /\ x.id # gone /\ x.id # run.id
      BY <2>2
    <3>2. x.thread \in Thread /\ runs[x.thread] = x /\ x # NoRun
      BY <3>1, TableRuns
    <3>3. x.thread # run.thread
      BY <3>1, <3>2
    <3>4. runs'[x.thread] = x
      BY <1>3, <3>2, <3>3
    <3> QED BY <3>2, <3>4 DEF Table
  <2> QED BY <2>1, <2>2
<1> HIDE DEF left
<1> QED BY <1>2, <1>5, <1>6

\* Applying an update to runs leaves runs.
LEMMA AppliedIsTable ==
    ASSUME NEW table \in SUBSET Run, NEW u \in Update
    PROVE  /\ Applied(table, u) \in SUBSET Run
           /\ table \in RunTable => Applied(table, u) \in RunTable
<1>1. Applied(table, u) \in SUBSET Run
  BY DEF Applied, Update
<1>2. ASSUME IsFiniteSet(table)
      PROVE  IsFiniteSet(Applied(table, u))
  <2> DEFINE kept == {run \in table : run.id # u.gone}
             others == {run \in kept : run.id # u.run.id}
  <2>1. kept \in SUBSET table /\ others \in SUBSET table
    OBVIOUS
  <2>2. IsFiniteSet(kept) /\ IsFiniteSet(others)
    <3> HIDE DEF kept, others
    <3> QED BY <1>2, <2>1, FS_Subset
  <2>3. IsFiniteSet(others \cup {u.run})
    <3> HIDE DEF others
    <3> QED BY <2>2, FS_AddElement
  <2> QED BY <2>2, <2>3 DEF Applied
<1> QED BY <1>1, <1>2 DEF RunTable

\* An update that was on its way leads on in a longer past.
LEMMA LeadsStill ==
    ASSUME NEW h, Past(h), NEW u \in Travelling, revision \in Nat, revision' \in Nat, revision <= revision', TurnsGoOn,
           NEW k, \A n \in 0..revision : k[n] = h[n]
    PROVE  Leads(k, u)'
<1>1. Leads(h, u) /\ u \in Update
  BY DEF Past, Travelling
<1>2. u.revision \in Nat /\ u.base \in Nat /\ u.base \in 0..revision /\ u.revision \in 0..revision
  BY <1>1 DEF Leads, Update
<1>3. k[u.revision] = h[u.revision] /\ k[u.base] = h[u.base]
  BY <1>2
<1>4. UpdateSent(u)'
  <2>1. u.run # NoRun => u.run.id \in RunId
    BY <1>1 DEF Update, Run
  <2> QED BY <1>1, <2>1 DEF Leads, UpdateSent, TurnsGoOn
<1>5. u.revision <= revision'
  BY <1>1, <1>2 DEF Leads
<1> QED BY <1>1, <1>3, <1>4, <1>5 DEF Leads

\* A step that moves the table to the next revision by one update, and
\* publishes that update.
LEMMA OneUpdate ==
    ASSUME IInv, NEW u \in Update, u.base = revision, u.revision = revision + 1,
           revision' = revision + 1, Table' = Applied(Table, u), u.event => u.run # NoRun,
           Follows(Table, u), u.run # NoRun => turn'[u.run.id] # "unused", TurnsGoOn,
           \A v \in Travelling' : v \in Travelling \/ v = u
    PROVE  PastGoesOn
<1>1. revision \in Nat /\ Table \in SUBSET Run
  BY TableRuns DEF IInv, TypeOK
<1> SUFFICES ASSUME NEW h \in Tables, Past(h)
             PROVE  \E k \in Tables : Past(k)' /\ \A n \in 0..revision : k[n] = h[n]
  BY <1>1 DEF PastGoesOn
<1>2. PICK k \in Tables : k[revision + 1] = Table' /\ \A n \in 0..revision : k[n] = h[n]
  <2> DEFINE f == [h EXCEPT ![revision + 1] = Table']
  <2>1. f \in Tables
    BY <1>1, AppliedIsTable DEF Tables
  <2>2. f[revision + 1] = Table' /\ \A n \in 0..revision : f[n] = h[n]
    BY <1>1 DEF Tables
  <2> QED BY <2>1, <2>2
<1>3. ASSUME NEW v \in Travelling' PROVE Leads(k, v)'
  <2>1. CASE v = u
    <3>1. k[u.base] = Table /\ k[u.revision] = Applied(k[u.base], u)
      BY <1>1, <1>2 DEF Past
    <3> QED BY <1>1, <2>1, <3>1 DEF Leads, UpdateSent
  <2>2. CASE v \in Travelling
    BY <1>1, <1>2, <2>2, LeadsStill
  <2> QED BY <2>1, <2>2
<1> QED BY <1>1, <1>2, <1>3 DEF Past

\* The same for a step that publishes two updates.
LEMMA TwoUpdates ==
    ASSUME IInv, NEW u \in Update, u.base = revision, u.revision = revision + 1,
           NEW v \in Update, v.base = revision + 1, v.revision = revision + 2,
           revision' = revision + 2, Table' = Applied(Applied(Table, u), v),
           u.event => u.run # NoRun, v.event => v.run # NoRun,
           Follows(Table, u), Follows(Applied(Table, u), v), TurnsGoOn,
           turn'[u.run.id] # "unused", turn'[v.run.id] # "unused",
           \A x \in Travelling' : x \in Travelling \/ x = u \/ x = v
    PROVE  PastGoesOn
<1>1. revision \in Nat /\ Table \in SUBSET Run
  BY TableRuns DEF IInv, TypeOK
<1> SUFFICES ASSUME NEW h \in Tables, Past(h)
             PROVE  \E k \in Tables : Past(k)' /\ \A n \in 0..revision : k[n] = h[n]
  BY <1>1 DEF PastGoesOn
<1>2. PICK k \in Tables : /\ k[revision + 1] = Applied(Table, u) /\ k[revision + 2] = Table'
                          /\ \A n \in 0..revision : k[n] = h[n]
  <2> DEFINE between == Applied(Table, u)
             f == [h EXCEPT ![revision + 1] = between, ![revision + 2] = Table']
  <2>1. between \in SUBSET Run /\ Table' \in SUBSET Run
    BY <1>1, AppliedIsTable
  <2> HIDE DEF between
  <2>2. f \in Tables
    BY <1>1, <2>1 DEF Tables
  <2>3. f[revision + 1] = between /\ f[revision + 2] = Table' /\ \A n \in 0..revision : f[n] = h[n]
    BY <1>1 DEF Tables
  <2> HIDE DEF f
  <2> QED BY <2>2, <2>3 DEF between
<1>3. ASSUME NEW x \in Travelling' PROVE Leads(k, x)'
  <2>1. CASE x = u
    <3>1. k[u.base] = Table /\ k[u.revision] = Applied(k[u.base], u)
      BY <1>1, <1>2 DEF Past
    <3> QED BY <1>1, <2>1, <3>1 DEF Leads, UpdateSent
  <2>2. CASE x = v
    <3>1. k[v.base] = Applied(Table, u) /\ k[v.revision] = Applied(k[v.base], v)
      BY <1>1, <1>2
    <3> QED BY <1>1, <2>2, <3>1 DEF Leads, UpdateSent
  <2>3. CASE x \in Travelling
    BY <1>1, <1>2, <2>3, LeadsStill
  <2> QED BY <2>1, <2>2, <2>3
<1> QED BY <1>1, <1>2, <1>3 DEF Past

\* A step that leaves the table alone.
LEMMA NoUpdate ==
    ASSUME IInv, revision' = revision, runs' = runs, TurnsGoOn, \A u \in Travelling' : u \in Travelling
    PROVE  GoesOn /\ \A h : Past(h) => Past(h)'
<1>1. revision \in Nat /\ Table' = Table
  BY DEF IInv, TypeOK, Table
<1>2. ASSUME NEW h, Past(h) PROVE Past(h)'
  <2>1. \A u \in Travelling' : Leads(h, u)'
    BY <1>1, <1>2, LeadsStill
  <2> QED BY <1>1, <1>2, <2>1 DEF Past
<1> QED BY <1>1, <1>2 DEF PastGoesOn, GoesOn

-----------------------------------------------------------------------------
(* The steps of the authority *)

\* The version before a run, in the table.
Before(run) == runs[run.thread] # NoRun /\ runs[run.thread].id = run.id

\* A run counts what its version before did, or one event more, unless it is
\* new or has failed.
CountGoesOn(run, u) ==
    IF u.event THEN run.status = "failed" \/ (Before(run) /\ run.count = runs[run.thread].count + 1)
               ELSE run.count = 0 \/ (Before(run) /\ run.count = runs[run.thread].count)

\* What the next version of a run counts.
LEMMA VariantCounts ==
    ASSUME NEW run \in Run
    PROVE  /\ Counted(run).count = run.count + 1
           /\ \A status : Settled(run, status).count = run.count
           /\ \A ps, qs : WithInteractions(run, ps, qs).count = run.count
<1>1. Counted(run).count = run.count + 1
  BY DEF Counted, Run
<1>2. \A status : Settled(run, status).count = run.count
  BY DEF Settled, Run
<1>3. ASSUME NEW ps, NEW qs
      PROVE  WithInteractions(run, ps, qs).count = run.count
  <2> DEFINE next == [run EXCEPT !.permissions = ps, !.questions = qs]
             final == [next EXCEPT !.status = StatusAfterInteraction(next)]
  <2>1. DOMAIN next = DOMAIN run /\ next.count = run.count
    BY DEF Run
  <2> HIDE DEF next
  <2>2. final.count = next.count
    BY <2>1 DEF Run
  <2> QED BY <2>1, <2>2 DEF WithInteractions, next
<1> QED BY <1>1, <1>2, <1>3

\* Replacing a run by its next version is what the published update says.
LEMMA ReplaceFollows ==
    ASSUME TypeOK, IndexMatchesTable, NEW run \in Run,
           threadOf[run.id] \in {run.thread, NoThread},
           NEW gone \in RunId \cup {NoId}, gone # run.id,
           runs[run.thread] # NoRun => runs[run.thread].id \in {run.id, gone},
           NEW u, u.run = run, u.gone = gone, u.event \in BOOLEAN, CountGoesOn(run, u)
    PROVE  Follows(Table, u)
<1>1. run.thread \in Thread
  BY DEF Run
<1>2. \A x \in Table : x.id = run.id => x.thread = run.thread
  BY TableRuns, RunAuthorityAssumption DEF IndexMatchesTable
<1>3. \A x \in Table : x.thread = run.thread => x.id \in {run.id, gone}
  BY TableRuns
<1>4. Before(run) => \E x \in Table : x.id = run.id /\ x.count = runs[run.thread].count
  BY <1>1, TableRuns DEF Before
<1> QED BY <1>2, <1>3, <1>4 DEF Follows, CountGoesOn

\* Replacing a live run by its next version, and publishing that with an event
\* or without one, at once or behind the queue.
LEMMA ReplaceGoesOn ==
    ASSUME IInv, NEW run \in Run, ReplaceRun(run),
           threadOf[run.id] \in {run.thread, NoThread},
           NEW gone \in RunId \cup {NoId}, gone # run.id,
           runs[run.thread] # NoRun => runs[run.thread].id \in {run.id, gone},
           gone # NoId => runs[run.thread] # NoRun /\ runs[run.thread].id = gone,
           NEW u \in {Change(revision, run, gone), EventChange(revision, run, gone)},
           Dispatch(<<u>>) \/ Enqueue(u),
           CountGoesOn(run, u), TurnsGoOn, turn'[run.id] # "unused"
    PROVE  GoesOn
<1>1. TypeOK /\ IndexMatchesTable /\ revision \in Nat /\ StreamOK
  BY StreamIsOK DEF IInv, TypeOK
<1>2. u \in Update /\ u.base = revision /\ u.revision = revision + 1
  <2>1. Change(revision, run, gone).base = revision /\ Change(revision, run, gone).revision = revision + 1
    BY DEF Change
  <2>2. /\ Change(revision, run, gone) \in Update /\ EventChange(revision, run, gone) \in Update
        /\ EventChange(revision, run, gone).base = revision
        /\ EventChange(revision, run, gone).revision = revision + 1
    BY <1>1, ChangeIsUpdate
  <2>3. CASE u = Change(revision, run, gone)
    BY <2>1, <2>2, <2>3
  <2>4. CASE u = EventChange(revision, run, gone)
    BY <2>2, <2>4
  <2> QED BY <2>3, <2>4
<1>3. Table' = Applied(Table, u)
  <2>1. Table' = Applied(Table, Change(revision, run, gone))
    BY <1>1, ReplaceRunApplied
  <2> QED BY <2>1, AppliedChange
<1>4. revision' = revision + 1 /\ u.run # NoRun
  <2>1. u.run = run
    BY AppliedChange
  <2>2. run # NoRun
    BY RunAuthorityAssumption
  <2> QED BY <2>1, <2>2 DEF Dispatch, Enqueue
<1>5. \A v \in Travelling' : v \in Travelling \/ v = u
  <2>1. CASE Enqueue(u)
    BY <1>1, <1>2, <2>1, EnqueueTravels
  <2>2. CASE Dispatch(<<u>>)
    <3>1. <<u>> \in Seq(Update)
      BY <1>2
    <3>2. \A v \in Travelling' : v \in Travelling \/ \E i \in 1..Len(<<u>>) : <<u>>[i] = v
      BY <1>1, <2>2, <3>1, DispatchTravels
    <3> QED BY <3>2
  <2> QED BY <2>1, <2>2
<1>6. \A t \in Thread : runs'[t] # NoRun \/ runs'[t] = runs[t]
  <2>1. run # NoRun
    BY RunAuthorityAssumption
  <2> QED BY <1>1, <2>1, ReplaceRunEffect
<1>7. u.run = run /\ u.gone = gone /\ u.event \in BOOLEAN
  <2>1. u.run = run /\ u.gone = gone
    BY AppliedChange
  <2>2. u \in Update
    BY <1>2
  <2> QED BY <2>1, <2>2 DEF Update
<1>8. Follows(Table, u)
  BY <1>1, <1>7, ReplaceFollows
<1>9. turn'[u.run.id] # "unused"
  BY <1>7
<1> QED BY <1>2, <1>3, <1>4, <1>5, <1>6, <1>8, <1>9, OneUpdate DEF GoesOn

\* The next version of a live run, whichever way it is published.
LEMMA VersionGoesOn ==
    ASSUME IInv, NEW r \in RunId, IsLive(r), NEW run \in Run, run.id = r, run.thread = threadOf[r], TurnsGoOn,
           \/ /\ ReplaceRun(run)
              /\ \/ run.count = RunOf(r).count /\ Dispatch(<<Change(revision, run, NoId)>>)
                 \/ /\ run.count = RunOf(r).count + 1
                    /\ Dispatch(<<EventChange(revision, run, NoId)>>) \/ Enqueue(EventChange(revision, run, NoId))
           \/ FailForPayloadLimit(run, NoId)
    PROVE  GoesOn
<1> USE RunAuthorityAssumption
<1>1. threadOf[r] \in Thread /\ runs[threadOf[r]] # NoRun /\ runs[threadOf[r]].id = r /\ RunOf(r) = runs[threadOf[r]]
  BY DEF IsLive, Known, RunOf
<1>0. turn'[r] # "unused"
  <2>1. turn[r] = "active"
    BY LiveRun
  <2> QED BY <2>1 DEF TurnsGoOn
<1>2. CASE /\ ReplaceRun(run)
           /\ \/ run.count = RunOf(r).count /\ Dispatch(<<Change(revision, run, NoId)>>)
              \/ /\ run.count = RunOf(r).count + 1
                 /\ Dispatch(<<EventChange(revision, run, NoId)>>) \/ Enqueue(EventChange(revision, run, NoId))
  <2>1. CASE run.count = RunOf(r).count /\ Dispatch(<<Change(revision, run, NoId)>>)
    <3>1. CountGoesOn(run, Change(revision, run, NoId))
      BY <1>1, <2>1, ChangeEvent DEF CountGoesOn, Before
    <3> QED BY <1>0, <1>1, <1>2, <2>1, <3>1, ReplaceGoesOn
  <2>2. CASE /\ run.count = RunOf(r).count + 1
             /\ Dispatch(<<EventChange(revision, run, NoId)>>) \/ Enqueue(EventChange(revision, run, NoId))
    <3>1. CountGoesOn(run, EventChange(revision, run, NoId))
      BY <1>1, <2>2, ChangeEvent DEF CountGoesOn, Before
    <3> QED BY <1>0, <1>1, <1>2, <2>2, <3>1, ReplaceGoesOn
  <2> QED BY <1>2, <2>1, <2>2
<1>3. CASE FailForPayloadLimit(run, NoId)
  <2> DEFINE failure == LimitFailure(run)
  <2>1. failure \in Run /\ failure.id = r /\ failure.thread = threadOf[r]
    BY RunVariants
  <2>2. ReplaceRun(failure) /\ Dispatch(<<EventChange(revision, failure, NoId)>>)
    BY <1>3 DEF FailForPayloadLimit
  <2>3. failure.status = "failed"
    BY RunVariants
  <2> HIDE DEF failure
  <2>4. CountGoesOn(failure, EventChange(revision, failure, NoId))
    BY <2>3, ChangeEvent DEF CountGoesOn
  <2> QED BY <1>0, <1>1, <2>1, <2>2, <2>4, ReplaceGoesOn
<1> QED BY <1>2, <1>3

\* An event that is recorded.
LEMMA RecordGoesOn ==
    ASSUME IInv, NEW r \in RunId, IsLive(r), NEW next \in Run, next.id = r, next.thread = threadOf[r],
           next.count = RunOf(r).count + 1, TurnsGoOn,
           NEW batchable \in BOOLEAN, Record(r, next, batchable)
    PROVE  GoesOn
<1>1. RunOf(r) \in Run /\ RunOf(r).id = r /\ RunOf(r).thread = threadOf[r]
  BY LiveRun
<1>2. CASE FailForPayloadLimit(RunOf(r), NoId)
  BY <1>1, <1>2, VersionGoesOn
<1>3. CASE FailForPayloadLimit(next, NoId)
  BY <1>3, VersionGoesOn
<1>4. CASE ReplaceRun(next) /\ (IF batchable THEN Enqueue(EventChange(revision, next, NoId))
                               ELSE Dispatch(<<EventChange(revision, next, NoId)>>))
  BY <1>4, VersionGoesOn
<1> QED BY <1>2, <1>3, <1>4 DEF Record

\* No event takes a run back to where it was not sent.
LEMMA EventTurns ==
    ASSUME IInv, NEW r \in RunId, Event(r)
    PROVE  TurnsGoOn
<1>1. turn \in [RunId -> {"unused", "active", "ended"}]
  BY DEF IInv, TypeOK
<1>2. turn' = turn \/ turn' = [turn EXCEPT ![r] = "ended"]
  BY DEF Event, Started, Output, Progress, PermissionRequested, PermissionResolved, QuestionRequested, QuestionResolved,
         QuestionFailed, Ended, EndedUnheard
<1> QED BY <1>1, <1>2 DEF TurnsGoOn

LEMMA EventGoesOn ==
    ASSUME IInv, NEW r \in RunId, Event(r)
    PROVE  GoesOn
<1> DEFINE counted == Counted(RunOf(r))
<1>0. TurnsGoOn
  BY EventTurns
<1>1. ASSUME IsLive(r)
      PROVE  /\ counted \in Run /\ counted.id = r /\ counted.thread = threadOf[r]
             /\ counted.count = RunOf(r).count + 1
             /\ counted.permissions \in SUBSET Permission /\ counted.questions \in SUBSET Question
  <2>1. RunOf(r) \in Run /\ RunOf(r).id = r /\ RunOf(r).thread = threadOf[r]
    BY <1>1, LiveRun
  <2>2. counted \in Run /\ counted.id = r /\ counted.thread = threadOf[r] /\ counted.count = RunOf(r).count + 1
    BY <2>1, RunVariants, VariantCounts
  <2> HIDE DEF counted
  <2> QED BY <2>2 DEF Run
<1>2. ASSUME IsLive(r), NEW ps \in SUBSET Permission, NEW qs \in SUBSET Question
      PROVE  /\ WithInteractions(counted, ps, qs) \in Run
             /\ WithInteractions(counted, ps, qs).id = r
             /\ WithInteractions(counted, ps, qs).thread = threadOf[r]
             /\ WithInteractions(counted, ps, qs).count = RunOf(r).count + 1
  <2> HIDE DEF counted
  <2> QED BY <1>1, <1>2, InteractionsVariant, VariantCounts
<1>3. CASE Started(r)
  <2> DEFINE begun == [RunOf(r) EXCEPT !.begun = TRUE]
             run == Counted(begun)
             next == WithInteractions(run, run.permissions, run.questions)
  <2>1. IsLive(r) /\ Record(r, next, FALSE)
    BY <1>3 DEF Started, MayEmit, Emits
  <2>2. RunOf(r) \in Run /\ RunOf(r).id = r /\ RunOf(r).thread = threadOf[r]
    BY <2>1, LiveRun
  <2>3. begun \in Run /\ begun.id = r /\ begun.thread = threadOf[r] /\ begun.count = RunOf(r).count
    BY <2>2 DEF Run
  <2> HIDE DEF begun
  <2>4. run \in Run /\ run.id = r /\ run.thread = threadOf[r] /\ run.count = RunOf(r).count + 1
    BY <2>3, RunVariants, VariantCounts
  <2> HIDE DEF run
  <2>5. run.permissions \in SUBSET Permission /\ run.questions \in SUBSET Question
    BY <2>4 DEF Run
  <2>6. next \in Run /\ next.id = r /\ next.thread = threadOf[r] /\ next.count = RunOf(r).count + 1
    BY <2>4, <2>5, InteractionsVariant, VariantCounts
  <2> HIDE DEF next
  <2> QED BY <1>0, <2>1, <2>6, RecordGoesOn
<1>4. CASE Output(r) \/ Progress(r)
  <2>1. IsLive(r) /\ \E batchable \in BOOLEAN : Record(r, counted, batchable)
    BY <1>4 DEF Output, Progress, MayEmit, Emits
  <2> HIDE DEF counted
  <2> QED BY <1>0, <1>1, <2>1, RecordGoesOn
<1>5. ASSUME NEW p \in Permission, PermissionRequested(r, p) \/ PermissionResolved(r, p)
      PROVE  GoesOn
  <2>1. IsLive(r) /\ \E ps \in {counted.permissions \cup {p}, counted.permissions \ {p}} :
                        Record(r, WithInteractions(counted, ps, counted.questions), FALSE)
    BY <1>5 DEF PermissionRequested, PermissionResolved, MayEmit, Emits
  <2> HIDE DEF counted
  <2> QED BY <1>0, <1>1, <1>2, <2>1, RecordGoesOn
<1>6. ASSUME NEW q \in Question, QuestionRequested(r, q) \/ QuestionResolved(r, q)
      PROVE  GoesOn
  <2>1. IsLive(r) /\ \E qs \in {counted.questions \cup {q}, counted.questions \ {q}} :
                        Record(r, WithInteractions(counted, counted.permissions, qs), FALSE)
    BY <1>6 DEF QuestionRequested, QuestionResolved, MayEmit, Emits
  <2> HIDE DEF counted
  <2> QED BY <1>0, <1>1, <1>2, <2>1, RecordGoesOn
<1>7. ASSUME NEW q \in Question, QuestionFailed(r, q)
      PROVE  GoesOn
  <2>1. IsLive(r) /\ \E next \in {WithInteractions(counted, counted.permissions, counted.questions \cup {q}), counted} :
                        Record(r, next, FALSE)
    BY <1>7 DEF QuestionFailed, MayEmit, Emits
  <2> HIDE DEF counted
  <2> QED BY <1>0, <1>1, <1>2, <2>1, RecordGoesOn
<1>8. ASSUME NEW status \in Endings, Ended(r, status)
      PROVE  GoesOn
  <2> DEFINE next == Settled(counted, status)
  <2>1. IsLive(r) /\ Record(r, next, FALSE)
    BY <1>8 DEF Ended, Emits
  <2>2. status \in TerminalStatus
    BY RunAuthorityAssumption DEF TerminalStatus
  <2> HIDE DEF counted
  <2>3. next \in Run /\ next.id = r /\ next.thread = threadOf[r] /\ next.count = RunOf(r).count + 1
    BY <1>1, <2>1, <2>2, RunVariants, VariantCounts
  <2> HIDE DEF next
  <2> QED BY <1>0, <2>1, <2>3, RecordGoesOn
<1>9. CASE EndedUnheard(r)
  <2>1. UNCHANGED <<revision, runs, queue, channel>>
    BY <1>9 DEF EndedUnheard
  <2> QED BY <1>0, <2>1, StreamIsOK, NothingNewTravels, NoUpdate
<1> QED BY <1>3, <1>4, <1>5, <1>6, <1>7, <1>8, <1>9 DEF Event

\* A command that is published.
LEMMA CommandGoesOn ==
    ASSUME IInv, NEW r \in RunId, Stop(r) \/ Answering(r)
    PROVE  GoesOn
<1> USE RunAuthorityAssumption
<1> DEFINE run == RunOf(r)
<1>0. TurnsGoOn
  BY DEF Stop, Answering, RespondToPermission, RespondToQuestion, TurnsGoOn
<1>1. CASE Stop(r)
  <2> DEFINE next == [run EXCEPT !.stopRequested = TRUE]
  <2>1. IsLive(r) /\ ((ReplaceRun(next) /\ Dispatch(<<Change(revision, next, NoId)>>))
                     \/ FailForPayloadLimit(next, NoId))
    BY <1>1 DEF Stop, PublishRun
  <2>2. run \in Run /\ run.id = r /\ run.thread = threadOf[r]
    BY <2>1, LiveRun
  <2>3. next \in Run /\ next.id = r /\ next.thread = threadOf[r] /\ next.count = RunOf(r).count
    BY <2>2 DEF Run
  <2> HIDE DEF next
  <2> QED BY <1>0, <2>1, <2>3, VersionGoesOn
<1>2. ASSUME Known(r), RunOf(r).permissions # {} \/ RunOf(r).questions # {}
      PROVE  IsLive(r)
  <2>1. threadOf[r] \in Thread /\ runs[threadOf[r]] # NoRun /\ run = runs[threadOf[r]] /\ run \in Run
    BY <1>2 DEF Known, RunOf, IInv, TypeOK
  <2> QED BY <1>2, <2>1 DEF IInv, StatusMatchesInteractions, IsLive
<1>3. ASSUME IsLive(r), NEW ps \in SUBSET Permission, NEW qs \in SUBSET Question,
             \/ /\ ReplaceRun(WithInteractions(run, ps, qs))
                /\ Dispatch(<<Change(revision, WithInteractions(run, ps, qs), NoId)>>)
             \/ FailForPayloadLimit(WithInteractions(run, ps, qs), NoId)
      PROVE  GoesOn
  <2> DEFINE next == WithInteractions(run, ps, qs)
  <2>1. run \in Run /\ run.id = r /\ run.thread = threadOf[r]
    BY <1>3, LiveRun
  <2>0. next.count = RunOf(r).count
    BY <2>1, VariantCounts
  <2> HIDE DEF run
  <2>2. next \in Run /\ next.id = r /\ next.thread = threadOf[r]
    BY <2>1, InteractionsVariant
  <2>3. \/ ReplaceRun(next) /\ Dispatch(<<Change(revision, next, NoId)>>)
        \/ FailForPayloadLimit(next, NoId)
    BY <1>3
  <2> HIDE DEF next
  <2> QED BY <1>0, <1>3, <2>0, <2>2, <2>3, VersionGoesOn
<1>4. ASSUME NEW p \in Permission, RespondToPermission(r, p)
      PROVE  GoesOn
  <2>1. IsLive(r)
    BY <1>2, <1>4 DEF RespondToPermission
  <2>2. run.permissions \ {p} \in SUBSET Permission /\ run.questions \in SUBSET Question
    BY <2>1, LiveRun DEF Run
  <2> QED BY <1>3, <1>4, <2>1, <2>2 DEF RespondToPermission, PublishRun
<1>5. ASSUME NEW q \in Question, RespondToQuestion(r, q)
      PROVE  GoesOn
  <2>1. IsLive(r)
    BY <1>2, <1>5 DEF RespondToQuestion
  <2>2. run.permissions \in SUBSET Permission /\ run.questions \ {q} \in SUBSET Question
    BY <2>1, LiveRun DEF Run
  <2> QED BY <1>3, <1>5, <2>1, <2>2 DEF RespondToQuestion, PublishRun
<1> QED BY <1>1, <1>4, <1>5 DEF Answering

\* A send that is published, refused by the runtime, or over the limit.
LEMMA SendGoesOn ==
    ASSUME IInv, NEW t \in Thread, NEW r \in RunId, Sending(t, r)
    PROVE  GoesOn
<1> USE RunAuthorityAssumption
<1> DEFINE first == NewRun(t, r)
           gone == ReplacedBy(t)
<1>1. first \in Run /\ first.id = r /\ first.thread = t /\ first.status \in LiveStatus /\ first.count = 0
  BY NewRunIsRun DEF NewRun
<1>0. TurnsGoOn /\ turn'[r] # "unused"
  <2>1. turn \in [RunId -> {"unused", "active", "ended"}]
    BY DEF IInv, TypeOK
  <2>2. turn' = [turn EXCEPT ![r] = "active"] \/ turn' = [turn EXCEPT ![r] = "ended"]
    BY DEF Sending, Send, SendRefusedByRuntime, SendOverLimit
  <2> QED BY <2>1, <2>2 DEF TurnsGoOn
<1>2. /\ TypeOK /\ IndexMatchesTable /\ StreamOK /\ revision \in Nat /\ threadOf[r] = NoThread
      /\ gone \in RunId \cup {NoId}
      /\ runs[t] # NoRun => runs[t].id = gone
      /\ gone # NoId => runs[t] # NoRun /\ runs[t].id = gone
      /\ gone # r
  BY StreamIsOK DEF IInv, IndexMatchesTable, TypeOK, ReplacedBy, Run, Sending, Send, SendRefusedByRuntime, SendOverLimit, MaySend
<1>3. CASE Send(t, r)
  <2>1. ReplaceRun(first) /\ Dispatch(<<Change(revision, first, gone)>>)
    BY <1>3 DEF Send
  <2> HIDE DEF first, gone
  <2>2. CountGoesOn(first, Change(revision, first, gone))
    BY <1>1, ChangeEvent DEF CountGoesOn
  <2> QED BY <1>0, <1>1, <1>2, <2>1, <2>2, ReplaceGoesOn
<1>4. CASE SendRefusedByRuntime(t, r)
  <2> DEFINE settled == Settled(first, "failed")
             refused == [settled EXCEPT !.count = 1]
             u == Change(revision, first, gone)
             v == EventChange(revision + 1, refused, NoId)
  <2>1. ReplaceRun(refused) /\ Dispatch(<<u, v>>)
    BY <1>4 DEF SendRefusedByRuntime
  <2> HIDE DEF first, gone
  <2>2. settled \in Run /\ settled.id = r /\ settled.thread = t
    BY <1>1, RunVariants DEF TerminalStatus
  <2>13. settled.status = "failed"
    BY <1>1, RunVariants DEF TerminalStatus
  <2> HIDE DEF settled
  <2>3. refused \in Run /\ refused.id = r /\ refused.thread = t /\ refused.status = "failed"
    BY <2>2, <2>13 DEF Run
  <2> HIDE DEF refused
  <2>4. /\ u \in Update /\ u.base = revision /\ u.revision = revision + 1 /\ u.run = first /\ u.gone = gone /\ u.event = FALSE
    BY <1>1, <1>2, ChangeIsUpdate DEF Change
  <2>5. /\ v \in Update /\ v.base = revision + 1 /\ v.revision = revision + 2 /\ v.run = refused /\ v.gone = NoId /\ v.event = TRUE
    <3>1. revision + 1 \in Nat /\ refused \in Run \cup {NoRun} /\ NoId \in RunId \cup {NoId}
      BY <1>2, <2>3
    <3>2. v \in Update /\ v.base = revision + 1 /\ v.revision = (revision + 1) + 1
      BY <3>1, ChangeIsUpdate
    <3>3. v.run = refused /\ v.gone = NoId
      BY AppliedChange
    <3>4. v.event = TRUE
      BY ChangeEvent
    <3> HIDE DEF v
    <3> QED BY <1>2, <3>2, <3>3, <3>4
  <2>6. Table' = Applied(Table, Change(revision, refused, gone))
    BY <1>2, <2>1, <2>3, ReplaceRunApplied
  <2>7. Change(revision, refused, gone).run = refused /\ Change(revision, refused, gone).gone = gone
    BY DEF Change
  <2> HIDE DEF u, v
  <2>8. Applied(Applied(Table, u), v) = Table'
    <3>1. refused # NoRun /\ first # NoRun /\ r \in RunId
      BY <1>1, <2>3
    <3>2. Table \in SUBSET Run
      BY <1>2, TableRuns
    <3>3. \A x \in Table : x.id # NoId
      BY <3>2 DEF Run
    <3>4. Applied(Table, u) = {x \in Table : x.id # gone /\ x.id # r} \cup {first}
      BY <1>1, <2>4, <3>1 DEF Applied
    <3>5. Table' = {x \in Table : x.id # gone /\ x.id # r} \cup {refused}
      BY <2>3, <2>6, <2>7, <3>1 DEF Applied
    <3> DEFINE others == {x \in Table : x.id # gone /\ x.id # r}
    <3>6. \A x \in others : x.id # NoId /\ x.id # r
      BY <3>3
    <3> HIDE DEF others
    <3>7. Applied(others \cup {first}, v) = others \cup {refused}
      BY <1>1, <2>3, <2>5, <3>1, <3>6 DEF Applied
    <3> QED BY <3>4, <3>5, <3>7 DEF others
  <2>9. revision' = revision + 2
    BY <2>1 DEF Dispatch
  <2>10. \A x \in Travelling' : x \in Travelling \/ x = u \/ x = v
    <3>1. <<u, v>> \in Seq(Update)
      BY <2>4, <2>5
    <3>2. \A x \in Travelling' : x \in Travelling \/ \E i \in 1..Len(<<u, v>>) : <<u, v>>[i] = x
      BY <1>2, <2>1, <3>1, DispatchTravels
    <3>3. \A i \in 1..Len(<<u, v>>) : <<u, v>>[i] = u \/ <<u, v>>[i] = v
      OBVIOUS
    <3> QED BY <3>2, <3>3
  <2>11. \A t1 \in Thread : runs'[t1] # NoRun \/ runs'[t1] = runs[t1]
    <3>1. refused # NoRun
      BY <2>3
    <3> QED BY <1>2, <2>1, <2>3, <3>1, ReplaceRunEffect
  <2>12. u.run # NoRun /\ v.run # NoRun
    BY <1>1, <2>3, <2>4, <2>5
  <2>14. Follows(Table, u)
    BY <1>1, <1>2, <2>4, ReplaceFollows DEF CountGoesOn
  <2>15. Follows(Applied(Table, u), v)
    <3>1. r # NoId /\ r \in RunId
      OBVIOUS
    <3>2. \A x \in Applied(Table, u) : x.id = r \/ x.thread = t => x = first
      <4>1. \A x \in Applied(Table, u) : x = first \/ (x \in Table /\ x.id # gone /\ x.id # r)
        BY <1>1, <2>4 DEF Applied
      <4>2. \A x \in Table : x.thread = t => x.id = gone
        BY <1>2, TableRuns
      <4> QED BY <4>1, <4>2
    <3> QED BY <1>1, <2>3, <2>5, <3>1, <3>2 DEF Follows
  <2>16. turn'[u.run.id] # "unused" /\ turn'[v.run.id] # "unused"
    BY <1>0, <1>1, <2>3, <2>4, <2>5
  <2> QED BY <1>0, <2>4, <2>5, <2>8, <2>9, <2>10, <2>11, <2>12, <2>14, <2>15, <2>16, TwoUpdates DEF GoesOn
<1>5. CASE SendOverLimit(t, r)
  <2> DEFINE failure == LimitFailure(first)
  <2>1. ReplaceRun(failure) /\ Dispatch(<<EventChange(revision, failure, gone)>>)
    BY <1>5 DEF SendOverLimit, FailForPayloadLimit
  <2> HIDE DEF first, gone
  <2>2. failure \in Run /\ failure.id = r /\ failure.thread = t /\ failure.status = "failed"
    BY <1>1, RunVariants
  <2> HIDE DEF failure
  <2>3. CountGoesOn(failure, EventChange(revision, failure, gone))
    BY <2>2, ChangeEvent DEF CountGoesOn
  <2> QED BY <1>0, <1>2, <2>1, <2>2, <2>3, ReplaceGoesOn
<1> QED BY <1>3, <1>4, <1>5 DEF Sending

\* A finished run that leaves the table.
LEMMA AcknowledgeGoesOn ==
    ASSUME IInv, NEW r \in RunId, NEW n, Acknowledge(r, n)
    PROVE  PastGoesOn
<1> USE RunAuthorityAssumption
<1> DEFINE u == Change(revision, NoRun, r)
<1>1. /\ TypeOK /\ IndexMatchesTable /\ StreamOK /\ revision \in Nat
      /\ threadOf[r] \in Thread /\ runs[threadOf[r]].id = r /\ runs[threadOf[r]] # NoRun
      /\ runs' = [runs EXCEPT ![threadOf[r]] = NoRun]
  BY StreamIsOK DEF IInv, TypeOK, Acknowledge, Known
<1>2. /\ u \in Update /\ u.base = revision /\ u.revision = revision + 1 /\ u.run = NoRun /\ u.gone = r /\ u.event = FALSE
  BY <1>1, ChangeIsUpdate DEF Change
<1>3. Dispatch(<<u>>)
  BY DEF Acknowledge
<1> HIDE DEF u
<1>4. Table' = {x \in Table : x.id # r}
  <2>1. ASSUME NEW x \in Table' PROVE x \in Table /\ x.id # r
    <3>1. PICK t \in Thread : x = runs'[t] /\ x # NoRun
      BY DEF Table
    <3>2. t # threadOf[r] /\ x = runs[t]
      BY <1>1, <3>1 DEF TypeOK
    <3>3. threadOf[x.id] = t
      BY <1>1, <3>1, <3>2 DEF IndexMatchesTable
    <3> QED BY <3>1, <3>2, <3>3 DEF Table
  <2>2. ASSUME NEW x \in Table, x.id # r PROVE x \in Table'
    <3>1. x.thread \in Thread /\ runs[x.thread] = x /\ x # NoRun
      BY <1>1, TableRuns
    <3>2. x.thread # threadOf[r]
      BY <1>1, <2>2, <3>1
    <3>3. runs'[x.thread] = x
      BY <1>1, <3>1, <3>2 DEF TypeOK
    <3> QED BY <3>1, <3>3 DEF Table
  <2> QED BY <2>1, <2>2
<1>5. Table' = Applied(Table, u)
  BY <1>2, <1>4 DEF Applied
<1>6. revision' = revision + 1
  BY <1>3 DEF Dispatch
<1>7. \A v \in Travelling' : v \in Travelling \/ v = u
  <2>1. <<u>> \in Seq(Update)
    BY <1>2
  <2>2. \A v \in Travelling' : v \in Travelling \/ \E i \in 1..Len(<<u>>) : <<u>>[i] = v
    BY <1>1, <1>3, <2>1, DispatchTravels
  <2> QED BY <2>2
<1>8. Follows(Table, u)
  BY <1>2 DEF Follows
<1>9. TurnsGoOn
  BY DEF TurnsGoOn, Acknowledge
<1> QED BY <1>2, <1>5, <1>6, <1>7, <1>8, <1>9, OneUpdate

-----------------------------------------------------------------------------
(* What a window makes of a change *)

\* f lists what window w holds after each update of the change.
Steps(f, w, change) ==
    f = [n \in 0..Len(change) |-> IF n = 0 THEN Client(w) ELSE ApplyUpdate(f[n - 1], change[n])]

\* There is such a list, for every change.
LEMMA StepsExist ==
    ASSUME NEW w, NEW change \in Seq(Update)
    PROVE  \E f : Steps(f, w, change)
<1> DEFINE Upto(f, k) == f = [n \in 0..k |-> IF n = 0 THEN Client(w) ELSE ApplyUpdate(f[n - 1], change[n])]
           Listed(k) == \E f : Upto(f, k)
           T == {k \in Nat : ~Listed(k)}
<1>1. Listed(0)
  <2>1. Upto([n \in 0..0 |-> Client(w)], 0)
    OBVIOUS
  <2> QED BY <2>1
<1>2. ASSUME NEW k \in Nat, Listed(k)
      PROVE  Listed(k + 1)
  <2>1. PICK f : Upto(f, k)
    BY <1>2
  <2> DEFINE g == [n \in 0..(k + 1) |-> IF n = k + 1 THEN ApplyUpdate(f[k], change[k + 1]) ELSE f[n]]
  <2>2. Upto(g, k + 1)
    <3> SUFFICES ASSUME NEW n \in 0..(k + 1)
                 PROVE  g[n] = IF n = 0 THEN Client(w) ELSE ApplyUpdate(g[n - 1], change[n])
      OBVIOUS
    <3>1. CASE n = k + 1
      <4>1. g[n] = ApplyUpdate(f[k], change[k + 1]) /\ g[n - 1] = f[k]
        BY <3>1
      <4> QED BY <4>1, <3>1
    <3>2. CASE n \in 0..k
      <4>1. g[n] = f[n] /\ (n # 0 => g[n - 1] = f[n - 1])
        BY <3>2
      <4>2. f[n] = IF n = 0 THEN Client(w) ELSE ApplyUpdate(f[n - 1], change[n])
        BY <2>1, <3>2
      <4> QED BY <4>1, <4>2
    <3> QED BY <3>1, <3>2
  <2> HIDE DEF Upto
  <2> QED BY <2>2
<1> HIDE DEF Listed
<1>3. T = {}
  <2> SUFFICES ASSUME T # {} PROVE FALSE
    OBVIOUS
  <2>1. T \subseteq Nat
    OBVIOUS
  <2>2. PICK k \in T : \A m \in T : k <= m
    <3> HIDE DEF T
    <3> QED BY <2>1, LeastNumber
  <2>3. k # 0 /\ k - 1 \in Nat /\ k - 1 \notin T
    BY <1>1, <2>2
  <2> QED BY <1>2, <2>3
<1>4. Listed(Len(change))
  BY <1>3
<1> QED BY <1>4 DEF Listed, Steps

\* Applying a change is going through that list.
LEMMA ApplyChangeSteps ==
    ASSUME NEW w, NEW change \in Seq(Update)
    PROVE  \E f : Steps(f, w, change) /\ ApplyChange(w, change) = f[Len(change)]
<1> DEFINE after == CHOOSE f : Steps(f, w, change)
<1>1. Steps(after, w, change)
  <2>1. \E f : Steps(f, w, change)
    BY StepsExist
  <2> QED BY <2>1
<1>2. ApplyChange(w, change) = after[Len(change)]
  BY DEF ApplyChange, Steps
<1> HIDE DEF after
<1> QED BY <1>1, <1>2

\* The state of a replica that may be trusted.
Trusted(h, s) == s = NoState \/ (s \in State /\ Shows(h, s))

\* An update that was published either extends a replica or leaves it alone.
LEMMA ApplyUpdateTrusted ==
    ASSUME revision \in Nat, NEW h, NEW u \in Update, Leads(h, u),
           NEW c, "state" \in DOMAIN c, Trusted(h, c.state)
    PROVE  "state" \in DOMAIN ApplyUpdate(c, u) /\ Trusted(h, ApplyUpdate(c, u).state)
<1> DEFINE seen == c.state # NoState /\ u.revision <= c.state.revision
           next == c.state # NoState /\ u.base = c.state.revision
           left == IF u.gone = NoId THEN c ELSE [c EXCEPT !.delivered[u.gone] = 0]
           state == [revision |-> u.revision, runs |-> Applied(c.state.runs, u), bare |-> c.state.bare \ {u.gone}]
           moved == [left EXCEPT !.state = state]
<1>1. CASE ~c.ok \/ seen
  <2>1. ApplyUpdate(c, u) = c
    BY <1>1 DEF ApplyUpdate
  <2> QED BY <2>1
<1>2. CASE c.ok /\ ~seen /\ ~next
  <2>1. ApplyUpdate(c, u) = [c EXCEPT !.ok = FALSE]
    BY <1>2 DEF ApplyUpdate
  <2> QED BY <2>1
<1>3. CASE c.ok /\ ~seen /\ next
  <2>1. ApplyUpdate(c, u) = IF u.event THEN DeliverEvent(moved, u.run) ELSE moved
    BY <1>3 DEF ApplyUpdate
  <2>2. state \in State /\ Shows(h, state)
    <3>1. c.state \in State /\ c.state.runs = h[u.base] /\ c.state.runs \in RunTable
      BY <1>3 DEF Trusted, Shows, State
    <3>2. Applied(c.state.runs, u) \in RunTable /\ Applied(c.state.runs, u) = h[u.revision]
      BY <3>1, AppliedIsTable DEF RunTable, Leads
    <3>3. u.revision \in Nat /\ u.revision <= revision
      BY DEF Update, Leads
    <3> QED BY <3>1, <3>2, <3>3 DEF State, Shows
  <2> HIDE DEF state
  <2>3. "state" \in DOMAIN left
    OBVIOUS
  <2> HIDE DEF left
  <2>4. "state" \in DOMAIN moved /\ moved.state = state
    BY <2>3
  <2> HIDE DEF moved
  <2>5. "state" \in DOMAIN DeliverEvent(moved, u.run) /\ DeliverEvent(moved, u.run).state = state
    <3> DEFINE done == Delivered(moved, u.run)
    <3>1. "state" \in DOMAIN done /\ done.state = state
      BY <2>4 DEF Delivered
    <3> HIDE DEF done
    <3>2. DeliverEvent(moved, u.run) = moved \/ \E x : DeliverEvent(moved, u.run) = [done EXCEPT !.holes = x]
      BY DEF DeliverEvent, done
    <3> QED BY <2>4, <3>1, <3>2
  <2> QED BY <2>1, <2>2, <2>4, <2>5 DEF Trusted
<1> QED BY <1>1, <1>2, <1>3

\* So does a whole change.
LEMMA ApplyChangeTrusted ==
    ASSUME revision \in Nat, NEW h, NEW w, NEW change \in Seq(Update),
           \A i \in 1..Len(change) : Leads(h, change[i]), Trusted(h, replica[w])
    PROVE  Trusted(h, ApplyChange(w, change).state)
<1>1. PICK f : Steps(f, w, change) /\ ApplyChange(w, change) = f[Len(change)]
  BY ApplyChangeSteps
<1>2. f[0] = Client(w) /\ \A n \in 1..Len(change) : f[n] = ApplyUpdate(f[n - 1], change[n])
  BY <1>1 DEF Steps
<1> DEFINE Good(n) == "state" \in DOMAIN f[n] /\ Trusted(h, f[n].state)
           T == {n \in 0..Len(change) : ~Good(n)}
<1>3. Good(0)
  <2>1. "state" \in DOMAIN Client(w) /\ Client(w).state = replica[w]
    BY DEF Client
  <2> QED BY <1>2, <2>1
<1>4. ASSUME NEW n \in 1..Len(change), Good(n - 1)
      PROVE  Good(n)
  <2>1. change[n] \in Update /\ Leads(h, change[n])
    OBVIOUS
  <2> QED BY <1>2, <1>4, <2>1, ApplyUpdateTrusted
<1> HIDE DEF Good
<1>5. T = {}
  <2> SUFFICES ASSUME T # {} PROVE FALSE
    OBVIOUS
  <2>1. T \subseteq Nat
    OBVIOUS
  <2>2. PICK n \in T : \A m \in T : n <= m
    <3> HIDE DEF T
    <3> QED BY <2>1, LeastNumber
  <2>3. n \in 1..Len(change) /\ n - 1 \in 0..Len(change) /\ n - 1 \notin T
    BY <1>3, <2>2
  <2> QED BY <1>4, <2>2, <2>3
<1>6. Good(Len(change))
  BY <1>5
<1> QED BY <1>1, <1>6 DEF Good

\* A snapshot is taken over as it is, or left alone.
LEMMA ApplySnapshotTrusted ==
    ASSUME NEW h, NEW w, NEW s, Trusted(h, s), Trusted(h, replica[w])
    PROVE  Trusted(h, ApplySnapshot(w, s).state)
<1> DEFINE c == Client(w)
           known == {run.id : run \in s.runs}
           reset == [c EXCEPT !.state = s, !.delivered = [r \in RunId |-> IF r \in known THEN @[r] ELSE 0]]
<1>1. "state" \in DOMAIN c /\ c.state = replica[w]
  BY DEF Client
<1>2. ApplySnapshot(w, s) = c \/ ApplySnapshot(w, s) = DeliverSnapshot(reset, s.runs)
  BY DEF ApplySnapshot
<1> HIDE DEF c
<1>3. "state" \in DOMAIN reset /\ reset.state = s
  BY <1>1
<1> HIDE DEF reset
<1>4. DeliverSnapshot(reset, s.runs).state = s
  BY <1>3 DEF DeliverSnapshot
<1> QED BY <1>1, <1>2, <1>4

-----------------------------------------------------------------------------
(* The steps of a window *)

\* A step keeps the invariant when the past goes on and every snapshot is one
\* there was, or shows the past.
LEMMA SnapshotsKept ==
    ASSUME ReplicationIInv, IInv', MessagesOK', PastGoesOn,
           \A s \in Snapshots' :
              s \in Snapshots \/ \A h \in Tables : Past(h) /\ (\A q \in Snapshots : Shows(h, q)) => Shows(h, s)
    PROVE  ReplicationIInv'
<1>1. PICK h \in Tables : Past(h) /\ \A s \in Snapshots : Shows(h, s)
  BY DEF ReplicationIInv
<1>2. PICK k \in Tables : Past(k)' /\ \A n \in 0..revision : k[n] = h[n]
  BY <1>1 DEF PastGoesOn
<1>3. revision \in Nat /\ revision' \in Nat /\ revision <= revision'
  BY DEF ReplicationIInv, IInv, TypeOK, PastGoesOn
<1>4. ASSUME NEW s \in Snapshots' PROVE Shows(k, s)'
  <2>1. Shows(h, s)
    BY <1>1
  <2>2. s.revision \in Nat
    BY DEF Snapshots, State
  <2> QED BY <1>2, <1>3, <2>1, <2>2 DEF Shows
<1> QED BY <1>2, <1>4 DEF ReplicationIInv

\* A step that leaves the snapshots on their way and the replicas alone.
LEMMA AuthorityGoesOn ==
    ASSUME ReplicationIInv, IInv', PastGoesOn, UNCHANGED <<replica, replies>>,
           sends' \subseteq sends
    PROVE  ReplicationIInv'
<1>1. MessagesOK'
  BY DEF ReplicationIInv, MessagesOK
<1>2. Snapshots' = Snapshots
  BY DEF Snapshots
<1> QED BY <1>1, <1>2, SnapshotsKept

\* A step that the authority takes no part in keeps its invariant.
LEMMA AuthorityStays ==
    ASSUME IInv, UNCHANGED vars
    PROVE  IInv' /\ PastGoesOn /\ UNCHANGED runs
<1>1. IInv'
  BY NextStep DEF StepOK
<1>2. UNCHANGED <<revision, runs, queue, channel, turn>>
  BY DEF vars
<1> QED BY <1>1, <1>2, StreamIsOK, NothingNewTravels, NoUpdate DEF GoesOn, TurnsGoOn

\* Taking a change off its channel, or dropping a channel, does not matter to
\* the authority.
LEMMA ChannelShortened ==
    ASSUME IInv, UNCHANGED <<revision, runs, threadOf, accepted, queue, turn, told, answered>>,
           subscribers' \subseteq subscribers, channel' \in [Window -> Seq(Seq(Update))]
    PROVE  IInv'
<1>1. TypeOK'
  BY DEF IInv, TypeOK
<1>2. /\ IndexMatchesTable' /\ StatusMatchesInteractions' /\ AnsweredAtMostOnce' /\ AcceptedUntilSettled'
      /\ OrphanTurnIsStopped' /\ LiveRunIsActive' /\ UnusedRunIsFresh'
  BY DEF IInv, IndexMatchesTable, StatusMatchesInteractions, AnsweredAtMostOnce, AcceptedUntilSettled,
         OrphanTurnIsStopped, LiveRunIsActive, UnusedRunIsFresh, IsLive, Known, RunOf
<1>3. QueueReachesRevision'
  BY DEF IInv, QueueReachesRevision
<1> QED BY <1>1, <1>2, <1>3 DEF IInv

LEMMA AuthorityStepKeeps ==
    ASSUME ReplicationIInv, AuthorityStep
    PROVE  ReplicationIInv'
<1>1. IInv /\ UNCHANGED <<replica, replies, sends>>
  BY DEF ReplicationIInv, AuthorityStep, windowVars, syncVars, requestVars, clientVars
<1>2. ASSUME NEW r \in RunId, Stop(r) \/ Answering(r) \/ Event(r)
      PROVE  IInv' /\ PastGoesOn
  <2>1. PastGoesOn
    BY <1>1, <1>2, EventGoesOn, CommandGoesOn DEF GoesOn
  <2>2. StepOK
    BY <1>1, <1>2, EventStep, StopStep, AnswerStep
  <2> QED BY <2>1, <2>2 DEF StepOK
<1>3. ASSUME NEW r \in RunId, Acknowledge(r, stored[r])
      PROVE  IInv' /\ PastGoesOn
  BY <1>1, <1>3, AcknowledgeStep, AcknowledgeGoesOn DEF StepOK
<1>4. ASSUME BatchTimerFires
      PROVE  IInv' /\ PastGoesOn
  <2>1. IInv'
    BY <1>1, <1>4, StreamStep DEF StepOK
  <2>2. PastGoesOn
    BY <1>1, <1>4, StreamIsOK, NothingNewTravels, NoUpdate DEF BatchTimerFires, GoesOn, TurnsGoOn
  <2> QED BY <2>1, <2>2
<1>5. IInv' /\ PastGoesOn
  BY <1>2, <1>3, <1>4 DEF AuthorityStep
<1> QED BY <1>1, <1>5, AuthorityGoesOn

\* The steps of a window that neither send it a snapshot nor change its runs.
LEMMA RequestStepKeeps ==
    ASSUME ReplicationIInv,
           \/ \E w \in Window : Mount(w) \/ MountTwice(w)
           \/ \E w \in Window, t \in Thread, r \in RunId : BeginRequest(w, t, r)
           \/ \E w \in Window, t \in Thread : Unobserve(w, t)
           \/ \E s \in results : ReceiveResult(s)
           \/ \E s \in sends : HandleSend(s)
    PROVE  ReplicationIInv'
<1>1. IInv /\ MessagesOK
  BY DEF ReplicationIInv
<1>2. UNCHANGED <<replica, replies>>
  BY DEF Mount, MountTwice, BeginRequest, Unobserve, ReceiveResult, HandleSend, syncVars, requestVars, clientVars
<1>3. sends' \subseteq [window : Window, thread : Thread, id : RunId]
  <2>1. CASE \E w \in Window, t \in Thread, r \in RunId : BeginRequest(w, t, r)
    <3>1. PICK w \in Window, t \in Thread, r \in RunId : BeginRequest(w, t, r)
      BY <2>1
    <3>2. sends' = sends \cup {[window |-> w, thread |-> t, id |-> r]}
      BY <3>1 DEF BeginRequest
    <3> QED BY <1>1, <3>2 DEF MessagesOK
  <2>2. CASE \E s \in sends : HandleSend(s)
    <3>1. PICK s \in sends : HandleSend(s)
      BY <2>2
    <3>2. sends' = sends \ {s}
      BY <3>1 DEF HandleSend
    <3> QED BY <1>1, <3>2 DEF MessagesOK
  <2>3. CASE \E s \in results : ReceiveResult(s)
    <3>1. sends' = sends
      BY <2>3 DEF ReceiveResult
    <3> QED BY <1>1, <3>1 DEF MessagesOK
  <2>4. CASE \/ \E w \in Window : Mount(w) \/ MountTwice(w)
             \/ \E w \in Window, t \in Thread : Unobserve(w, t)
    <3>1. sends' = sends
      BY <2>4 DEF Mount, MountTwice, Unobserve, requestVars
    <3> QED BY <1>1, <3>1 DEF MessagesOK
  <2> QED BY <2>1, <2>2, <2>3, <2>4
<1>4. IInv' /\ PastGoesOn
  <2>1. CASE UNCHANGED vars
    BY <1>1, <2>1, AuthorityStays
  <2>2. ASSUME NEW s \in sends, HandleSend(s)
        PROVE  IInv' /\ PastGoesOn
    <3>1. s.thread \in Thread /\ s.id \in RunId
      BY <1>1 DEF MessagesOK
    <3>2. Sending(s.thread, s.id) \/ UNCHANGED vars
      BY <2>2 DEF HandleSend, Sending
    <3> QED BY <1>1, <3>1, <3>2, SendStep, SendGoesOn, AuthorityStays DEF StepOK, GoesOn
  <2>3. UNCHANGED vars \/ \E s \in sends : HandleSend(s)
    BY DEF Mount, MountTwice, BeginRequest, Unobserve, ReceiveResult
  <2> QED BY <2>1, <2>2, <2>3
<1>5. MessagesOK' /\ Snapshots' = Snapshots
  BY <1>1, <1>2, <1>3 DEF MessagesOK, Snapshots
<1> QED BY <1>4, <1>5, SnapshotsKept

\* The authority answers subscribe with the table of its revision.
LEMMA HandleCallKeeps ==
    ASSUME ReplicationIInv, NEW w \in Window, HandleCall(w)
    PROVE  ReplicationIInv'
<1>1. /\ IInv /\ MessagesOK /\ revision \in Nat
      /\ replies \in [Window -> Seq(Reply)]
  BY DEF ReplicationIInv, IInv, TypeOK, MessagesOK
<1>2. UNCHANGED <<replica, sends, revision, runs, queue, channel, turn>>
  BY DEF HandleCall, Subscribe, Unsubscribe, requestVars, clientVars
<1>3. IInv'
  <2>1. Subscribe(w) \/ Unsubscribe(w)
    BY DEF HandleCall
  <2> QED BY <1>1, <2>1, StreamStep DEF StepOK
<1>4. PastGoesOn
  BY <1>1, <1>2, StreamIsOK, NothingNewTravels, NoUpdate DEF GoesOn, TurnsGoOn
<1>5. CASE UNCHANGED replies
  <2>1. MessagesOK' /\ Snapshots' = Snapshots
    BY <1>1, <1>2, <1>5 DEF MessagesOK, Snapshots
  <2> QED BY <1>3, <1>4, <2>1, SnapshotsKept
<1>6. ASSUME NEW bare \in LeftOut,
             replies' = [replies EXCEPT ![w] = Append(@, [state |-> [revision |-> revision, runs |-> Table, bare |-> bare],
                                                          behind |-> Len(channel[w])])]
      PROVE  ReplicationIInv'
  <2> DEFINE snapshot == [revision |-> revision, runs |-> Table, bare |-> bare]
             reply == [state |-> snapshot, behind |-> Len(channel[w])]
  <2>1. snapshot \in State /\ snapshot.revision = revision /\ snapshot.runs = Table
    <3>1. Table \in SUBSET Run /\ Table \in RunTable
      BY <1>1, TableRuns DEF IInv
    <3>2. bare \in SUBSET RunId
      BY <3>1 DEF LeftOut, Run
    <3> QED BY <1>1, <3>1, <3>2 DEF State
  <2> HIDE DEF snapshot
  <2>2. reply \in Reply /\ reply.state = snapshot
    <3>1. Len(channel[w]) \in Nat
      BY <1>1 DEF IInv, TypeOK
    <3> QED BY <2>1, <3>1 DEF Reply
  <2>3. replies' = [replies EXCEPT ![w] = Append(@, reply)]
    BY <1>6 DEF snapshot
  <2> HIDE DEF reply
  <2>4. replies' \in [Window -> Seq(Reply)]
    BY <1>1, <2>2, <2>3
  <2>5. MessagesOK'
    BY <1>1, <1>2, <2>4 DEF MessagesOK
  <2>6. ASSUME NEW s \in Snapshots', s \notin Snapshots
        PROVE  s = snapshot
    <3>1. PICK v \in Window : \E i \in DOMAIN replies'[v] : replies'[v][i].state = s
      BY <1>2, <2>6 DEF Snapshots
    <3>2. PICK i \in DOMAIN replies'[v] : replies'[v][i].state = s
      BY <3>1
    <3>3. replies[v] \in Seq(Reply)
      BY <1>1
    <3>4. (i \in DOMAIN replies[v] /\ replies'[v][i] = replies[v][i]) \/ replies'[v][i] = reply
      <4>1. CASE v = w
        <5>1. replies'[v] = Append(replies[v], reply)
          BY <1>1, <2>3, <4>1
        <5> QED BY <3>2, <3>3, <5>1
      <4>2. CASE v # w
        <5>1. replies'[v] = replies[v]
          BY <1>1, <2>3, <4>2
        <5> QED BY <3>2, <5>1
      <4> QED BY <4>1, <4>2
    <3>5. s \in State
      BY DEF Snapshots
    <3>6. ~ \E j \in DOMAIN replies[v] : replies[v][j].state = s
      BY <2>6, <3>5 DEF Snapshots
    <3> QED BY <2>2, <3>2, <3>4, <3>6
  <2>7. \A h \in Tables : Past(h) => Shows(h, snapshot)
    BY <1>1, <2>1 DEF Past, Shows
  <2> QED BY <1>3, <1>4, <2>5, <2>6, <2>7, SnapshotsKept
<1>7. UNCHANGED replies \/ \E bare \in LeftOut :
          replies' = [replies EXCEPT ![w] = Append(@, [state |-> [revision |-> revision, runs |-> Table, bare |-> bare],
                                                       behind |-> Len(channel[w])])]
  BY DEF HandleCall
<1> QED BY <1>5, <1>6, <1>7

\* A window that puts trusted runs in the place of those it had, and receives
\* nothing.
LEMMA ReplicaKeeps ==
    ASSUME ReplicationIInv, IInv', PastGoesOn, sends' = sends, NEW w \in Window, NEW state,
           replica' = [replica EXCEPT ![w] = state],
           replies' \in [Window -> Seq(Reply)],
           \A v \in Window : \A i \in DOMAIN replies'[v] :
              \E j \in DOMAIN replies[v] : replies'[v][i].state = replies[v][j].state,
           \A h \in Tables : Past(h) /\ (\A q \in Snapshots : Shows(h, q)) => Trusted(h, state)
    PROVE  ReplicationIInv'
<1>1. replica \in [Window -> State \cup {NoState}] /\ MessagesOK
  BY DEF ReplicationIInv, MessagesOK
<1>2. state \in State \cup {NoState}
  BY DEF ReplicationIInv, Trusted
<1>3. MessagesOK'
  BY <1>1, <1>2 DEF MessagesOK
<1>4. ASSUME NEW s \in Snapshots', s \notin Snapshots
      PROVE  s = state /\ s # NoState
  <2>1. s \in State
    BY DEF Snapshots
  <2>2. s # NoState
    BY <2>1, RunReplicationAssumption
  <2>3. ~ \E v \in Window : \E i \in DOMAIN replies'[v] : replies'[v][i].state = s
    BY <1>4, <2>1 DEF Snapshots
  <2>4. PICK v \in Window : replica'[v] = s
    BY <2>3 DEF Snapshots
  <2>5. replica[v] # s
    BY <1>4, <2>1 DEF Snapshots
  <2> QED BY <1>1, <2>2, <2>4, <2>5
<1>5. \A s \in Snapshots' :
         s \in Snapshots \/ \A h \in Tables : Past(h) /\ (\A q \in Snapshots : Shows(h, q)) => Shows(h, s)
  BY <1>4 DEF Trusted
<1> QED BY <1>3, <1>5, SnapshotsKept

\* What a window holds may be trusted.
LEMMA ReplicaTrusted ==
    ASSUME MessagesOK, NEW w \in Window, NEW h, \A q \in Snapshots : Shows(h, q)
    PROVE  /\ Trusted(h, replica[w])
           /\ \A i \in DOMAIN replies[w] : Trusted(h, replies[w][i].state)
<1>1. replica[w] \in State \cup {NoState} /\ \A i \in DOMAIN replies[w] : replies[w][i].state \in State
  <2>1. replica[w] \in State \cup {NoState} /\ \A i \in DOMAIN replies[w] : replies[w][i] \in Reply
    BY DEF MessagesOK
  <2> QED BY <2>1 DEF Reply
<1> QED BY <1>1 DEF Snapshots, Trusted

\* Every snapshot on its way to a window was on its way before, unless a
\* subscribe call is answered.
LEMMA RepliesComeFrom ==
    ASSUME MessagesOK, NEW w \in Window,
           \/ replies' = replies
           \/ replies' = [replies EXCEPT ![w] = <<>>]
           \/ replies' = [replies EXCEPT ![w] = Tail(@)] /\ replies[w] # <<>>
           \/ replies' = [replies EXCEPT ![w] = [i \in DOMAIN @ |-> Nearer(@[i])]]
    PROVE  \A v \in Window : \A i \in DOMAIN replies'[v] :
              \E j \in DOMAIN replies[v] : replies'[v][i].state = replies[v][j].state
<1> SUFFICES ASSUME NEW v \in Window, NEW i \in DOMAIN replies'[v]
             PROVE  \E j \in DOMAIN replies[v] : replies'[v][i].state = replies[v][j].state
  OBVIOUS
<1>1. replies \in [Window -> Seq(Reply)] /\ replies[v] \in Seq(Reply)
  BY DEF MessagesOK
<1>2. CASE replies'[v] = replies[v]
  BY <1>2
<1>3. CASE v = w /\ replies' = [replies EXCEPT ![w] = Tail(@)] /\ replies[w] # <<>>
  <2>1. replies'[v] = Tail(replies[v]) /\ replies[v] # <<>>
    BY <1>1, <1>3
  <2>2. i + 1 \in DOMAIN replies[v] /\ replies'[v][i] = replies[v][i + 1]
    BY <1>1, <2>1
  <2> QED BY <2>2
<1>4. CASE v = w /\ replies' = [replies EXCEPT ![w] = [k \in DOMAIN @ |-> Nearer(@[k])]]
  <2>1. replies'[v] = [k \in DOMAIN replies[v] |-> Nearer(replies[v][k])]
    BY <1>1, <1>4
  <2>2. i \in DOMAIN replies[v] /\ replies'[v][i] = Nearer(replies[v][i]) /\ replies[v][i] \in Reply
    BY <1>1, <2>1
  <2> QED BY <2>2 DEF Reply, Nearer
<1> QED BY <1>1, <1>2, <1>3, <1>4

\* A snapshot is received.
LEMMA ReceiveReplyKeeps ==
    ASSUME ReplicationIInv, NEW w \in Window, ReceiveReply(w)
    PROVE  ReplicationIInv'
<1>1. /\ IInv /\ MessagesOK /\ replies \in [Window -> Seq(Reply)]
  BY DEF ReplicationIInv, MessagesOK
<1> DEFINE snapshot == Head(replies[w]).state
<1>2. /\ UNCHANGED vars /\ sends' = sends /\ replies[w] # <<>>
      /\ replies' = [replies EXCEPT ![w] = Tail(@)]
      /\ replica' = [replica EXCEPT ![w] = ApplySnapshot(w, snapshot).state]
  BY DEF ReceiveReply, Become, requestVars
<1>3. IInv' /\ PastGoesOn
  BY <1>1, <1>2, AuthorityStays
<1>4. replies' \in [Window -> Seq(Reply)]
  BY <1>1, <1>2
<1>5. \A v \in Window : \A i \in DOMAIN replies'[v] :
         \E j \in DOMAIN replies[v] : replies'[v][i].state = replies[v][j].state
  BY <1>1, <1>2, RepliesComeFrom
<1>6. ASSUME NEW h \in Tables, \A q \in Snapshots : Shows(h, q)
      PROVE  Trusted(h, ApplySnapshot(w, snapshot).state)
  <2>1. 1 \in DOMAIN replies[w] /\ snapshot = replies[w][1].state
    BY <1>1, <1>2
  <2>2. Trusted(h, replica[w]) /\ Trusted(h, snapshot)
    BY <1>1, <1>6, <2>1, ReplicaTrusted
  <2> HIDE DEF snapshot
  <2> QED BY <2>2, ApplySnapshotTrusted
<1> HIDE DEF snapshot
<1> QED BY <1>2, <1>3, <1>4, <1>5, <1>6, ReplicaKeeps

\* A change is received.
LEMMA ReceiveChangeKeeps ==
    ASSUME ReplicationIInv, NEW w \in Window, ReceiveChange(w)
    PROVE  ReplicationIInv'
<1> DEFINE change == Head(channel[w])
<1>1. /\ IInv /\ MessagesOK /\ replies \in [Window -> Seq(Reply)]
      /\ channel \in [Window -> Seq(Seq(Update))] /\ revision \in Nat
  BY DEF ReplicationIInv, MessagesOK, IInv, TypeOK
<1>2. /\ sends' = sends /\ TakeChange(w)
      /\ replica' = [replica EXCEPT ![w] = ApplyChange(w, change).state]
  BY DEF ReceiveChange, Become, requestVars
<1>3. /\ channel[w] # <<>> /\ channel' = [channel EXCEPT ![w] = Tail(@)]
      /\ UNCHANGED <<revision, runs, threadOf, accepted, queue, subscribers, turn, told, answered>>
  BY <1>2 DEF TakeChange
<1>4. channel' \in [Window -> Seq(Seq(Update))]
  BY <1>1, <1>3
<1>5. IInv'
  BY <1>1, <1>3, <1>4, ChannelShortened
<1>6. PastGoesOn
  BY <1>1, <1>2, <1>3, StreamIsOK, NothingNewTravels, NoUpdate DEF GoesOn, TurnsGoOn
<1>7. \A i \in DOMAIN replies[w] : replies[w][i] \in Reply
  BY <1>1
<1>8. replies' = [replies EXCEPT ![w] = [i \in DOMAIN replies[w] |-> Nearer(replies[w][i])]]
  BY <1>1, <1>2 DEF TakeChange
<1>9. ASSUME NEW v \in Window
      PROVE  /\ replies'[v] \in Seq(Reply)
             /\ DOMAIN replies'[v] = DOMAIN replies[v]
             /\ \A i \in DOMAIN replies[v] : replies'[v][i].state = replies[v][i].state
  <2>1. CASE v = w
    <3> DEFINE moved == [i \in DOMAIN replies[w] |-> Nearer(replies[w][i])]
    <3>1. \A i \in DOMAIN replies[w] : /\ moved[i] \in Reply
                                       /\ moved[i].state = replies[w][i].state
      BY <1>7 DEF Reply, Nearer
    <3>2. DOMAIN replies[w] = 1..Len(replies[w]) /\ Len(replies[w]) \in Nat
      BY <1>1
    <3>3. replies'[v] = moved
      BY <1>1, <1>8, <2>1
    <3>4. DOMAIN moved = DOMAIN replies[w]
      OBVIOUS
    <3>5. moved \in Seq(Reply)
      <4> DEFINE n == Len(replies[w])
      <4>1. moved = [i \in 1..n |-> Nearer(replies[w][i])] /\ n \in Nat
        BY <3>2
      <4>2. \A i \in 1..n : Nearer(replies[w][i]) \in Reply
        BY <3>1, <3>2
      <4> HIDE DEF n, moved
      <4> QED BY <4>1, <4>2
    <3> HIDE DEF moved
    <3> QED BY <2>1, <3>1, <3>3, <3>4, <3>5
  <2>2. CASE v # w
    BY <1>1, <1>8, <2>2
  <2> QED BY <2>1, <2>2
<1>10. replies' \in [Window -> Seq(Reply)]
  BY <1>1, <1>8, <1>9
<1>11. ASSUME NEW h \in Tables, Past(h), \A q \in Snapshots : Shows(h, q)
       PROVE  Trusted(h, ApplyChange(w, change).state)
  <2>1. 1 \in DOMAIN channel[w] /\ change = channel[w][1] /\ change \in Seq(Update)
    BY <1>1, <1>3
  <2>2. ASSUME NEW i \in 1..Len(change) PROVE Leads(h, change[i])
    <3>1. change[i] \in Travelling
      BY <2>1 DEF Travelling
    <3> QED BY <1>11, <3>1 DEF Past
  <2>3. Trusted(h, replica[w])
    BY <1>1, <1>11, ReplicaTrusted
  <2> HIDE DEF change
  <2> QED BY <1>1, <2>1, <2>2, <2>3, ApplyChangeTrusted
<1> HIDE DEF change
<1> QED BY <1>2, <1>5, <1>6, <1>9, <1>10, <1>11, ReplicaKeeps

\* A Composer shows a run again.
LEMMA ObserveKeeps ==
    ASSUME ReplicationIInv, NEW w \in Window, NEW t \in Thread, NEW run, NEW n, Observe(w, t, run, n)
    PROVE  ReplicationIInv'
<1>1. IInv /\ MessagesOK
  BY DEF ReplicationIInv
<1>2. UNCHANGED vars /\ sends' = sends /\ replies' = replies
  BY DEF Observe, requestVars, syncVars
<1>3. replica' = [replica EXCEPT ![w] = replica[w]]
  <2> DEFINE c == Client(w)
             bound == [c EXCEPT !.observer[t] = run.id, !.delivered[run.id] = Larger(@, n)]
  <2>1. "state" \in DOMAIN c /\ c.state = replica[w]
    BY DEF Client
  <2>2. replica' = [replica EXCEPT ![w] = DeliverSnapshot(bound, {run}).state]
    BY DEF Observe, Become
  <2> HIDE DEF c
  <2>3. "state" \in DOMAIN bound /\ bound.state = replica[w]
    BY <2>1
  <2> HIDE DEF bound
  <2>4. DeliverSnapshot(bound, {run}).state = replica[w]
    BY <2>3 DEF DeliverSnapshot
  <2> QED BY <2>2, <2>4
<1>4. replica' = replica
  BY <1>1, <1>3 DEF MessagesOK
<1> QED BY <1>1, <1>2, <1>4, AuthorityStays, AuthorityGoesOn

\* A window is closed.
LEMMA CloseKeeps ==
    ASSUME ReplicationIInv, NEW w \in Window, Close(w)
    PROVE  ReplicationIInv'
<1>1. /\ IInv /\ MessagesOK /\ replies \in [Window -> Seq(Reply)]
      /\ channel \in [Window -> Seq(Seq(Update))]
  BY DEF ReplicationIInv, MessagesOK, IInv, TypeOK
<1>2. /\ UNCHANGED <<revision, runs, threadOf, accepted, queue, turn, told, answered>> /\ sends' = sends
      /\ channel' = [channel EXCEPT ![w] = <<>>] /\ subscribers' = subscribers \ {w}
      /\ replica' = [replica EXCEPT ![w] = NoState] /\ replies' = [replies EXCEPT ![w] = <<>>]
  BY DEF Close
<1>3. IInv'
  BY <1>1, <1>2, ChannelShortened
<1>4. PastGoesOn
  BY <1>1, <1>2, StreamIsOK, NothingNewTravels, NoUpdate DEF GoesOn, TurnsGoOn
<1>5. replies' \in [Window -> Seq(Reply)]
  BY <1>1, <1>2
<1>6. \A v \in Window : \A i \in DOMAIN replies'[v] :
         \E j \in DOMAIN replies[v] : replies'[v][i].state = replies[v][j].state
  BY <1>1, <1>2, RepliesComeFrom
<1>7. \A h \in Tables : Trusted(h, NoState)
  BY DEF Trusted
<1> QED BY <1>2, <1>3, <1>4, <1>5, <1>6, <1>7, ReplicaKeeps

-----------------------------------------------------------------------------
(* The shape of what the windows hold *)

ClientType ==
    [state : State \cup {NoState}, ok : BOOLEAN, delivered : [RunId -> Nat],
     pending : SUBSET (RunId \X Thread), busy : SUBSET Thread, observer : [Thread -> RunId \cup {NoId}],
     holes : SUBSET RunId, stored : [RunId -> Nat]]

\* A run that has a target is heard by the message of some run.
LEMMA HeardIsRun ==
    ASSUME NEW c \in ClientType, NEW run \in Run, HasTarget(c, run)
    PROVE  Heard(c, run) \in RunId
<1>1. run.id \in RunId /\ run.thread \in Thread /\ c.observer \in [Thread -> RunId \cup {NoId}]
  BY DEF ClientType, Run
<1> QED BY <1>1 DEF Heard, HasTarget

LEMMA DeliverEventType ==
    ASSUME NEW c \in ClientType, NEW run \in Run
    PROVE  DeliverEvent(c, run) \in ClientType
<1>1. CASE ~Due(c, run)
  BY <1>1 DEF DeliverEvent
<1>2. CASE Due(c, run)
  <2> DEFINE m == Heard(c, run)
             n == Larger(c.stored[m], run.count)
             left == IF Ends(c, run) THEN c.pending \ {<<run.id, run.thread>>} ELSE c.pending
             rest == IF Ends(c, run) THEN c.busy \ {run.thread} ELSE c.busy
             done == [c EXCEPT !.delivered[run.id] = run.count, !.stored[m] = n, !.pending = left, !.busy = rest]
  <2>1. run.id \in RunId /\ run.count \in Nat /\ m \in RunId
    BY <1>2, HeardIsRun DEF Run, Due
  <2> HIDE DEF m
  <2>2. n \in Nat /\ left \in SUBSET (RunId \X Thread) /\ rest \in SUBSET Thread
    BY <2>1 DEF Larger, ClientType
  <2>3. Delivered(c, run) = done
    BY DEF Delivered, m
  <2> HIDE DEF n, left, rest
  <2>4. done \in ClientType
    BY <2>1, <2>2 DEF ClientType
  <2> HIDE DEF done
  <2>5. PICK hs \in {done.holes, done.holes \cup {run.id}} : DeliverEvent(c, run) = [done EXCEPT !.holes = hs]
    BY <1>2, <2>3 DEF DeliverEvent
  <2>6. hs \in SUBSET RunId
    BY <2>1, <2>4 DEF ClientType
  <2> QED BY <2>4, <2>5, <2>6 DEF ClientType
<1> QED BY <1>1, <1>2

LEMMA ApplyUpdateType ==
    ASSUME NEW c \in ClientType, NEW u \in Update, u.event => u.run # NoRun
    PROVE  ApplyUpdate(c, u) \in ClientType
<1> DEFINE seen == c.state # NoState /\ u.revision <= c.state.revision
           next == c.state # NoState /\ u.base = c.state.revision
           left == IF u.gone = NoId THEN c ELSE [c EXCEPT !.delivered[u.gone] = 0]
           state == [revision |-> u.revision, runs |-> Applied(c.state.runs, u), bare |-> c.state.bare \ {u.gone}]
           moved == [left EXCEPT !.state = state]
<1>1. CASE ~c.ok \/ seen
  BY <1>1 DEF ApplyUpdate
<1>2. CASE c.ok /\ ~seen /\ ~next
  <2>1. ApplyUpdate(c, u) = [c EXCEPT !.ok = FALSE]
    BY <1>2 DEF ApplyUpdate
  <2> QED BY <2>1 DEF ClientType
<1>3. CASE c.ok /\ ~seen /\ next
  <2>1. ApplyUpdate(c, u) = IF u.event THEN DeliverEvent(moved, u.run) ELSE moved
    BY <1>3 DEF ApplyUpdate
  <2>2. state \in State
    <3>1. c.state \in State
      BY <1>3 DEF ClientType
    <3>2. c.state.runs \in RunTable /\ c.state.bare \in SUBSET RunId /\ u.revision \in Nat
      BY <3>1 DEF State, Update
    <3>3. Applied(c.state.runs, u) \in RunTable
      BY <3>2, AppliedIsTable DEF RunTable
    <3> QED BY <3>2, <3>3 DEF State
  <2> HIDE DEF state
  <2>3. left \in ClientType
    BY DEF ClientType, Update
  <2> HIDE DEF left
  <2>4. moved \in ClientType
    BY <2>2, <2>3 DEF ClientType
  <2> HIDE DEF moved
  <2>5. u.event => u.run \in Run
    BY DEF Update
  <2> QED BY <2>1, <2>4, <2>5, DeliverEventType
<1> QED BY <1>1, <1>2, <1>3

LEMMA ApplyChangeType ==
    ASSUME NEW w, Client(w) \in ClientType, NEW change \in Seq(Update),
           \A i \in 1..Len(change) : change[i].event => change[i].run # NoRun
    PROVE  ApplyChange(w, change) \in ClientType
<1>1. PICK f : Steps(f, w, change) /\ ApplyChange(w, change) = f[Len(change)]
  BY ApplyChangeSteps
<1>2. f[0] = Client(w) /\ \A n \in 1..Len(change) : f[n] = ApplyUpdate(f[n - 1], change[n])
  BY <1>1 DEF Steps
<1> DEFINE T == {n \in 0..Len(change) : f[n] \notin ClientType}
<1>3. ASSUME NEW n \in 1..Len(change), f[n - 1] \in ClientType
      PROVE  f[n] \in ClientType
  <2>1. change[n] \in Update
    OBVIOUS
  <2> QED BY <1>2, <1>3, <2>1, ApplyUpdateType
<1>4. T = {}
  <2> SUFFICES ASSUME T # {} PROVE FALSE
    OBVIOUS
  <2>1. T \subseteq Nat
    OBVIOUS
  <2>2. PICK n \in T : \A m \in T : n <= m
    <3> HIDE DEF T
    <3> QED BY <2>1, LeastNumber
  <2>3. n \in 1..Len(change) /\ n - 1 \in 0..Len(change) /\ n - 1 \notin T
    BY <1>2, <2>2
  <2> QED BY <1>3, <2>2, <2>3
<1>5. f[Len(change)] \in ClientType
  BY <1>4
<1> QED BY <1>1, <1>5

\* The largest of a number and of the counts of finitely many runs is a number.
LEMMA LargestCount ==
    ASSUME NEW n \in Nat, NEW heard \in RunTable
    PROVE  Max({n} \cup {run.count : run \in heard}) \in Nat
<1> DEFINE counts == {run.count : run \in heard}
           f == [run \in heard |-> run.count]
<1>1. counts \subseteq Nat
  BY DEF RunTable, Run
<1>2. IsFiniteSet({f[run] : run \in heard})
  <2>1. IsFiniteSet(heard) /\ DOMAIN f = heard /\ f = [run \in heard |-> f[run]]
    BY DEF RunTable
  <2> HIDE DEF f
  <2> QED BY <2>1, FiniteValues
<1>3. {f[run] : run \in heard} = counts
  OBVIOUS
<1> HIDE DEF counts, f
<1>4. IsFiniteSet({n} \cup counts)
  BY <1>2, <1>3, FS_Singleton, FS_Union
<1> DEFINE all == {n} \cup counts
<1>5. all \subseteq Nat /\ all # {} /\ IsFiniteSet(all)
  BY <1>1, <1>4
<1> HIDE DEF all
<1>6. Max(all) \in Nat
  BY <1>5, GreatestNumber
<1> QED BY <1>6 DEF all, counts

LEMMA DeliverSnapshotType ==
    ASSUME NEW c \in ClientType, NEW shown \in RunTable
    PROVE  DeliverSnapshot(c, shown) \in ClientType
<1> DEFINE due == {run \in shown : Due(c, run)}
           full == {run \in due : run.id \notin c.state.bare}
           heard(r) == {run \in due : Heard(c, run) = r}
           d == [r \in RunId |-> IF \E run \in due : run.id = r THEN (CHOOSE run \in due : run.id = r).count
                                 ELSE c.delivered[r]]
           s == [r \in RunId |-> Max({c.stored[r]} \cup {run.count : run \in heard(r)})]
           ended == {run \in full : Ends(c, run)}
           p == c.pending \ {<<run.id, run.thread>> : run \in ended}
           b == c.busy \ {run.thread : run \in ended}
           hs == c.holes \cup {run.id : run \in due \ full}
<1>1. /\ c.delivered \in [RunId -> Nat] /\ c.stored \in [RunId -> Nat]
      /\ c.pending \in SUBSET (RunId \X Thread) /\ c.busy \in SUBSET Thread /\ c.holes \in SUBSET RunId
  BY DEF ClientType
<1>2. \A run \in due : run \in Run /\ run.id \in RunId /\ run.count \in Nat
  BY DEF RunTable, Run
<1>3. d \in [RunId -> Nat]
  <2> SUFFICES ASSUME NEW r \in RunId, \E run \in due : run.id = r
               PROVE  (CHOOSE run \in due : run.id = r).count \in Nat
    BY <1>1
  <2> HIDE DEF due
  <2>1. (CHOOSE run \in due : run.id = r) \in due
    OBVIOUS
  <2> QED BY <1>2, <2>1
<1>4. s \in [RunId -> Nat]
  <2> SUFFICES ASSUME NEW r \in RunId
               PROVE  Max({c.stored[r]} \cup {run.count : run \in heard(r)}) \in Nat
    OBVIOUS
  <2>1. heard(r) \in SUBSET shown
    OBVIOUS
  <2> HIDE DEF heard
  <2>2. heard(r) \in RunTable
    BY <2>1, FS_Subset DEF RunTable
  <2>3. c.stored[r] \in Nat
    BY <1>1
  <2> QED BY <2>2, <2>3, LargestCount
<1>5. p \in SUBSET (RunId \X Thread) /\ b \in SUBSET Thread
  BY <1>1
<1>6. hs \in SUBSET RunId
  <2> HIDE DEF due
  <2> QED BY <1>1, <1>2
<1>7. DeliverSnapshot(c, shown) = [c EXCEPT !.delivered = d, !.stored = s, !.pending = p, !.busy = b, !.holes = hs]
  BY DEF DeliverSnapshot
<1> HIDE DEF d, s, p, b, hs
<1>8. [c EXCEPT !.delivered = d, !.stored = s, !.pending = p, !.busy = b, !.holes = hs] \in ClientType
  BY <1>3, <1>4, <1>5, <1>6 DEF ClientType
<1> QED BY <1>7, <1>8

LEMMA ApplySnapshotType ==
    ASSUME NEW w, Client(w) \in ClientType, NEW s \in State
    PROVE  ApplySnapshot(w, s) \in ClientType
<1> DEFINE c == Client(w)
           known == {run.id : run \in s.runs}
           d == [r \in RunId |-> IF r \in known THEN c.delivered[r] ELSE 0]
           reset == [c EXCEPT !.state = s, !.delivered = d]
<1>1. ApplySnapshot(w, s) = c \/ ApplySnapshot(w, s) = DeliverSnapshot(reset, s.runs)
  BY DEF ApplySnapshot
<1> HIDE DEF c
<1>2. c \in ClientType
  BY DEF c
<1>3. d \in [RunId -> Nat]
  BY <1>2 DEF ClientType
<1> HIDE DEF d
<1>4. reset \in ClientType
  BY <1>2, <1>3 DEF ClientType
<1> HIDE DEF reset
<1>5. s.runs \in RunTable
  BY DEF State
<1> QED BY <1>1, <1>2, <1>4, <1>5, DeliverSnapshotType

\* What a window holds has that shape, and so has what it writes back.
ClientVarsOK ==
    /\ replica \in [Window -> State \cup {NoState}]
    /\ pending \in [Window -> SUBSET (RunId \X Thread)] /\ busy \in [Window -> SUBSET Thread]
    /\ observer \in [Window -> [Thread -> RunId \cup {NoId}]]
    /\ delivered \in [Window -> [RunId -> Nat]] /\ stored \in [RunId -> Nat]
    /\ holes \in [Window -> SUBSET RunId]

LEMMA BecomeType ==
    ASSUME ReplicationTypeOK, NEW w \in Window
    PROVE  /\ Client(w) \in ClientType
           /\ \A c \in ClientType : Become(w, c) => ClientVarsOK'
<1>1. Client(w) \in ClientType
  BY DEF ReplicationTypeOK, Client, ClientType
<1>2. ASSUME NEW c \in ClientType, Become(w, c)
      PROVE  ClientVarsOK'
  <2>1. /\ c.state \in State \cup {NoState} /\ c.delivered \in [RunId -> Nat] /\ c.stored \in [RunId -> Nat]
        /\ c.pending \in SUBSET (RunId \X Thread) /\ c.busy \in SUBSET Thread /\ c.observer \in [Thread -> RunId \cup {NoId}]
        /\ c.holes \in SUBSET RunId
    BY DEF ClientType
  <2>2. replica' \in [Window -> State \cup {NoState}]
    BY <1>2, <2>1 DEF Become, ReplicationTypeOK
  <2>3. pending' \in [Window -> SUBSET (RunId \X Thread)] /\ busy' \in [Window -> SUBSET Thread]
    BY <1>2, <2>1 DEF Become, ReplicationTypeOK
  <2>4. observer' \in [Window -> [Thread -> RunId \cup {NoId}]]
    BY <1>2, <2>1 DEF Become, ReplicationTypeOK
  <2>5. delivered' \in [Window -> [RunId -> Nat]] /\ stored' \in [RunId -> Nat]
    BY <1>2, <2>1 DEF Become, ReplicationTypeOK
  <2>6. holes' \in [Window -> SUBSET RunId]
    BY <1>2, <2>1 DEF Become, ReplicationTypeOK
  <2> QED BY <2>2, <2>3, <2>4, <2>5, <2>6 DEF ClientVarsOK
<1> QED BY <1>1, <1>2

\* The shape of the calls and the counters.
CallsOK ==
    /\ listening \subseteq Window /\ syncing \subseteq Window /\ resync \subseteq Window
    /\ calls \in [Window -> Seq({"subscribe", "unsubscribe"})]
    /\ results \subseteq [window : Window, thread : Thread, id : RunId, accepted : BOOLEAN]
    /\ closes \in 0..MaxCloses

LEMMA TypeParts == ReplicationTypeOK <=> MessagesOK /\ ClientVarsOK /\ CallsOK
  BY DEF ReplicationTypeOK, MessagesOK, ClientVarsOK, CallsOK

LEMMA SyncType ==
    ASSUME CallsOK, NEW w \in Window, Sync(w)
    PROVE  /\ syncing' \subseteq Window /\ resync' \subseteq Window
           /\ calls' \in [Window -> Seq({"subscribe", "unsubscribe"})]
<1>1. calls[w] \in Seq({"subscribe", "unsubscribe"})
  BY DEF CallsOK
<1>2. Append(calls[w], "subscribe") \in Seq({"subscribe", "unsubscribe"})
  BY <1>1
<1> QED BY <1>2 DEF CallsOK, Sync

\* Every step of a window leaves the calls in shape.
LEMMA CallsStep ==
    ASSUME MessagesOK, CallsOK, NEW w \in Window, WindowStep(w)
    PROVE  CallsOK'
<1>1. calls[w] \in Seq({"subscribe", "unsubscribe"})
  BY DEF CallsOK
<1>2. CASE Mount(w)
  BY <1>2, SyncType DEF Mount, CallsOK, requestVars
<1>3. CASE MountTwice(w)
  <2>1. <<"subscribe", "unsubscribe">> \in Seq({"subscribe", "unsubscribe"})
    OBVIOUS
  <2> QED BY <1>3, <2>1 DEF MountTwice, CallsOK, requestVars
<1>4. CASE HandleCall(w)
  <2>1. calls' = [calls EXCEPT ![w] = Tail(@)] /\ calls[w] # <<>>
        /\ UNCHANGED <<listening, syncing, resync, results, closes>>
    BY <1>4 DEF HandleCall, requestVars
  <2>2. Tail(calls[w]) \in Seq({"subscribe", "unsubscribe"})
    BY <1>1, <2>1
  <2> QED BY <2>1, <2>2 DEF CallsOK
<1>5. CASE ReceiveReply(w)
  <2>1. Append(calls[w], "subscribe") \in Seq({"subscribe", "unsubscribe"})
    BY <1>1
  <2> QED BY <1>5, <2>1 DEF ReceiveReply, CallsOK, requestVars
<1>6. CASE ReceiveChange(w)
  <2>1. Sync(w) \/ UNCHANGED <<syncing, resync, calls>>
    BY <1>6 DEF ReceiveChange
  <2>2. UNCHANGED <<listening, results, closes>>
    BY <1>6 DEF ReceiveChange, requestVars
  <2> QED BY <2>1, <2>2, SyncType DEF CallsOK
<1>7. CASE Close(w)
  <2>1. <<>> \in Seq({"subscribe", "unsubscribe"})
    OBVIOUS
  <2>2. calls' \in [Window -> Seq({"subscribe", "unsubscribe"})]
    BY <1>7, <2>1 DEF Close, CallsOK
  <2>3. closes' \in 0..MaxCloses
    BY <1>7, RunReplicationAssumption DEF Close, CallsOK
  <2> QED BY <1>7, <2>2, <2>3 DEF Close, CallsOK
<1>8. ASSUME NEW t \in Thread, NEW r \in RunId, BeginRequest(w, t, r)
      PROVE  CallsOK'
  BY <1>8 DEF BeginRequest, CallsOK, syncVars
<1>9. ASSUME NEW t \in Thread, Unobserve(w, t)
      PROVE  CallsOK'
  BY <1>9 DEF Unobserve, CallsOK, syncVars, requestVars
<1>10. ASSUME NEW t \in Thread, NEW n, NEW run, Observe(w, t, run, n)
       PROVE  CallsOK'
  BY <1>10 DEF Observe, CallsOK, syncVars, requestVars
<1> QED BY <1>2, <1>3, <1>4, <1>5, <1>6, <1>7, <1>8, <1>9, <1>10 DEF WindowStep

\* Every step of a window leaves what it holds in shape.
LEMMA ClientStep ==
    ASSUME ReplicationIInv, ReplicationTypeOK, NEW w \in Window, WindowStep(w)
    PROVE  ClientVarsOK'
<1>1. ClientVarsOK /\ MessagesOK /\ Client(w) \in ClientType
  BY TypeParts, BecomeType
<1>2. CASE UNCHANGED clientVars
  BY <1>1, <1>2 DEF ClientVarsOK, clientVars
<1>3. CASE ReceiveReply(w)
  <2> DEFINE s == Head(replies[w]).state
  <2>1. s \in State
    <3>1. replies[w] \in Seq(Reply) /\ replies[w] # <<>>
      BY <1>1, <1>3 DEF MessagesOK, ReceiveReply
    <3>2. Head(replies[w]) \in Reply
      BY <3>1
    <3> QED BY <3>2 DEF Reply
  <2>2. Become(w, ApplySnapshot(w, s))
    BY <1>3 DEF ReceiveReply
  <2> HIDE DEF s
  <2> QED BY <1>1, <2>1, <2>2, ApplySnapshotType, BecomeType
<1>4. CASE ReceiveChange(w)
  <2> DEFINE change == Head(channel[w])
  <2>1. Become(w, ApplyChange(w, change)) /\ channel[w] # <<>>
    BY <1>4 DEF ReceiveChange, TakeChange
  <2>2. channel[w] \in Seq(Seq(Update))
    BY DEF ReplicationIInv, IInv, TypeOK
  <2>3. 1 \in DOMAIN channel[w] /\ change = channel[w][1] /\ change \in Seq(Update)
    BY <2>1, <2>2
  <2>4. PICK h \in Tables : Past(h)
    BY DEF ReplicationIInv
  <2>5. ASSUME NEW i \in 1..Len(change)
        PROVE  change[i].event => change[i].run # NoRun
    <3>1. change[i] \in Travelling
      BY <2>3 DEF Travelling
    <3> QED BY <2>4, <3>1 DEF Past, Leads
  <2> HIDE DEF change
  <2> QED BY <1>1, <2>1, <2>3, <2>5, ApplyChangeType, BecomeType
<1>5. CASE Close(w)
  <2>1. /\ replica' \in [Window -> State \cup {NoState}] /\ pending' \in [Window -> SUBSET (RunId \X Thread)]
        /\ busy' \in [Window -> SUBSET Thread]
        /\ observer' \in [Window -> [Thread -> RunId \cup {NoId}]] /\ delivered' \in [Window -> [RunId -> Nat]]
        /\ holes' \in [Window -> SUBSET RunId]
    BY <1>1, <1>5 DEF Close, ClientVarsOK
  <2>2. ASSUME NEW r \in RunId
        PROVE  Max({delivered[v][r] : v \in Window \ {w}} \cup {0}) \in Nat
    <3> DEFINE others == Window \ {w}
               f == [v \in others |-> delivered[v][r]]
               counts == {f[v] : v \in others}
               all == counts \cup {0}
    <3>1. IsFiniteSet(others)
      BY FS_RemoveElement, RunReplicationAssumption
    <3>2. DOMAIN f = others /\ f = [v \in others |-> f[v]] /\ counts = {delivered[v][r] : v \in Window \ {w}}
      OBVIOUS
    <3>3. \A v \in others : f[v] \in Nat
      BY <1>1 DEF ClientVarsOK
    <3> HIDE DEF f, others
    <3>4. counts \subseteq Nat /\ IsFiniteSet(counts)
      BY <3>1, <3>2, <3>3, FiniteValues
    <3> HIDE DEF counts
    <3>5. all \subseteq Nat /\ all # {} /\ IsFiniteSet(all)
      BY <3>4, FS_AddElement
    <3> HIDE DEF all
    <3>6. Max(all) \in Nat
      BY <3>5, GreatestNumber
    <3> QED BY <3>2, <3>6 DEF all
  <2>3. stored' \in [RunId -> Nat]
    <3>1. CASE stored' = stored
      BY <1>1, <3>1 DEF ClientVarsOK
    <3>2. CASE stored' = [r \in RunId |-> IF Known(r) THEN Max({delivered[v][r] : v \in Window \ {w}} \cup {0})
                                          ELSE stored[r]]
      <4>1. \A r \in RunId : stored[r] \in Nat
        BY <1>1 DEF ClientVarsOK
      <4> QED BY <2>2, <3>2, <4>1
    <3> QED BY <1>5, <3>1, <3>2 DEF Close
  <2> QED BY <2>1, <2>3 DEF ClientVarsOK
<1>6. ASSUME NEW t \in Thread, NEW r \in RunId, BeginRequest(w, t, r)
      PROVE  ClientVarsOK'
  BY <1>1, <1>6 DEF BeginRequest, ClientVarsOK
<1>7. ASSUME NEW t \in Thread, Unobserve(w, t)
      PROVE  ClientVarsOK'
  BY <1>1, <1>7 DEF Unobserve, ClientVarsOK
<1>8. ASSUME NEW t \in Thread, NEW n \in 0..(MaxEvents + 2), NEW run \in replica[w].runs, Observe(w, t, run, n)
      PROVE  ClientVarsOK'
  <2> DEFINE c == Client(w)
             m == Larger(c.delivered[run.id], n)
             bound == [c EXCEPT !.observer[t] = run.id, !.delivered[run.id] = m]
  <2>1. run \in Run /\ {run} \in RunTable /\ run.id \in RunId
    <3>1. replica[w] \in State
      BY <1>1, <1>8 DEF Observe, MessagesOK
    <3>2. replica[w].runs \in SUBSET Run
      BY <3>1 DEF State, RunTable
    <3> QED BY <3>2, <1>8, FS_Singleton DEF RunTable, Run
  <2>2. Become(w, DeliverSnapshot(bound, {run}))
    BY <1>8 DEF Observe
  <2> HIDE DEF c
  <2>3. c \in ClientType
    BY <1>1 DEF c
  <2>4. m \in Nat
    <3>1. n \in Nat
      BY RunAuthorityAssumption
    <3> QED BY <2>1, <2>3, <3>1 DEF Larger, ClientType
  <2> HIDE DEF m
  <2>5. bound \in ClientType
    BY <2>1, <2>3, <2>4 DEF ClientType
  <2> HIDE DEF bound
  <2> QED BY <2>1, <2>2, <2>5, DeliverSnapshotType, BecomeType
<1>9. Mount(w) \/ MountTwice(w) \/ HandleCall(w) => UNCHANGED clientVars
  BY DEF Mount, MountTwice, HandleCall
<1> QED BY <1>2, <1>3, <1>4, <1>5, <1>6, <1>7, <1>8, <1>9 DEF WindowStep

LEMMA ReplicationTypeStep ==
    ReplicationIInv /\ ReplicationIInv' /\ ReplicationTypeOK /\ [ReplicationNext]_allVars => ReplicationTypeOK'
<1> SUFFICES ASSUME ReplicationIInv, ReplicationIInv', ReplicationTypeOK, [ReplicationNext]_allVars
             PROVE  ReplicationTypeOK'
  OBVIOUS
<1>1. MessagesOK /\ MessagesOK' /\ ClientVarsOK /\ CallsOK
  BY TypeParts DEF ReplicationIInv
<1>2. CASE UNCHANGED windowVars
  BY <1>2 DEF windowVars, syncVars, requestVars, clientVars, ReplicationTypeOK
<1>3. ASSUME NEW w \in Window, WindowStep(w)
      PROVE  ClientVarsOK' /\ CallsOK'
  BY <1>1, <1>3, CallsStep, ClientStep
<1>4. ASSUME NEW s \in sends, HandleSend(s)
      PROVE  ClientVarsOK' /\ CallsOK'
  <2>1. s.window \in Window /\ s.thread \in Thread /\ s.id \in RunId
    BY <1>1 DEF MessagesOK
  <2>2. \A b \in BOOLEAN : [window |-> s.window, thread |-> s.thread, id |-> s.id, accepted |-> b]
                            \in [window : Window, thread : Thread, id : RunId, accepted : BOOLEAN]
    BY <2>1
  <2>3. PICK b \in BOOLEAN : results' = results \cup
                              {[window |-> s.window, thread |-> s.thread, id |-> s.id, accepted |-> b]}
    BY <1>4 DEF HandleSend
  <2>4. results' \subseteq [window : Window, thread : Thread, id : RunId, accepted : BOOLEAN]
    BY <1>1, <2>2, <2>3 DEF CallsOK
  <2> QED BY <1>1, <1>4, <2>4 DEF HandleSend, ClientVarsOK, CallsOK, clientVars, syncVars
<1>5. ASSUME NEW s \in results, ReceiveResult(s)
      PROVE  ClientVarsOK' /\ CallsOK'
  <2>1. s.window \in Window
    BY <1>1 DEF CallsOK
  <2>2. pending' \in [Window -> SUBSET (RunId \X Thread)] /\ busy' \in [Window -> SUBSET Thread]
    <3>1. CASE ~s.accepted /\ <<s.id, s.thread>> \in pending[s.window]
      <4>1. /\ pending' = [pending EXCEPT ![s.window] = @ \ {<<s.id, s.thread>>}]
            /\ busy' = [busy EXCEPT ![s.window] = @ \ {s.thread}]
        BY <1>5, <3>1 DEF ReceiveResult
      <4>2. pending \in [Window -> SUBSET (RunId \X Thread)] /\ busy \in [Window -> SUBSET Thread]
        BY <1>1 DEF ClientVarsOK
      <4>3. /\ pending[s.window] \ {<<s.id, s.thread>>} \in SUBSET (RunId \X Thread)
            /\ busy[s.window] \ {s.thread} \in SUBSET Thread
        BY <2>1, <4>2
      <4> QED BY <2>1, <4>1, <4>2, <4>3
    <3>2. CASE ~(~s.accepted /\ <<s.id, s.thread>> \in pending[s.window])
      BY <1>1, <1>5, <3>2 DEF ReceiveResult, ClientVarsOK
    <3> QED BY <3>1, <3>2
  <2> QED BY <1>1, <1>5, <2>2 DEF ReceiveResult, ClientVarsOK, CallsOK, syncVars
<1>6. ClientVarsOK' /\ CallsOK' => ReplicationTypeOK'
  BY <1>1 DEF ReplicationTypeOK, MessagesOK, ClientVarsOK, CallsOK
<1>7. AuthorityStep \/ UNCHANGED allVars => UNCHANGED windowVars
  BY DEF AuthorityStep, allVars
<1> QED BY <1>2, <1>3, <1>4, <1>5, <1>6, <1>7 DEF ReplicationNext

-----------------------------------------------------------------------------
(***************************************************************************)
(* No event is missed.  A window counts what it delivered; the argument    *)
(* ties the count of every run somebody takes events of to the count of    *)
(* that run in the replica, so that the next event is the one after it.    *)
(***************************************************************************)

\* Two runs of a table have neither an id nor a thread in common.
Plain(table) == \A x, y \in table : x.id = y.id \/ x.thread = y.thread => x = y

\* The runs of a table were sent, by the turns T.
Sent(T, table) == \A run \in table : T[run.id] # "unused"

\* A snapshot is whole.
Sound(T, s) == Plain(s.runs) /\ Sent(T, s.runs) /\ s.bare = {}

\* What is shown of a run that has a target was delivered to it.
Shown(c, run) == HasTarget(c, run) => c.delivered[run.id] >= run.count

\* A window missed nothing, and shows whole runs that are delivered as far as
\* they are shown.
Complete(T, c) ==
    /\ c.holes = {}
    /\ c.state # NoState => Sound(T, c.state) /\ \A run \in c.state.runs : Shown(c, run)

\* The inductive invariant.
EventsIInv ==
    /\ \A w \in Window : \A i \in DOMAIN replies[w] : Sound(turn, replies[w][i].state)
    /\ \A w \in Window : Complete(turn, Client(w))

\* An update leaves plain tables plain.
LEMMA AppliedSound ==
    ASSUME NEW T, NEW table \in SUBSET Run, NEW u \in Update, Follows(table, u), Plain(table), Sent(T, table),
           u.run # NoRun => T[u.run.id] # "unused"
    PROVE  Plain(Applied(table, u)) /\ Sent(T, Applied(table, u))
<1>1. CASE u.run = NoRun
  BY <1>1 DEF Applied, Plain, Sent
<1>2. CASE u.run # NoRun
  <2>1. \A x \in Applied(table, u) : x = u.run \/ (x \in table /\ x.id # u.gone /\ x.id # u.run.id)
    BY <1>2 DEF Applied
  <2>2. \A x \in table : x.thread = u.run.thread => x.id \in {u.run.id, u.gone}
    BY <1>2 DEF Follows
  <2> QED BY <1>2, <2>1, <2>2 DEF Plain, Sent
<1> QED BY <1>1, <1>2

\* A window that holds the same of a run, and has no new target for one that
\* was sent, is as complete as before.
LEMMA StaysComplete ==
    ASSUME NEW T, NEW U, \A r \in RunId : T[r] # "unused" => U[r] # "unused",
           NEW c, c.state \in State \cup {NoState}, Complete(T, c),
           NEW d, d.state = c.state, d.delivered = c.delivered, d.holes = c.holes,
           \A run \in Run : T[run.id] # "unused" /\ HasTarget(d, run) => HasTarget(c, run)
    PROVE  Complete(U, d)
<1>1. CASE c.state = NoState
  BY <1>1 DEF Complete
<1>2. CASE c.state # NoState
  <2>1. c.state.runs \in SUBSET Run
    BY <1>2 DEF State, RunTable
  <2>2. \A run \in c.state.runs : run \in Run /\ run.id \in RunId
    BY <2>1 DEF Run
  <2>3. Sound(T, c.state) /\ \A run \in c.state.runs : Shown(c, run)
    BY <1>2 DEF Complete
  <2>4. Sound(U, d.state)
    BY <2>2, <2>3 DEF Sound, Sent
  <2>5. \A run \in d.state.runs : Shown(d, run)
    BY <2>2, <2>3 DEF Shown, Sound, Sent
  <2> QED BY <2>4, <2>5 DEF Complete
<1> QED BY <1>1, <1>2

\* Delivering the last event of a run completes what is shown.
LEMMA DeliverEventComplete ==
    ASSUME NEW T, NEW c \in ClientType, c.state \in State, Sound(T, c.state), c.holes = {},
           NEW run \in c.state.runs,
           \A x \in c.state.runs : x # run => Shown(c, x),
           HasTarget(c, run) => run.status = "failed" \/ c.delivered[run.id] + 1 >= run.count
    PROVE  Complete(T, DeliverEvent(c, run))
<1>1. run \in Run /\ run.id \in RunId /\ run.count \in Nat /\ c.delivered[run.id] \in Nat
  <2>1. c.state.runs \in SUBSET Run /\ c.delivered \in [RunId -> Nat]
    BY DEF State, RunTable, ClientType
  <2>2. run \in Run
    BY <2>1
  <2>3. run.id \in RunId /\ run.count \in Nat
    BY <2>2 DEF Run
  <2> QED BY <2>1, <2>2, <2>3
<1>2. CASE ~Due(c, run)
  <2>1. DeliverEvent(c, run) = c
    BY <1>2 DEF DeliverEvent
  <2>2. Shown(c, run)
    BY <1>1, <1>2 DEF Due, Shown
  <2> QED BY <2>1, <2>2 DEF Complete
<1>3. CASE Due(c, run)
  <2> DEFINE d == DeliverEvent(c, run)
             m == Heard(c, run)
             n == Larger(c.stored[m], run.count)
             left == IF Ends(c, run) THEN c.pending \ {<<run.id, run.thread>>} ELSE c.pending
             rest == IF Ends(c, run) THEN c.busy \ {run.thread} ELSE c.busy
             counts == [c.delivered EXCEPT ![run.id] = run.count]
             done == [c EXCEPT !.delivered = counts, !.stored[m] = n, !.pending = left, !.busy = rest]
  <2>1. c.delivered[run.id] + 1 = run.count \/ run.status = "failed"
    BY <1>1, <1>3 DEF Due
  <2>2. left \subseteq c.pending
    OBVIOUS
  <2>3. Delivered(c, run) = done
    BY DEF Delivered
  <2>4. counts[run.id] = run.count /\ \A r \in RunId : r # run.id => counts[r] = c.delivered[r]
    BY <1>1 DEF ClientType
  <2> HIDE DEF n, left, rest, counts, m
  <2>5. /\ done.state = c.state /\ done.holes = c.holes /\ done.delivered = counts /\ done.pending = left
        /\ done.observer = c.observer
        /\ [done EXCEPT !.holes = done.holes] = done
    BY DEF ClientType
  <2>6. d = [done EXCEPT !.holes = done.holes]
    BY <1>3, <2>1, <2>3 DEF DeliverEvent
  <2> HIDE DEF d, done
  <2>7. d.state = c.state /\ d.holes = {} /\ d.delivered = counts /\ d.pending = left /\ d.observer = c.observer
    BY <2>5, <2>6
  <2>8. ASSUME NEW x \in c.state.runs
        PROVE  Shown(d, x)
    <3>1. CASE x = run
      BY <1>1, <2>4, <2>7, <3>1 DEF Shown
    <3>2. CASE x # run
      <4>1. x.id # run.id /\ x.id \in RunId
        <5>1. x \in Run
          BY DEF State, RunTable
        <5> QED BY <3>2, <5>1 DEF Sound, Plain, Run
      <4>2. HasTarget(d, x) => HasTarget(c, x)
        BY <2>2, <2>7 DEF HasTarget
      <4> QED BY <2>4, <2>7, <3>2, <4>1, <4>2 DEF Shown
    <3> QED BY <3>1, <3>2
  <2>9. Complete(T, d)
    BY <2>7, <2>8 DEF Complete
  <2> QED BY <2>9 DEF d
<1> QED BY <1>2, <1>3

\* An update that extends the replica leaves it complete.
LEMMA ApplyUpdateComplete ==
    ASSUME NEW h, NEW c \in ClientType, NEW u \in Update, Leads(h, u), Trusted(h, c.state), Complete(turn, c)
    PROVE  Complete(turn, ApplyUpdate(c, u))
<1> DEFINE seen == c.state # NoState /\ u.revision <= c.state.revision
           next == c.state # NoState /\ u.base = c.state.revision
           left == IF u.gone = NoId THEN c ELSE [c EXCEPT !.delivered[u.gone] = 0]
           state == [revision |-> u.revision, runs |-> Applied(c.state.runs, u), bare |-> c.state.bare \ {u.gone}]
           moved == [left EXCEPT !.state = state]
<1>1. CASE ~c.ok \/ seen
  BY <1>1 DEF ApplyUpdate
<1>2. CASE c.ok /\ ~seen /\ ~next
  <2> DEFINE d == [c EXCEPT !.ok = FALSE]
  <2>1. ApplyUpdate(c, u) = d
    BY <1>2 DEF ApplyUpdate
  <2>2. /\ d.state = c.state /\ d.delivered = c.delivered /\ d.holes = c.holes
        /\ d.pending = c.pending /\ d.observer = c.observer
    BY DEF ClientType
  <2> HIDE DEF d
  <2>3. \A run \in Run : HasTarget(d, run) => HasTarget(c, run)
    BY <2>2 DEF HasTarget
  <2>4. c.state \in State \cup {NoState}
    BY DEF ClientType
  <2> QED BY <2>1, <2>2, <2>3, <2>4, StaysComplete
<1>3. CASE c.ok /\ ~seen /\ next
  <2>1. ApplyUpdate(c, u) = IF u.event THEN DeliverEvent(moved, u.run) ELSE moved
    BY <1>3 DEF ApplyUpdate
  <2>2. /\ c.state \in State /\ c.state.runs \in SUBSET Run /\ c.state.bare = {}
        /\ Sound(turn, c.state) /\ c.holes = {} /\ \A run \in c.state.runs : Shown(c, run)
        /\ Follows(c.state.runs, u) /\ (u.run # NoRun => turn[u.run.id] # "unused") /\ (u.event => u.run # NoRun)
    <3>1. c.state # NoState /\ c.state \in State
      BY <1>3 DEF ClientType
    <3>2. c.state.runs = h[u.base]
      BY <1>3, <3>1 DEF Trusted, Shows
    <3> QED BY <3>1, <3>2 DEF Complete, Sound, Leads, UpdateSent, State, RunTable
  <2>3. state \in State /\ Sound(turn, state) /\ state.runs = Applied(c.state.runs, u)
    <3>1. Applied(c.state.runs, u) \in RunTable
      BY <2>2, AppliedIsTable DEF State, RunTable
    <3>2. Plain(Applied(c.state.runs, u)) /\ Sent(turn, Applied(c.state.runs, u))
      BY <2>2, AppliedSound DEF Sound
    <3>3. c.state.bare \ {u.gone} = {} /\ u.revision \in Nat
      BY <2>2 DEF Update
    <3> QED BY <3>1, <3>2, <3>3 DEF State, Sound
  <2> HIDE DEF state
  <2>4. /\ left \in ClientType /\ left.holes = {} /\ left.pending = c.pending /\ left.observer = c.observer
        /\ \A r \in RunId : r # u.gone => left.delivered[r] = c.delivered[r]
    <3>1. CASE u.gone = NoId
      BY <2>2, <3>1
    <3>2. CASE u.gone # NoId
      <4>1. u.gone \in RunId /\ left = [c EXCEPT !.delivered[u.gone] = 0]
        BY <3>2 DEF Update
      <4> HIDE DEF left
      <4> QED BY <2>2, <4>1 DEF ClientType
    <3> QED BY <3>1, <3>2
  <2> HIDE DEF left
  <2>5. /\ moved \in ClientType /\ moved.state = state /\ moved.holes = {}
        /\ moved.pending = c.pending /\ moved.observer = c.observer
        /\ \A r \in RunId : r # u.gone => moved.delivered[r] = c.delivered[r]
    BY <2>3, <2>4 DEF ClientType
  <2> HIDE DEF moved
  <2>6. ASSUME NEW x \in c.state.runs, x.id # u.gone
        PROVE  Shown(moved, x)
    <3>1. x.id \in RunId
      BY <2>2 DEF Run
    <3> QED BY <2>2, <2>5, <2>6, <3>1 DEF Shown, HasTarget
  <2>7. CASE u.run = NoRun
    <3>1. \A x \in state.runs : x \in c.state.runs /\ x.id # u.gone
      BY <2>3, <2>7 DEF Applied
    <3>2. ApplyUpdate(c, u) = moved
      BY <2>1, <2>2, <2>7
    <3> QED BY <2>3, <2>5, <2>6, <3>1, <3>2 DEF Complete
  <2>8. CASE u.run # NoRun
    <3> DEFINE run == u.run
    <3>1. /\ run \in Run /\ run.id \in RunId /\ run.count \in Nat /\ run.id # u.gone
          /\ moved.delivered[run.id] = c.delivered[run.id] /\ c.delivered[run.id] \in Nat
      <4>1. run \in Run
        BY <2>8 DEF Update
      <4>2. run.id \in RunId /\ run.count \in Nat
        BY <4>1 DEF Run
      <4>3. run.id # u.gone
        BY <2>2, <2>8 DEF Follows
      <4> QED BY <2>5, <4>1, <4>2, <4>3 DEF ClientType
    <3>2. \A x \in state.runs : x = run \/ (x \in c.state.runs /\ x.id # u.gone)
      BY <2>3, <2>8 DEF Applied
    <3>3. run \in state.runs
      BY <2>3, <2>8 DEF Applied
    <3>4. ASSUME NEW y \in c.state.runs, y.id = run.id, HasTarget(moved, run)
          PROVE  c.delivered[run.id] >= y.count
      <4>1. y.thread = run.thread
        BY <2>2, <2>8, <3>4 DEF Follows
      <4>2. HasTarget(c, y)
        BY <2>5, <3>4, <4>1 DEF HasTarget
      <4> QED BY <2>2, <3>4, <4>2 DEF Shown
    <3>5. \A y \in c.state.runs : y.count \in Nat
      BY <2>2 DEF Run
    <3>6. CASE ~u.event
      <4>1. run.count = 0 \/ \E y \in c.state.runs : y.id = run.id /\ y.count = run.count
        BY <2>2, <2>8, <3>6 DEF Follows
      <4>2. Shown(moved, run)
        BY <3>1, <3>4, <3>5, <4>1 DEF Shown
      <4>3. ApplyUpdate(c, u) = moved
        BY <2>1, <3>6
      <4> QED BY <2>3, <2>5, <2>6, <3>2, <4>2, <4>3 DEF Complete
    <3>7. CASE u.event
      <4>1. run.status = "failed" \/ \E y \in c.state.runs : y.id = run.id /\ y.count + 1 = run.count
        BY <2>2, <2>8, <3>7 DEF Follows
      <4>2. HasTarget(moved, run) => run.status = "failed" \/ moved.delivered[run.id] + 1 >= run.count
        BY <3>1, <3>4, <3>5, <4>1
      <4>3. \A x \in state.runs : x # run => Shown(moved, x)
        BY <2>6, <3>2
      <4>4. ApplyUpdate(c, u) = DeliverEvent(moved, run)
        BY <2>1, <3>7
      <4> HIDE DEF run
      <4> QED BY <2>3, <2>5, <3>3, <4>2, <4>3, <4>4, DeliverEventComplete
    <3> QED BY <3>6, <3>7
  <2> QED BY <2>7, <2>8
<1> QED BY <1>1, <1>2, <1>3

\* So does a whole change.
LEMMA ApplyChangeComplete ==
    ASSUME revision \in Nat, NEW h, NEW w, NEW change \in Seq(Update),
           \A i \in 1..Len(change) : Leads(h, change[i]),
           Client(w) \in ClientType, Trusted(h, replica[w]), Complete(turn, Client(w))
    PROVE  Complete(turn, ApplyChange(w, change))
<1>1. PICK f : Steps(f, w, change) /\ ApplyChange(w, change) = f[Len(change)]
  BY ApplyChangeSteps
<1>2. f[0] = Client(w) /\ \A n \in 1..Len(change) : f[n] = ApplyUpdate(f[n - 1], change[n])
  BY <1>1 DEF Steps
<1> DEFINE Good(n) == f[n] \in ClientType /\ Trusted(h, f[n].state) /\ Complete(turn, f[n])
           T == {n \in 0..Len(change) : ~Good(n)}
<1>3. Good(0)
  <2>1. Client(w).state = replica[w]
    BY DEF Client
  <2> QED BY <1>2, <2>1
<1>4. ASSUME NEW n \in 1..Len(change), Good(n - 1)
      PROVE  Good(n)
  <2> DEFINE c == f[n - 1]
             u == change[n]
  <2>1. u \in Update /\ Leads(h, u) /\ (u.event => u.run # NoRun)
    BY DEF Leads
  <2>2. c \in ClientType /\ Trusted(h, c.state) /\ Complete(turn, c) /\ f[n] = ApplyUpdate(c, u)
    BY <1>2, <1>4
  <2> HIDE DEF c, u
  <2>3. "state" \in DOMAIN c
    BY <2>2 DEF ClientType
  <2>4. Trusted(h, ApplyUpdate(c, u).state)
    BY <2>1, <2>2, <2>3, ApplyUpdateTrusted
  <2>5. ApplyUpdate(c, u) \in ClientType
    BY <2>1, <2>2, ApplyUpdateType
  <2>6. Complete(turn, ApplyUpdate(c, u))
    BY <2>1, <2>2, ApplyUpdateComplete
  <2> QED BY <2>2, <2>4, <2>5, <2>6
<1> HIDE DEF Good
<1>5. T = {}
  <2> SUFFICES ASSUME T # {} PROVE FALSE
    OBVIOUS
  <2>1. T \subseteq Nat
    OBVIOUS
  <2>2. PICK n \in T : \A m \in T : n <= m
    <3> HIDE DEF T
    <3> QED BY <2>1, LeastNumber
  <2>3. n \in 1..Len(change) /\ n - 1 \in 0..Len(change) /\ n - 1 \notin T
    BY <1>3, <2>2
  <2> QED BY <1>4, <2>2, <2>3
<1>6. Good(Len(change))
  BY <1>5
<1> QED BY <1>1, <1>6 DEF Good

\* Delivering what a snapshot shows of a run completes it.
LEMMA DeliverSnapshotComplete ==
    ASSUME NEW T, NEW c \in ClientType, c.state \in State, c.holes = {}, Sound(T, c.state),
           NEW shown \in SUBSET c.state.runs,
           \A x \in c.state.runs \ shown : Shown(c, x)
    PROVE  Complete(T, DeliverSnapshot(c, shown))
<1> DEFINE due == {run \in shown : Due(c, run)}
           full == {run \in due : run.id \notin c.state.bare}
           heard(r) == {run \in due : Heard(c, run) = r}
           Last(r) == CHOOSE run \in due : run.id = r
           counts == [r \in RunId |-> IF \E run \in due : run.id = r THEN Last(r).count ELSE c.delivered[r]]
           s == [r \in RunId |-> Max({c.stored[r]} \cup {run.count : run \in heard(r)})]
           ended == {run \in full : Ends(c, run)}
           left == c.pending \ {<<run.id, run.thread>> : run \in ended}
           rest == c.busy \ {run.thread : run \in ended}
           hs == c.holes \cup {run.id : run \in due \ full}
           done == [c EXCEPT !.delivered = counts, !.stored = s, !.pending = left, !.busy = rest, !.holes = hs]
<1>1. DeliverSnapshot(c, shown) = done
  BY DEF DeliverSnapshot
<1>2. hs = {}
  BY DEF Sound
<1>3. left \subseteq c.pending
  OBVIOUS
<1>4. /\ c.state.runs \in SUBSET Run /\ c.delivered \in [RunId -> Nat]
      /\ \A x \in c.state.runs : x.id \in RunId /\ x.count \in Nat
  <2>1. c.state.runs \in SUBSET Run /\ c.delivered \in [RunId -> Nat]
    BY DEF State, RunTable, ClientType
  <2> QED BY <2>1 DEF Run
<1>5. \A x \in due : counts[x.id] = x.count
  <2> SUFFICES ASSUME NEW x \in due PROVE counts[x.id] = x.count
    OBVIOUS
  <2>1. due \subseteq c.state.runs /\ x.id \in RunId
    BY <1>4
  <2> HIDE DEF due
  <2>2. Last(x.id) \in due /\ Last(x.id).id = x.id
    OBVIOUS
  <2>3. Last(x.id) = x
    BY <2>1, <2>2 DEF Sound, Plain
  <2> HIDE DEF Last
  <2> QED BY <2>1, <2>3
<1>6. \A x \in c.state.runs : x \notin due => counts[x.id] = c.delivered[x.id]
  <2> SUFFICES ASSUME NEW x \in c.state.runs, x \notin due PROVE counts[x.id] = c.delivered[x.id]
    OBVIOUS
  <2>1. due \subseteq c.state.runs /\ x.id \in RunId
    BY <1>4
  <2> HIDE DEF due
  <2>2. ~ \E run \in due : run.id = x.id
    BY <2>1 DEF Sound, Plain
  <2> HIDE DEF Last
  <2> QED BY <2>1, <2>2
<1> HIDE DEF counts, s, left, rest, hs
<1>7. /\ done.state = c.state /\ done.holes = {} /\ done.delivered = counts
      /\ done.pending = left /\ done.observer = c.observer
  BY <1>2 DEF ClientType
<1> HIDE DEF done
<1>8. ASSUME NEW x \in c.state.runs
      PROVE  Shown(done, x)
  <2>1. HasTarget(done, x) => HasTarget(c, x)
    BY <1>3, <1>7 DEF HasTarget
  <2>2. x.id \in RunId /\ x.count \in Nat /\ c.delivered[x.id] \in Nat
    BY <1>4
  <2>3. CASE x \in due
    BY <1>5, <1>7, <2>2, <2>3 DEF Shown
  <2>4. CASE x \notin due
    <3>1. done.delivered[x.id] = c.delivered[x.id]
      BY <1>6, <1>7, <2>4
    <3>2. Shown(c, x)
      BY <2>2, <2>4 DEF Due, Shown
    <3> QED BY <2>1, <3>1, <3>2 DEF Shown
  <2> QED BY <2>3, <2>4
<1> QED BY <1>1, <1>7, <1>8 DEF Complete

\* A snapshot that is whole leaves a window complete.
LEMMA ApplySnapshotComplete ==
    ASSUME NEW T, NEW w, Client(w) \in ClientType, NEW s \in State, Sound(T, s), Complete(T, Client(w))
    PROVE  Complete(T, ApplySnapshot(w, s))
<1> DEFINE c == Client(w)
           known == {run.id : run \in s.runs}
           d == [r \in RunId |-> IF r \in known THEN c.delivered[r] ELSE 0]
           reset == [c EXCEPT !.state = s, !.delivered = d]
<1>1. ApplySnapshot(w, s) = c \/ ApplySnapshot(w, s) = DeliverSnapshot(reset, s.runs)
  BY DEF ApplySnapshot
<1> HIDE DEF c
<1>2. c \in ClientType /\ c.holes = {} /\ Complete(T, c)
  BY DEF c, Complete
<1>3. d \in [RunId -> Nat]
  BY <1>2 DEF ClientType
<1> HIDE DEF d
<1>4. reset \in ClientType /\ reset.state = s /\ reset.holes = {}
  BY <1>2, <1>3 DEF ClientType
<1> HIDE DEF reset
<1>5. Complete(T, DeliverSnapshot(reset, s.runs))
  BY <1>4, DeliverSnapshotComplete
<1> QED BY <1>1, <1>2, <1>5

\* A window that none of the step's messages reached is as complete as before.
LEMMA ClientStays ==
    ASSUME ReplicationTypeOK, NEW w \in Window, Complete(turn, Client(w)), TurnsGoOn,
           replica'[w] = replica[w], delivered'[w] = delivered[w], holes'[w] = holes[w],
           \A run \in Run : turn[run.id] # "unused" /\ HasTarget(Client(w)', run) => HasTarget(Client(w), run)
    PROVE  Complete(turn, Client(w))'
<1> DEFINE c == Client(w)
           d == Client(w)'
<1>1. /\ d.state = c.state /\ d.delivered = c.delivered /\ d.holes = c.holes
      /\ c.state \in State \cup {NoState}
  BY DEF Client, ReplicationTypeOK
<1>2. \A r \in RunId : turn[r] # "unused" => turn'[r] # "unused"
  BY DEF TurnsGoOn
<1>3. Complete(turn', d)
  <2> HIDE DEF c, d
  <2>1. Complete(turn, c) /\ \A run \in Run : turn[run.id] # "unused" /\ HasTarget(d, run) => HasTarget(c, run)
    BY DEF c, d
  <2> QED BY <1>1, <1>2, <2>1, StaysComplete
<1> QED BY <1>3

\* The same, when its requests and observers are what they were.
LEMMA ClientUntouched ==
    ASSUME ReplicationTypeOK, NEW w \in Window, Complete(turn, Client(w)), TurnsGoOn,
           replica'[w] = replica[w], delivered'[w] = delivered[w], holes'[w] = holes[w],
           pending'[w] = pending[w], observer'[w] = observer[w]
    PROVE  Complete(turn, Client(w))'
<1>1. \A run \in Run : HasTarget(Client(w)', run) => HasTarget(Client(w), run)
  BY DEF HasTarget, Client
<1> QED BY <1>1, ClientStays

\* A window that writes back what it completed is complete, and so are the others.
LEMMA BecomeComplete ==
    ASSUME ReplicationTypeOK, NEW w \in Window, NEW c \in ClientType, Become(w, c), Complete(turn, c),
           turn' = turn, \A v \in Window : Complete(turn, Client(v))
    PROVE  \A v \in Window : Complete(turn, Client(v))'
<1>1. /\ replica' = [replica EXCEPT ![w] = c.state] /\ delivered' = [delivered EXCEPT ![w] = c.delivered]
      /\ pending' = [pending EXCEPT ![w] = c.pending] /\ observer' = [observer EXCEPT ![w] = c.observer]
      /\ holes' = [holes EXCEPT ![w] = c.holes]
  BY DEF Become
<1>2. /\ DOMAIN replica = Window /\ DOMAIN delivered = Window /\ DOMAIN pending = Window
      /\ DOMAIN observer = Window /\ DOMAIN holes = Window
  BY DEF ReplicationTypeOK
<1>3. Complete(turn, Client(w))'
  <2> DEFINE d == Client(w)'
  <2>1. /\ d.state = c.state /\ d.delivered = c.delivered /\ d.holes = c.holes
        /\ d.pending = c.pending /\ d.observer = c.observer
    BY <1>1, <1>2 DEF Client
  <2>2. c.state \in State \cup {NoState}
    BY DEF ClientType
  <2> HIDE DEF d
  <2>3. \A run \in Run : HasTarget(d, run) => HasTarget(c, run)
    BY <2>1 DEF HasTarget
  <2>4. Complete(turn, d)
    BY <2>1, <2>2, <2>3, StaysComplete
  <2> QED BY <2>4 DEF d
<1>4. ASSUME NEW v \in Window, v # w
      PROVE  Complete(turn, Client(v))'
  <2>1. /\ replica'[v] = replica[v] /\ delivered'[v] = delivered[v] /\ holes'[v] = holes[v]
        /\ pending'[v] = pending[v] /\ observer'[v] = observer[v]
    BY <1>1, <1>2, <1>4
  <2> QED BY <2>1, ClientUntouched DEF TurnsGoOn
<1> QED BY <1>3, <1>4

\* No step takes a run back to where it was not sent.
LEMMA ReplicationTurns ==
    ASSUME ReplicationIInv, [ReplicationNext]_allVars
    PROVE  TurnsGoOn
<1>1. IInv /\ MessagesOK
  BY DEF ReplicationIInv
<1>2. CASE turn' = turn
  BY <1>2 DEF TurnsGoOn
<1>3. CASE AuthorityStep
  <2>1. ASSUME NEW r \in RunId, Stop(r) \/ Answering(r) \/ Event(r)
        PROVE  TurnsGoOn
    BY <1>1, <2>1, EventGoesOn, CommandGoesOn DEF GoesOn, PastGoesOn
  <2> QED BY <1>2, <1>3, <2>1 DEF AuthorityStep, Acknowledge, BatchTimerFires
<1>4. ASSUME NEW s \in sends, HandleSend(s)
      PROVE  TurnsGoOn
  <2>1. s.thread \in Thread /\ s.id \in RunId
    BY <1>1 DEF MessagesOK
  <2>2. Sending(s.thread, s.id) \/ UNCHANGED vars
    BY <1>4 DEF HandleSend, Sending
  <2> QED BY <1>1, <1>2, <2>1, <2>2, SendGoesOn DEF GoesOn, PastGoesOn, vars
<1>5. ASSUME NEW w \in Window, WindowStep(w)
      PROVE  turn' = turn
  BY <1>5 DEF WindowStep, Mount, MountTwice, HandleCall, Subscribe, Unsubscribe, ReceiveReply, ReceiveChange, TakeChange,
              Close, BeginRequest, Unobserve, Observe, vars
<1>6. ASSUME NEW s \in results, ReceiveResult(s)
      PROVE  turn' = turn
  BY <1>6 DEF ReceiveResult, vars
<1>7. CASE UNCHANGED allVars
  BY <1>2, <1>7 DEF allVars, vars
<1> QED BY <1>2, <1>3, <1>4, <1>5, <1>6, <1>7 DEF ReplicationNext

\* The runs of the authority are plain, and were sent.
LEMMA TableSound ==
    ASSUME IInv, NEW n
    PROVE  Sound(turn, [revision |-> n, runs |-> Table, bare |-> {}])
<1>1. TypeOK /\ IndexMatchesTable /\ UnusedRunIsFresh
  BY DEF IInv
<1>2. \A x \in Table : x \in Run /\ x.id \in RunId /\ x.thread \in Thread /\ runs[x.thread] = x /\ threadOf[x.id] = x.thread
  <2>1. \A x \in Table : x \in Run /\ x.thread \in Thread /\ runs[x.thread] = x /\ x # NoRun
    BY <1>1, TableRuns
  <2> QED BY <1>1, <2>1 DEF Run, IndexMatchesTable
<1>3. Plain(Table)
  BY <1>2 DEF Plain
<1>4. Sent(turn, Table)
  BY <1>1, <1>2, RunAuthorityAssumption DEF Sent, UnusedRunIsFresh
<1> QED BY <1>3, <1>4 DEF Sound

\* Snapshots that were on their way stay whole.
LEMMA ReplySound ==
    ASSUME EventsIInv, MessagesOK, TurnsGoOn, NEW v \in Window, NEW j \in DOMAIN replies[v]
    PROVE  Sound(turn', replies[v][j].state)
<1> DEFINE s == replies[v][j].state
<1>1. s \in State
  <2>1. replies[v] \in Seq(Reply)
    BY DEF MessagesOK
  <2>2. replies[v][j] \in Reply
    BY <2>1
  <2> QED BY <2>2 DEF Reply
<1>2. Sound(turn, s)
  BY DEF EventsIInv
<1> HIDE DEF s
<1>3. \A run \in s.runs : run.id \in RunId
  BY <1>1 DEF State, RunTable, Run
<1>4. Sound(turn', s)
  BY <1>2, <1>3 DEF Sound, Sent, TurnsGoOn
<1> QED BY <1>4 DEF s

LEMMA RepliesSound ==
    ASSUME EventsIInv, MessagesOK, TurnsGoOn,
           \A v \in Window : \A i \in DOMAIN replies'[v] :
              \E j \in DOMAIN replies[v] : replies'[v][i].state = replies[v][j].state
    PROVE  \A v \in Window : \A i \in DOMAIN replies'[v] : Sound(turn', replies'[v][i].state)
<1> SUFFICES ASSUME NEW v \in Window, NEW i \in DOMAIN replies'[v]
             PROVE  Sound(turn', replies'[v][i].state)
  OBVIOUS
<1>1. PICK j \in DOMAIN replies[v] : replies'[v][i].state = replies[v][j].state
  OBVIOUS
<1>2. Sound(turn', replies[v][j].state)
  BY ReplySound
<1> QED BY <1>1, <1>2

\* The steps that neither a change nor a snapshot reaches a window with.
LEMMA EventsStay ==
    ASSUME ReplicationTypeOK, ReplicationTypeOK', EventsIInv, TurnsGoOn, UNCHANGED <<replies, replica, delivered, holes>>,
           \A w \in Window : \A run \in Run :
              turn[run.id] # "unused" /\ HasTarget(Client(w)', run) => HasTarget(Client(w), run)
    PROVE  EventsIInv'
<1>1. MessagesOK
  BY TypeParts
<1>2. \A v \in Window : \A i \in DOMAIN replies'[v] : Sound(turn', replies'[v][i].state)
  BY <1>1, RepliesSound
<1>3. \A w \in Window : Complete(turn, Client(w))'
  BY ClientStays DEF EventsIInv
<1> QED BY <1>2, <1>3 DEF EventsIInv

\* A step that only the messages of App State notice, if any.
LEMMA EventsUntouched ==
    ASSUME ReplicationTypeOK, ReplicationTypeOK', EventsIInv, TurnsGoOn,
           UNCHANGED <<replies, replica, delivered, holes, pending, observer>>
    PROVE  EventsIInv'
<1>1. \A w \in Window : \A run \in Run : HasTarget(Client(w)', run) => HasTarget(Client(w), run)
  BY DEF HasTarget, Client
<1> QED BY <1>1, EventsStay

\* Requests begin, and are given up.
LEMMA RequestEvents ==
    ASSUME ReplicationTypeOK, ReplicationTypeOK', EventsIInv, TurnsGoOn,
           \/ \E w \in Window, t \in Thread, r \in RunId : BeginRequest(w, t, r)
           \/ \E w \in Window, t \in Thread : Unobserve(w, t)
           \/ \E s \in results : ReceiveResult(s)
    PROVE  EventsIInv'
<1>1. ASSUME NEW w \in Window, NEW t \in Thread, NEW r \in RunId, BeginRequest(w, t, r)
      PROVE  EventsIInv'
  <2>1. /\ turn[r] = "unused" /\ pending' = [pending EXCEPT ![w] = @ \cup {<<r, t>>}]
        /\ UNCHANGED <<replies, replica, delivered, holes, observer>>
    BY <1>1 DEF BeginRequest, syncVars
  <2>2. ASSUME NEW v \in Window, NEW run \in Run, turn[run.id] # "unused"
        PROVE  <<run.id, run.thread>> \in pending'[v] => <<run.id, run.thread>> \in pending[v]
    <3>1. run.id # r
      BY <2>1, <2>2
    <3> QED BY <2>1, <3>1 DEF ReplicationTypeOK
  <2>3. \A v \in Window : \A run \in Run :
           turn[run.id] # "unused" /\ HasTarget(Client(v)', run) => HasTarget(Client(v), run)
    BY <2>1, <2>2 DEF HasTarget, Client
  <2> QED BY <2>1, <2>3, EventsStay
<1>2. ASSUME NEW w \in Window, NEW t \in Thread, Unobserve(w, t)
      PROVE  EventsIInv'
  <2>1. /\ observer' = [observer EXCEPT ![w][t] = NoId]
        /\ UNCHANGED <<replies, replica, delivered, holes, pending>>
    BY <1>2 DEF Unobserve, syncVars
  <2>2. ASSUME NEW v \in Window, NEW u \in Thread, observer'[v][u] # NoId
        PROVE  observer[v][u] # NoId
    <3>1. observer \in [Window -> [Thread -> RunId \cup {NoId}]]
      BY DEF ReplicationTypeOK
    <3>2. observer'[v] = IF v = w THEN [observer[w] EXCEPT ![t] = NoId] ELSE observer[v]
      BY <2>1, <3>1
    <3>3. observer[w] \in [Thread -> RunId \cup {NoId}]
      BY <3>1
    <3> QED BY <2>2, <3>2, <3>3
  <2>3. \A v \in Window : \A run \in Run : HasTarget(Client(v)', run) => HasTarget(Client(v), run)
    BY <2>1, <2>2 DEF HasTarget, Client, Run
  <2> QED BY <2>1, <2>3, EventsStay
<1>3. ASSUME NEW s \in results, ReceiveResult(s)
      PROVE  EventsIInv'
  <2>1. /\ pending' = pending \/ pending' = [pending EXCEPT ![s.window] = @ \ {<<s.id, s.thread>>}]
        /\ UNCHANGED <<replies, replica, delivered, holes, observer>>
    BY <1>3 DEF ReceiveResult, syncVars
  <2>2. ASSUME NEW v \in Window
        PROVE  pending'[v] \subseteq pending[v]
    <3>1. DOMAIN pending = Window
      BY DEF ReplicationTypeOK
    <3>2. pending'[v] = pending[v] \/ pending'[v] = pending[v] \ {<<s.id, s.thread>>}
      BY <2>1, <3>1
    <3> QED BY <3>2
  <2>3. \A v \in Window : \A run \in Run : HasTarget(Client(v)', run) => HasTarget(Client(v), run)
    BY <2>1, <2>2 DEF HasTarget, Client
  <2> QED BY <2>1, <2>3, EventsStay
<1> QED BY <1>1, <1>2, <1>3

\* A subscribe call is answered with a whole snapshot, when snapshots may be of
\* any size.
LEMMA HandleCallEvents ==
    ASSUME ~Bounded, ReplicationIInv, ReplicationTypeOK, ReplicationTypeOK', EventsIInv, NEW w \in Window, HandleCall(w)
    PROVE  EventsIInv'
<1>1. /\ IInv /\ MessagesOK /\ replies \in [Window -> Seq(Reply)] /\ replies' \in [Window -> Seq(Reply)]
  BY DEF ReplicationIInv, MessagesOK, ReplicationTypeOK
<1>2. UNCHANGED <<replica, delivered, holes, pending, observer, turn>>
  BY DEF HandleCall, Subscribe, Unsubscribe, clientVars
<1>3. TurnsGoOn
  BY <1>2 DEF TurnsGoOn
<1>4. CASE UNCHANGED replies
  BY <1>2, <1>3, <1>4, EventsUntouched
<1> DEFINE snapshot == [revision |-> revision, runs |-> Table, bare |-> {}]
<1>5. ASSUME NEW n, replies' = [replies EXCEPT ![w] = Append(@, [state |-> snapshot, behind |-> n])]
      PROVE  EventsIInv'
  <2>1. Sound(turn, snapshot)
    BY <1>1, TableSound
  <2> HIDE DEF snapshot
  <2> DEFINE reply == [state |-> snapshot, behind |-> n]
  <2>2. replies' = [replies EXCEPT ![w] = Append(@, reply)] /\ reply.state = snapshot
    BY <1>5
  <2> HIDE DEF reply
  <2>3. ASSUME NEW v \in Window, NEW i \in DOMAIN replies'[v]
        PROVE  \/ replies'[v][i].state = snapshot
               \/ \E j \in DOMAIN replies[v] : replies'[v][i].state = replies[v][j].state
    <3>1. replies[v] \in Seq(Reply)
      BY <1>1
    <3>2. CASE v = w
      <4>1. replies'[v] = Append(replies[v], reply)
        BY <1>1, <2>2, <3>2
      <4>2. i = Len(replies[v]) + 1 \/ i \in DOMAIN replies[v]
        BY <2>3, <3>1, <4>1
      <4>3. i \in DOMAIN replies[v] => replies'[v][i] = replies[v][i]
        BY <3>1, <4>1
      <4>4. replies'[v][Len(replies[v]) + 1] = reply
        BY <3>1, <4>1
      <4> QED BY <2>2, <4>2, <4>3, <4>4
    <3>3. CASE v # w
      <4>1. replies'[v] = replies[v]
        BY <1>1, <2>2, <3>3
      <4> QED BY <2>3, <4>1
    <3> QED BY <3>2, <3>3
  <2>4. \A v \in Window : \A i \in DOMAIN replies'[v] : Sound(turn', replies'[v][i].state)
    <3>1. \A v \in Window : \A j \in DOMAIN replies[v] : Sound(turn', replies[v][j].state)
      BY <1>1, <1>3, ReplySound
    <3>2. turn' = turn
      BY <1>2
    <3> QED BY <2>1, <2>3, <3>1, <3>2
  <2>5. \A v \in Window : Complete(turn, Client(v))'
    BY <1>2, <1>3, ClientUntouched DEF EventsIInv
  <2> QED BY <2>4, <2>5 DEF EventsIInv
<1>6. UNCHANGED replies \/ \E n : replies' = [replies EXCEPT ![w] = Append(@, [state |-> snapshot, behind |-> n])]
  BY DEF HandleCall, LeftOut
<1> QED BY <1>4, <1>5, <1>6

\* A window takes over a whole snapshot.
LEMMA ReceiveReplyEvents ==
    ASSUME ReplicationIInv, ReplicationTypeOK, ReplicationTypeOK', EventsIInv, NEW w \in Window, ReceiveReply(w)
    PROVE  EventsIInv'
<1> DEFINE s == Head(replies[w]).state
<1>1. /\ MessagesOK /\ replies \in [Window -> Seq(Reply)] /\ replies' \in [Window -> Seq(Reply)] /\ Client(w) \in ClientType
  BY BecomeType DEF ReplicationIInv, MessagesOK, ReplicationTypeOK
<1>2. /\ turn' = turn /\ Become(w, ApplySnapshot(w, s))
      /\ replies' = [replies EXCEPT ![w] = Tail(@)] /\ replies[w] # <<>>
  BY DEF ReceiveReply, vars
<1>3. TurnsGoOn
  BY <1>2 DEF TurnsGoOn
<1>4. s \in State /\ Sound(turn, s)
  <2>1. 1 \in DOMAIN replies[w] /\ Head(replies[w]) = replies[w][1] /\ replies[w][1] \in Reply
    BY <1>1, <1>2
  <2> QED BY <2>1 DEF EventsIInv, Reply
<1> HIDE DEF s
<1>5. ApplySnapshot(w, s) \in ClientType /\ Complete(turn, ApplySnapshot(w, s))
  BY <1>1, <1>4, ApplySnapshotType, ApplySnapshotComplete DEF EventsIInv
<1>6. \A v \in Window : Complete(turn, Client(v))'
  BY <1>2, <1>5, BecomeComplete DEF EventsIInv
<1>7. \A v \in Window : \A i \in DOMAIN replies'[v] : Sound(turn', replies'[v][i].state)
  BY <1>1, <1>2, <1>3, RepliesComeFrom, RepliesSound
<1> QED BY <1>6, <1>7 DEF EventsIInv

\* A window applies a change, or finds a gap.
LEMMA ReceiveChangeEvents ==
    ASSUME ReplicationIInv, ReplicationTypeOK, ReplicationTypeOK', EventsIInv, NEW w \in Window, ReceiveChange(w)
    PROVE  EventsIInv'
<1> DEFINE change == Head(channel[w])
<1>1. /\ MessagesOK /\ replies \in [Window -> Seq(Reply)] /\ replies' \in [Window -> Seq(Reply)] /\ Client(w) \in ClientType
      /\ channel \in [Window -> Seq(Seq(Update))] /\ revision \in Nat
  BY BecomeType DEF ReplicationIInv, MessagesOK, ReplicationTypeOK, IInv, TypeOK
<1>2. /\ turn' = turn /\ Become(w, ApplyChange(w, change)) /\ channel[w] # <<>>
      /\ replies' = [replies EXCEPT ![w] = [i \in DOMAIN @ |-> Nearer(@[i])]]
  BY DEF ReceiveChange, TakeChange
<1>3. TurnsGoOn
  BY <1>2 DEF TurnsGoOn
<1>4. PICK h \in Tables : Past(h) /\ \A q \in Snapshots : Shows(h, q)
  BY DEF ReplicationIInv
<1>5. Trusted(h, replica[w])
  BY <1>1, <1>4, ReplicaTrusted
<1>6. 1 \in DOMAIN channel[w] /\ change = channel[w][1] /\ change \in Seq(Update)
  BY <1>1, <1>2
<1>7. ASSUME NEW i \in 1..Len(change)
      PROVE  Leads(h, change[i])
  <2>1. change[i] \in Travelling
    BY <1>6 DEF Travelling
  <2> QED BY <1>4, <2>1 DEF Past
<1> HIDE DEF change
<1>8. \A i \in 1..Len(change) : change[i].event => change[i].run # NoRun
  BY <1>7 DEF Leads
<1>9. ApplyChange(w, change) \in ClientType
  BY <1>1, <1>6, <1>8, ApplyChangeType
<1>10. Complete(turn, ApplyChange(w, change))
  BY <1>1, <1>5, <1>6, <1>7, ApplyChangeComplete DEF EventsIInv
<1>11. \A v \in Window : Complete(turn, Client(v))'
  BY <1>2, <1>9, <1>10, BecomeComplete DEF EventsIInv
<1>12. \A v \in Window : \A i \in DOMAIN replies'[v] : Sound(turn', replies'[v][i].state)
  BY <1>1, <1>2, <1>3, RepliesComeFrom, RepliesSound
<1> QED BY <1>11, <1>12 DEF EventsIInv

\* A Composer shows a run again, and takes its events from where the message is.
LEMMA ObserveEvents ==
    ASSUME ReplicationIInv, ReplicationTypeOK, ReplicationTypeOK', EventsIInv,
           NEW w \in Window, NEW t \in Thread, NEW n \in Nat, NEW run, Observe(w, t, run, n)
    PROVE  EventsIInv'
<1> DEFINE c == Client(w)
           m == Larger(c.delivered[run.id], n)
           bound == [c EXCEPT !.observer[t] = run.id, !.delivered[run.id] = m]
<1>1. /\ turn' = turn /\ replies' = replies /\ replica[w] # NoState /\ run \in replica[w].runs /\ run.thread = t
      /\ Become(w, DeliverSnapshot(bound, {run}))
  BY DEF Observe, vars, syncVars
<1>2. c \in ClientType /\ c.state = replica[w] /\ Complete(turn, c)
  BY BecomeType DEF Client, EventsIInv
<1> HIDE DEF c
<1>3. /\ c.state \in State /\ c.state.runs \in SUBSET Run /\ c.holes = {} /\ Sound(turn, c.state)
      /\ \A x \in c.state.runs : Shown(c, x)
  BY <1>1, <1>2 DEF Complete, ClientType, State, RunTable
<1>4. run \in Run /\ run.id \in RunId /\ {run} \in RunTable /\ run \in c.state.runs
  <2>1. run \in Run /\ run \in c.state.runs
    BY <1>1, <1>2, <1>3
  <2>2. IsFiniteSet({run})
    BY FS_Singleton
  <2> QED BY <2>1, <2>2 DEF RunTable, Run
<1>5. m \in Nat
  BY <1>2, <1>4 DEF Larger, ClientType
<1> HIDE DEF m
<1>6. /\ bound \in ClientType /\ bound.state = c.state /\ bound.holes = {} /\ bound.pending = c.pending
      /\ \A r \in RunId : r # run.id => bound.delivered[r] = c.delivered[r]
      /\ \A u \in Thread : u # t => bound.observer[u] = c.observer[u]
  BY <1>2, <1>3, <1>4, <1>5 DEF ClientType
<1> HIDE DEF bound
<1>7. ASSUME NEW x \in c.state.runs, x # run
      PROVE  Shown(bound, x)
  <2>1. x.id # run.id /\ x.thread # t /\ x.id \in RunId /\ x.thread \in Thread
    BY <1>1, <1>3, <1>4, <1>7 DEF Sound, Plain, Run
  <2>2. HasTarget(bound, x) => HasTarget(c, x)
    BY <1>6, <2>1 DEF HasTarget
  <2> QED BY <1>3, <1>6, <2>1, <2>2 DEF Shown
<1>8. Complete(turn, DeliverSnapshot(bound, {run}))
  BY <1>3, <1>4, <1>6, <1>7, DeliverSnapshotComplete
<1>9. DeliverSnapshot(bound, {run}) \in ClientType
  BY <1>4, <1>6, DeliverSnapshotType
<1>10. \A v \in Window : Complete(turn, Client(v))'
  BY <1>1, <1>8, <1>9, BecomeComplete DEF EventsIInv
<1>11. \A v \in Window : \A i \in DOMAIN replies'[v] : Sound(turn', replies'[v][i].state)
  BY <1>1 DEF EventsIInv
<1> QED BY <1>10, <1>11 DEF EventsIInv

\* A window is closed, and another one starts with nothing.
LEMMA CloseEvents ==
    ASSUME ReplicationTypeOK, ReplicationTypeOK', EventsIInv, NEW w \in Window, Close(w)
    PROVE  EventsIInv'
<1>1. /\ turn' = turn /\ holes' = holes /\ replies' = [replies EXCEPT ![w] = <<>>]
      /\ replica' = [replica EXCEPT ![w] = NoState]
      /\ pending' = [pending EXCEPT ![w] = {}] /\ observer' = [observer EXCEPT ![w] = [t \in Thread |-> NoId]]
      /\ delivered' = [delivered EXCEPT ![w] = [r \in RunId |-> 0]]
  BY DEF Close
<1>2. TurnsGoOn /\ MessagesOK
  BY <1>1, TypeParts DEF TurnsGoOn
<1>3. \A v \in Window : \A i \in DOMAIN replies'[v] : Sound(turn', replies'[v][i].state)
  BY <1>1, <1>2, RepliesComeFrom, RepliesSound
<1>4. Complete(turn, Client(w))'
  <2>1. Client(w)'.state = NoState /\ Client(w)'.holes = Client(w).holes
    BY <1>1 DEF Client, ReplicationTypeOK
  <2> QED BY <2>1 DEF EventsIInv, Complete
<1>5. ASSUME NEW v \in Window, v # w
      PROVE  Complete(turn, Client(v))'
  <2>1. /\ DOMAIN replica = Window /\ DOMAIN pending = Window /\ DOMAIN observer = Window /\ DOMAIN delivered = Window
    BY DEF ReplicationTypeOK
  <2>2. /\ replica'[v] = replica[v] /\ delivered'[v] = delivered[v] /\ holes'[v] = holes[v]
        /\ pending'[v] = pending[v] /\ observer'[v] = observer[v]
    BY <1>1, <1>5, <2>1
  <2> QED BY <1>2, <2>2, ClientUntouched DEF EventsIInv
<1> QED BY <1>3, <1>4, <1>5 DEF EventsIInv

\* Every step leaves every window complete.
LEMMA EventsNext ==
    ASSUME ~Bounded, ReplicationIInv, ReplicationTypeOK, ReplicationTypeOK', EventsIInv, [ReplicationNext]_allVars
    PROVE  EventsIInv'
<1>1. TurnsGoOn
  BY ReplicationTurns
<1>2. CASE AuthorityStep \/ (\E s \in sends : HandleSend(s)) \/ UNCHANGED allVars
  <2>1. UNCHANGED <<replies, replica, delivered, holes, pending, observer>>
    BY <1>2 DEF AuthorityStep, HandleSend, allVars, windowVars, syncVars, clientVars
  <2> QED BY <1>1, <2>1, EventsUntouched
<1>3. CASE \E s \in results : ReceiveResult(s)
  BY <1>1, <1>3, RequestEvents
<1>4. ASSUME NEW w \in Window, WindowStep(w)
      PROVE  EventsIInv'
  <2>1. CASE Mount(w) \/ MountTwice(w)
    <3>1. UNCHANGED <<replies, replica, delivered, holes, pending, observer>>
      BY <2>1 DEF Mount, MountTwice, clientVars
    <3> QED BY <1>1, <3>1, EventsUntouched
  <2>2. CASE HandleCall(w)
    BY <2>2, HandleCallEvents
  <2>3. CASE ReceiveReply(w)
    BY <2>3, ReceiveReplyEvents
  <2>4. CASE ReceiveChange(w)
    BY <2>4, ReceiveChangeEvents
  <2>5. CASE Close(w)
    BY <2>5, CloseEvents
  <2>6. CASE (\E t \in Thread, r \in RunId : BeginRequest(w, t, r)) \/ \E t \in Thread : Unobserve(w, t)
    BY <1>1, <2>6, RequestEvents
  <2>7. ASSUME NEW t \in Thread, NEW n \in 0..(MaxEvents + 2), NEW run \in replica[w].runs, Observe(w, t, run, n)
        PROVE  EventsIInv'
    <3>1. n \in Nat
      BY RunAuthorityAssumption
    <3> QED BY <2>7, <3>1, ObserveEvents
  <2> QED BY <1>4, <2>1, <2>2, <2>3, <2>4, <2>5, <2>6, <2>7 DEF WindowStep
<1> QED BY <1>2, <1>3, <1>4 DEF ReplicationNext

-----------------------------------------------------------------------------
(* The theorems *)

LEMMA ReplicationInitIInv == ReplicationInit => ReplicationIInv
<1> SUFFICES ASSUME ReplicationInit PROVE ReplicationIInv
  OBVIOUS
<1>1. IInv
  BY InitIInv DEF ReplicationInit
<1>2. MessagesOK
  BY DEF ReplicationInit, MessagesOK
<1>3. Travelling = {} /\ Snapshots = {}
  <2>1. queue = <<>> /\ \A w \in Window : channel[w] = <<>> /\ replica[w] = NoState /\ replies[w] = <<>>
    BY DEF ReplicationInit, Init
  <2> QED BY <2>1, RunReplicationAssumption DEF Travelling, Snapshots
<1>4. revision \in Nat /\ Table \in SUBSET Run
  BY <1>1, TableRuns DEF IInv, TypeOK
<1> DEFINE h == [n \in Nat |-> Table]
<1>5. h \in Tables /\ Past(h)
  BY <1>3, <1>4 DEF Tables, Past
<1> HIDE DEF h
<1> QED BY <1>1, <1>2, <1>3, <1>5 DEF ReplicationIInv

LEMMA ReplicationNextKeeps == ReplicationIInv /\ [ReplicationNext]_allVars => ReplicationIInv'
<1> SUFFICES ASSUME ReplicationIInv, [ReplicationNext]_allVars PROVE ReplicationIInv'
  OBVIOUS
<1>1. CASE AuthorityStep
  BY <1>1, AuthorityStepKeeps
<1>2. ASSUME NEW w \in Window, WindowStep(w)
      PROVE  ReplicationIInv'
  <2>1. CASE Mount(w) \/ MountTwice(w) \/ (\E t \in Thread, r \in RunId : BeginRequest(w, t, r))
             \/ \E t \in Thread : Unobserve(w, t)
    BY <2>1, RequestStepKeeps
  <2>2. CASE HandleCall(w)
    BY <2>2, HandleCallKeeps
  <2>3. CASE ReceiveReply(w)
    BY <2>3, ReceiveReplyKeeps
  <2>4. CASE ReceiveChange(w)
    BY <2>4, ReceiveChangeKeeps
  <2>5. CASE Close(w)
    BY <2>5, CloseKeeps
  <2>6. ASSUME NEW t \in Thread, NEW n \in 0..(MaxEvents + 2), NEW run \in replica[w].runs, Observe(w, t, run, n)
        PROVE  ReplicationIInv'
    BY <2>6, ObserveKeeps
  <2> QED BY <1>2, <2>1, <2>2, <2>3, <2>4, <2>5, <2>6 DEF WindowStep
<1>3. CASE \E s \in sends : HandleSend(s)
  BY <1>3, RequestStepKeeps
<1>4. CASE \E s \in results : ReceiveResult(s)
  BY <1>4, RequestStepKeeps
<1>5. CASE UNCHANGED allVars
  <2>1. UNCHANGED vars /\ UNCHANGED <<replica, replies, sends>>
    BY <1>5 DEF allVars, windowVars, syncVars, requestVars, clientVars
  <2>2. IInv' /\ PastGoesOn
    BY <2>1, AuthorityStays DEF ReplicationIInv
  <2> QED BY <2>1, <2>2, AuthorityGoesOn
<1> QED BY <1>1, <1>2, <1>3, <1>4, <1>5 DEF ReplicationNext

\* The invariant holds however the windows, the channel and the authority are
\* interleaved.
THEOREM ReplicationInvariance == ReplicationSpec => []ReplicationIInv
BY ReplicationInitIInv, ReplicationNextKeeps, PTL DEF ReplicationSpec

\* Whatever mixture of snapshots, batches, removals and replacements brought it
\* there, a window shows the runs of the revision it is at.
THEOREM ReplicasAgree == ReplicationSpec => []ReplicaAgrees
<1>1. ReplicationIInv => ReplicaAgrees
  <2> SUFFICES ASSUME ReplicationIInv, NEW w \in Window, replica[w] # NoState
               PROVE  /\ replica[w].revision <= revision
                      /\ replica[w].revision = revision => replica[w].runs = Table
                      /\ \A v \in Window :
                            replica[v] # NoState /\ replica[v].revision = replica[w].revision =>
                                replica[v].runs = replica[w].runs
    BY DEF ReplicaAgrees
  <2>1. PICK h \in Tables : Past(h) /\ \A s \in Snapshots : Shows(h, s)
    BY DEF ReplicationIInv
  <2>2. ASSUME NEW v \in Window, replica[v] # NoState
        PROVE  Shows(h, replica[v])
    BY <2>1, <2>2, ReplicaTrusted DEF ReplicationIInv, Trusted
  <2> QED BY <2>1, <2>2 DEF Past, Shows
<1> QED BY <1>1, ReplicationInvariance, PTL

\* Calls, messages and windows keep their shape: no change, snapshot or result finds a
\* window that cannot hold it.
THEOREM ReplicationTypeCorrect == ReplicationSpec => []ReplicationTypeOK
<1>1. ReplicationInit => ReplicationTypeOK
  BY RunReplicationAssumption DEF ReplicationInit, ReplicationTypeOK
<1> QED BY <1>1, ReplicationTypeStep, ReplicationInvariance, PTL DEF ReplicationSpec

\* However the snapshots, changes and results reach a window, and whenever its
\* Composers come and go, a request or an observer has been handed every event its
\* window shows of the run, and no event was passed over, as long as no snapshot is too
\* large for the IPC channel.  Whether the target takes what it is handed is another
\* matter: an observer bound to a run that was replaced does not.
THEOREM NothingSkipped ==
    ASSUME ~Bounded
    PROVE  ReplicationSpec => []NoEventSkipped
<1>1. ReplicationInit => EventsIInv
  <2> SUFFICES ASSUME ReplicationInit PROVE EventsIInv
    OBVIOUS
  <2>1. \A w \in Window : replies[w] = <<>> /\ Client(w).state = NoState /\ Client(w).holes = {}
    BY DEF ReplicationInit, Client
  <2> QED BY <2>1 DEF EventsIInv, Complete
<1>2. ReplicationIInv /\ ReplicationTypeOK /\ ReplicationTypeOK' /\ EventsIInv /\ [ReplicationNext]_allVars => EventsIInv'
  BY EventsNext
<1>3. EventsIInv => NoEventSkipped
  BY DEF EventsIInv, Complete, Shown, NoEventSkipped, Client
<1> QED BY <1>1, <1>2, <1>3, ReplicationInvariance, ReplicationTypeCorrect, PTL DEF ReplicationSpec

=============================================================================
