---------------------------- MODULE RunAuthority ----------------------------
(***************************************************************************)
(* The chat run authority of the Main process                              *)
(* (electron/chat/chatRunAuthority.ts): one run per thread, the            *)
(* interactions a run waits on, a revision that numbers every change, and  *)
(* the stream of changes it publishes to the subscribed windows.           *)
(*                                                                         *)
(* The authority is single-threaded: every action below is one synchronous *)
(* call of it.  The runtime behind options.start / stop / respondTo*       *)
(* (the chat session manager and the Kimi process) appears as the phase of *)
(* each run's turn, what it has been told, and the events it emits.        *)
(*                                                                         *)
(* Data left out: the payload of events.  Of the events list only whether  *)
(* it holds a "started" event is kept (field begun), and a payload that    *)
(* exceeds the IPC limit is a nondeterministic outcome of every publish.   *)
(***************************************************************************)
EXTENDS Naturals, Sequences

CONSTANTS
    Thread,      \* threads of the workspace
    RunId,       \* run identifiers, each drawn fresh for one send
    Permission,  \* identifiers of permission requests
    Question,    \* identifiers of question requests
    Window,      \* renderer windows that may subscribe
    NoRun,       \* "this thread has no run"
    NoThread,    \* "this run id is not indexed"
    NoId,        \* "no run was replaced or removed"
    MaxEvents,   \* bound on the events a run may receive before its last
    Endings,     \* the terminal statuses the runtime's turns may end with
    Limited      \* whether a payload may exceed the IPC limit

VARIABLES
    revision,     \* number of the last change
    runs,         \* runsByThreadId
    threadOf,     \* threadIdByRunId
    accepted,     \* keys of acceptedQuestionResponses
    queue,        \* queuedUpdates, waiting for the batch timer
    subscribers,  \* windows changes are published to
    channel,      \* changes published to each window and not yet received
    turn,         \* phase of the runtime turn of each run
    told,         \* runs whose runtime turn was told to stop
    answered      \* responses forwarded to the runtime and not yet settled

vars == <<revision, runs, threadOf, accepted, queue, subscribers, channel,
          turn, told, answered>>

-----------------------------------------------------------------------------
(* Data *)

LiveStatus == {"starting", "running", "waiting-for-approval", "waiting-for-answer"}
TerminalStatus == {"completed", "failed", "cancelled"}

Run == [id : RunId, thread : Thread, status : LiveStatus \cup TerminalStatus,
        stopRequested : BOOLEAN, begun : BOOLEAN, count : Nat,
        permissions : SUBSET Permission, questions : SUBSET Question]

ASSUME RunAuthorityAssumption ==
    /\ MaxEvents \in Nat
    /\ Endings \subseteq {"completed", "failed", "cancelled"}
    /\ Limited \in BOOLEAN
    /\ NoThread \notin Thread
    /\ NoId \notin RunId
    /\ Permission \cap Question = {}
    /\ NoRun \notin Run

\* An update carries a run (removal: NoRun), the run that left the table with
\* it, and whether it carries the event that made run.count what it is.
Update == [base : Nat, revision : Nat, run : Run \cup {NoRun}, gone : RunId \cup {NoId},
           event : BOOLEAN]

Interaction == Permission \cup Question

\* getRun: the index and the table must agree on the run.
Known(r) == threadOf[r] \in Thread /\ runs[threadOf[r]] # NoRun /\ runs[threadOf[r]].id = r
RunOf(r) == runs[threadOf[r]]
IsLive(r) == Known(r) /\ RunOf(r).status \in LiveStatus

StatusAfterInteraction(run) ==
    CASE run.permissions # {} -> "waiting-for-approval"
      [] run.permissions = {} /\ run.questions # {} -> "waiting-for-answer"
      [] OTHER -> IF run.begun THEN "running" ELSE "starting"

\* Mutant of Settled: a run that ends keeps what it was asked.
SettledStillAsking(run, status) == [run EXCEPT !.status = status]

Settled(run, status) == [run EXCEPT !.status = status, !.permissions = {}, !.questions = {}]

WithInteractions(run, ps, qs) ==
    LET next == [run EXCEPT !.permissions = ps, !.questions = qs]
    IN  [next EXCEPT !.status = StatusAfterInteraction(next)]

-----------------------------------------------------------------------------
(* Publication *)

\* The change that follows revision r, without an event or with one.
Change(r, run, gone) == [base |-> r, revision |-> r + 1, run |-> run, gone |-> gone,
                         event |-> FALSE]

EventChange(r, run, gone) == [Change(r, run, gone) EXCEPT !.event = TRUE]

\* Mutant of Dispatch: what waits for the timer is overtaken.
DispatchPastQueue(updates) ==
    /\ revision' = revision + Len(updates)
    /\ channel' = [w \in Window |-> IF w \in subscribers
                                    THEN channel[w] \o [i \in 1..Len(updates) |-> <<updates[i]>>]
                                    ELSE channel[w]]
    /\ UNCHANGED <<queue, subscribers>>

\* dispatch of updates that are not batchable: the queue is published first,
\* as one batch, then each of them on its own.
Dispatch(updates) ==
    LET batch == IF queue = <<>> THEN <<>> ELSE <<queue>>
        sent == batch \o [i \in 1..Len(updates) |-> <<updates[i]>>]
    IN  /\ revision' = revision + Len(updates)
        /\ channel' = [w \in Window |-> IF w \in subscribers THEN channel[w] \o sent
                                                             ELSE channel[w]]
        /\ queue' = <<>>
        /\ UNCHANGED subscribers

\* dispatch of a batchable update: it waits for the timer.
Enqueue(update) ==
    /\ revision' = revision + 1
    /\ queue' = Append(queue, update)
    /\ UNCHANGED <<subscribers, channel>>

\* replaceRun, and publishQueuedUpdates' callers never reorder around it.
ReplaceRun(run) ==
    /\ runs' = [runs EXCEPT ![run.thread] = run]
    /\ threadOf' = [r \in RunId |->
                       IF r = run.id THEN run.thread
                       ELSE IF runs[run.thread] # NoRun /\ r = runs[run.thread].id THEN NoThread
                       ELSE threadOf[r]]

\* The failure event is all that is left of the events.
LimitFailure(run) ==
    [Settled(run, "failed") EXCEPT !.stopRequested = TRUE, !.begun = FALSE, !.count = @ + 1]

\* Mutant of FailForPayloadLimit: nobody tells the runtime.
FailForPayloadLimitUnheard(run, gone) ==
    /\ Limited
    /\ ReplaceRun(LimitFailure(run))
    /\ Dispatch(<<EventChange(revision, LimitFailure(run), gone)>>)
    /\ UNCHANGED told

\* failForPayloadLimit: the runtime is told to stop unless its turn has
\* already ended, and the failure replaces whatever was to be published.
\* The responses accepted for the run stay in acceptedQuestionResponses.
FailForPayloadLimit(run, gone) ==
    /\ Limited
    /\ ReplaceRun(LimitFailure(run))
    /\ told' = IF run.status \in LiveStatus THEN told \cup {run.id} ELSE told
    /\ Dispatch(<<EventChange(revision, LimitFailure(run), gone)>>)

-----------------------------------------------------------------------------
(* Commands from the windows *)

NewRun(t, r) == [id |-> r, thread |-> t, status |-> "starting", stopRequested |-> FALSE,
                 begun |-> FALSE, count |-> 0, permissions |-> {}, questions |-> {}]

MaySend(t, r) == /\ runs[t] # NoRun => runs[t].status \in TerminalStatus
                 /\ threadOf[r] = NoThread

ReplacedBy(t) == IF runs[t] = NoRun THEN NoId ELSE runs[t].id

\* send, accepted: the run is published and the runtime starts its turn.
Send(t, r) ==
    /\ MaySend(t, r)
    /\ turn[r] = "unused"
    /\ ReplaceRun(NewRun(t, r))
    /\ Dispatch(<<Change(revision, NewRun(t, r), ReplacedBy(t))>>)
    /\ turn' = [turn EXCEPT ![r] = "active"]
    /\ UNCHANGED <<accepted, told, answered>>

\* send, published, but the runtime refuses to start (it throws or emits
\* "failed" before it returns): the failure is published in the same call.
SendRefusedByRuntime(t, r) ==
    LET refused == [Settled(NewRun(t, r), "failed") EXCEPT !.count = 1]
    IN  /\ MaySend(t, r)
        /\ turn[r] = "unused"
        /\ ReplaceRun(refused)
        /\ Dispatch(<<Change(revision, NewRun(t, r), ReplacedBy(t)),
                      EventChange(revision + 1, refused, NoId)>>)
        /\ turn' = [turn EXCEPT ![r] = "ended"]
        /\ UNCHANGED <<accepted, told, answered>>

\* send, too large to publish: the runtime is told to stop, never to start.
SendOverLimit(t, r) ==
    /\ MaySend(t, r)
    /\ turn[r] = "unused"
    /\ FailForPayloadLimit(NewRun(t, r), ReplacedBy(t))
    /\ turn' = [turn EXCEPT ![r] = "ended"]
    /\ UNCHANGED <<accepted, answered>>

\* Replace the run and publish it, or fail it for the payload limit.  forward
\* is what the runtime hears, and only when the run could be published.
PublishRun(next, forward) ==
    \/ /\ ReplaceRun(next)
       /\ Dispatch(<<Change(revision, next, NoId)>>)
       /\ forward
    \/ /\ FailForPayloadLimit(next, NoId)
       /\ UNCHANGED answered

Stop(r) ==
    /\ IsLive(r)
    /\ ~RunOf(r).stopRequested
    /\ PublishRun([RunOf(r) EXCEPT !.stopRequested = TRUE],
                  told' = told \cup {r} /\ UNCHANGED answered)
    /\ UNCHANGED <<accepted, turn>>

RespondToPermission(r, p) ==
    /\ Known(r)
    /\ p \in RunOf(r).permissions
    /\ PublishRun(WithInteractions(RunOf(r), RunOf(r).permissions \ {p}, RunOf(r).questions),
                  answered' = answered \cup {<<r, p>>} /\ UNCHANGED told)
    /\ UNCHANGED <<accepted, turn>>

RespondToQuestion(r, q) ==
    /\ Known(r)
    /\ q \in RunOf(r).questions
    /\ accepted' = accepted \cup {<<r, q>>}
    /\ PublishRun(WithInteractions(RunOf(r), RunOf(r).permissions, RunOf(r).questions \ {q}),
                  answered' = answered \cup {<<r, q>>} /\ UNCHANGED told)
    /\ UNCHANGED turn

\* acknowledgePersistedEvents: n events of run r are in the stored message.
Acknowledge(r, n) ==
    /\ Known(r)
    /\ RunOf(r).status \in TerminalStatus
    /\ n >= RunOf(r).count
    /\ runs' = [runs EXCEPT ![threadOf[r]] = NoRun]
    /\ threadOf' = [threadOf EXCEPT ![r] = NoThread]
    /\ Dispatch(<<Change(revision, NoRun, r)>>)
    /\ UNCHANGED <<accepted, turn, told, answered>>

-----------------------------------------------------------------------------
(* Events of the runtime: handleEvent.  An event of a run that is unknown or  *)
(* already terminal is ignored, so each action asks for a live run.           *)

\* Mutant of Emits: a terminal run still takes events.
EmitsAfterEnd(r) == turn[r] = "active" /\ Known(r)

Emits(r) == turn[r] = "active" /\ IsLive(r)

MayEmit(r) == Emits(r) /\ RunOf(r).count < MaxEvents

Counted(run) == [run EXCEPT !.count = @ + 1]

\* The tail of handleEvent.  The three outcomes are: published; the replay
\* state with next would be too large; the update itself would be too large.
Record(r, next, batchable) ==
    LET update == EventChange(revision, next, NoId)
    IN  \/ /\ ReplaceRun(next)
           /\ IF batchable THEN Enqueue(update) ELSE Dispatch(<<update>>)
           /\ UNCHANGED told
        \/ FailForPayloadLimit(RunOf(r), NoId)
        \/ FailForPayloadLimit(next, NoId)

\* A request the runtime still waits on: shown to the windows, or answered
\* with the answer on its way.
Outstanding(r, i) == i \in RunOf(r).permissions \cup RunOf(r).questions \/ <<r, i>> \in answered

Forget(r) == {a \in answered : a[1] # r}

Started(r) ==
    LET run == Counted([RunOf(r) EXCEPT !.begun = TRUE])
    IN  /\ MayEmit(r)
        /\ Record(r, WithInteractions(run, run.permissions, run.questions), FALSE)
        /\ UNCHANGED <<accepted, turn, answered>>

\* delta, text-snapshot, reasoning, kimi-timeline, shell, subagent-task.
Output(r) ==
    /\ MayEmit(r)
    /\ Record(r, Counted(RunOf(r)), TRUE)
    /\ UNCHANGED <<accepted, turn, answered>>

\* notice, checklist, plan-mode-changed.
Progress(r) ==
    /\ MayEmit(r)
    /\ Record(r, Counted(RunOf(r)), FALSE)
    /\ UNCHANGED <<accepted, turn, answered>>

PermissionRequested(r, p) ==
    LET run == Counted(RunOf(r))
    IN  /\ MayEmit(r)
        /\ ~Outstanding(r, p)
        /\ Record(r, WithInteractions(run, run.permissions \cup {p}, run.questions), FALSE)
        /\ UNCHANGED <<accepted, turn, answered>>

\* The runtime settles a permission because it was answered or by itself.
PermissionResolved(r, p) ==
    LET run == Counted(RunOf(r))
    IN  /\ MayEmit(r)
        /\ Outstanding(r, p)
        /\ Record(r, WithInteractions(run, run.permissions \ {p}, run.questions), FALSE)
        /\ answered' = answered \ {<<r, p>>}
        /\ UNCHANGED <<accepted, turn>>

QuestionRequested(r, q) ==
    LET run == Counted(RunOf(r))
    IN  /\ MayEmit(r)
        /\ ~Outstanding(r, q)
        /\ Record(r, WithInteractions(run, run.permissions, run.questions \cup {q}), FALSE)
        /\ UNCHANGED <<accepted, turn, answered>>

\* Mutant of QuestionResolved: the accepted response is never dropped.
QuestionResolvedStillAccepted(r, q) ==
    LET run == Counted(RunOf(r))
    IN  /\ MayEmit(r)
        /\ Outstanding(r, q)
        /\ Record(r, WithInteractions(run, run.permissions, run.questions \ {q}), FALSE)
        /\ answered' = answered \ {<<r, q>>}
        /\ UNCHANGED <<accepted, turn>>

QuestionResolved(r, q) ==
    LET run == Counted(RunOf(r))
    IN  /\ MayEmit(r)
        /\ Outstanding(r, q)
        /\ Record(r, WithInteractions(run, run.permissions, run.questions \ {q}), FALSE)
        /\ accepted' = accepted \ {<<r, q>>}
        /\ answered' = answered \ {<<r, q>>}
        /\ UNCHANGED turn

\* The answer could not be delivered: the question it answered is asked again.
QuestionFailed(r, q) ==
    LET run == Counted(RunOf(r))
    IN  /\ MayEmit(r)
        /\ <<r, q>> \in answered
        /\ Record(r, IF <<r, q>> \in accepted
                     THEN WithInteractions(run, run.permissions, run.questions \cup {q})
                     ELSE run, FALSE)
        /\ accepted' = accepted \ {<<r, q>>}
        /\ answered' = answered \ {<<r, q>>}
        /\ UNCHANGED turn

\* completed, failed, permission-failed, stopped: the last event of the turn.
Ended(r, status) ==
    /\ Emits(r)
    /\ Record(r, Settled(Counted(RunOf(r)), status), FALSE)
    /\ accepted' = {a \in accepted : a[1] # r}
    /\ answered' = Forget(r)
    /\ turn' = [turn EXCEPT ![r] = "ended"]

\* The last event of a turn whose run the authority has already failed.
EndedUnheard(r) ==
    /\ turn[r] = "active"
    /\ ~IsLive(r)
    /\ turn' = [turn EXCEPT ![r] = "ended"]
    /\ answered' = Forget(r)
    /\ UNCHANGED <<revision, runs, threadOf, accepted, queue, subscribers, channel, told>>

-----------------------------------------------------------------------------
(* Subscription and the batch timer *)

\* publishQueuedUpdates when batchTimer fires.
BatchTimerFires ==
    /\ queue # <<>>
    /\ channel' = [w \in Window |-> IF w \in subscribers THEN Append(channel[w], queue)
                                                         ELSE channel[w]]
    /\ queue' = <<>>
    /\ UNCHANGED <<revision, runs, threadOf, accepted, subscribers, turn, told, answered>>

\* The reply to subscribe is the snapshot: the runs at this revision, which may
\* be ahead of updates that still wait in the queue.
Subscribe(w) ==
    /\ subscribers' = subscribers \cup {w}
    /\ UNCHANGED <<revision, runs, threadOf, accepted, queue, channel, turn, told, answered>>

Unsubscribe(w) ==
    /\ subscribers' = subscribers \ {w}
    /\ UNCHANGED <<revision, runs, threadOf, accepted, queue, channel, turn, told, answered>>

-----------------------------------------------------------------------------
(* Specification *)

Init ==
    /\ revision = 0
    /\ runs = [t \in Thread |-> NoRun]
    /\ threadOf = [r \in RunId |-> NoThread]
    /\ accepted = {}
    /\ queue = <<>>
    /\ subscribers = {}
    /\ channel = [w \in Window |-> <<>>]
    /\ turn = [r \in RunId |-> "unused"]
    /\ told = {}
    /\ answered = {}

Sending(t, r) == Send(t, r) \/ SendRefusedByRuntime(t, r) \/ SendOverLimit(t, r)

Answering(r) ==
    \/ \E p \in Permission : RespondToPermission(r, p)
    \/ \E q \in Question : RespondToQuestion(r, q)

Event(r) ==
    \/ Started(r)
    \/ Output(r)
    \/ Progress(r)
    \/ \E p \in Permission : PermissionRequested(r, p) \/ PermissionResolved(r, p)
    \/ \E q \in Question : QuestionRequested(r, q) \/ QuestionResolved(r, q) \/ QuestionFailed(r, q)
    \/ \E status \in Endings : Ended(r, status)
    \/ EndedUnheard(r)

Next ==
    \/ \E t \in Thread, r \in RunId : Sending(t, r)
    \/ \E r \in RunId : Stop(r) \/ Answering(r) \/ Event(r)
    \/ \E r \in RunId, n \in 0..(MaxEvents + 2) : Acknowledge(r, n)
    \/ BatchTimerFires
    \/ \E w \in Window : Subscribe(w) \/ Unsubscribe(w)

Spec == Init /\ [][Next]_vars

-----------------------------------------------------------------------------
(* Properties *)

\* Every variable keeps its shape: the table holds runs filed under their own
\* thread, the queue and the channels hold updates.
TypeOK ==
    /\ revision \in Nat
    /\ runs \in [Thread -> Run \cup {NoRun}]
    /\ threadOf \in [RunId -> Thread \cup {NoThread}]
    /\ accepted \subseteq RunId \X Question
    /\ queue \in Seq(Update)
    /\ subscribers \subseteq Window
    /\ channel \in [Window -> Seq(Seq(Update))]
    /\ turn \in [RunId -> {"unused", "active", "ended"}]
    /\ told \subseteq RunId
    /\ answered \subseteq RunId \X Interaction

\* threadIdByRunId and runsByThreadId are the two halves of one relation, after
\* any sequence of sends, replacements and removals: no stale id finds another
\* run, and no run of the table is unreachable by its id.
IndexMatchesTable ==
    /\ \A r \in RunId : threadOf[r] # NoThread => runs[threadOf[r]] # NoRun /\ runs[threadOf[r]].id = r
    /\ \A t \in Thread : runs[t] # NoRun => threadOf[runs[t].id] = t /\ runs[t].thread = t

\* The status a window shows is the one the pending interactions call for,
\* whatever order requests, answers, failures and the start arrived in: a run
\* waits exactly when something is pending, approvals first, and a terminal
\* run has nothing left to answer.
StatusMatchesInteractions ==
    \A t \in Thread : runs[t] # NoRun =>
        IF runs[t].status \in LiveStatus
        THEN runs[t].status = StatusAfterInteraction(runs[t])
        ELSE runs[t].permissions = {} /\ runs[t].questions = {}

\* Two windows may answer the same request; the runtime hears one of them: a
\* request whose answer is with the runtime is not pending, so nobody can
\* answer it again.
AnsweredAtMostOnce ==
    \A a \in answered : IsLive(a[1]) => a[2] \notin RunOf(a[1]).permissions \cup RunOf(a[1]).questions

\* A question whose answer is with the runtime can be asked again if the answer
\* fails: its accepted response is kept exactly as long as that may happen.
AcceptedUntilSettled ==
    \A r \in RunId : IsLive(r) =>
        {q \in Question : <<r, q>> \in accepted} = {q \in Question : <<r, q>> \in answered}

\* A turn the authority no longer shows as live has been told to stop: a run
\* failed for the payload limit, and possibly replaced by the thread's next
\* run, never leaves a runtime working unseen.
OrphanTurnIsStopped ==
    \A r \in RunId : turn[r] = "active" /\ ~IsLive(r) => r \in told

\* The updates that wait for the timer are exactly the last revisions, in order:
\* a dispatch never publishes past an update it leaves behind, so every
\* subscriber can apply what it is sent on top of what it was sent before.
QueueReachesRevision ==
    \A i \in DOMAIN queue :
        queue[i].revision = revision - Len(queue) + i /\ queue[i].base + 1 = queue[i].revision

\* A terminal run never changes again: a late event, answer, stop or payload
\* failure can only find it unchanged, removed or replaced.
TerminalRunIsFinal ==
    [][\A t \in Thread : runs[t] # NoRun /\ runs[t].status \in TerminalStatus =>
          runs'[t] \in {runs[t], NoRun} \/ runs'[t].id # runs[t].id]_vars
=============================================================================
