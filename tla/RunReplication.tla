--------------------------- MODULE RunReplication ---------------------------
(***************************************************************************)
(* The runs as the windows see them: RunAuthority, the IPC channel to each *)
(* window, and the chat run coordinator of each renderer                   *)
(* (renderer/hooks/useChatRun.ts).  A coordinator keeps a replica of the   *)
(* run table, applies changes that extend it, asks for a new snapshot when *)
(* one does not, and hands every event to the callbacks of the request or  *)
(* the observer of the run's thread.                                       *)
(*                                                                         *)
(* Changes arrive in the order they were published.  The reply to          *)
(* subscribe is sent a microtask after the snapshot is taken: changes      *)
(* published later may overtake it, changes published before it may not.   *)
(* A request is identified with the run id drawn for it.  A window may be   *)
(* closed at any time, and another one opened in its place.                *)
(***************************************************************************)
EXTENDS RunAuthority, FiniteSetsExt

CONSTANTS
    NoState,    \* a replica that never received a snapshot
    Bounded,    \* whether a snapshot may exceed the IPC limit
    StrictMode, \* whether React mounts every effect twice, as development builds do
    MaxCloses   \* bound on the windows that are closed

VARIABLES
    listening,  \* windows whose coordinator listens to changes
    replica,    \* authorityState of each window
    syncing,    \* windows whose subscribe call is on its way (chatAuthoritySync)
    resync,     \* windows that need another one (chatAuthorityResyncRequested)
    calls,      \* subscribe and unsubscribe calls not yet handled, per window
    replies,    \* snapshots not yet received, and how many changes go before each
    sends,      \* chat:send calls not yet handled
    results,    \* results of chat:send not yet received
    pending,    \* requests of each window without an end (pendingByRequestKey)
    busy,       \* threads of each window that take no request (requestKeyByThreadId)
    observer,   \* run the observer of each thread is bound to
    delivered,  \* deliveredEventCountByRunId of each window
    stored,     \* runEventCount of the run's message in App State
    closes,     \* windows closed so far
    holes       \* history: runs of which an event was passed over

syncVars == <<listening, syncing, resync, calls, replies>>
requestVars == <<sends, results>>
clientVars == <<replica, pending, busy, observer, delivered, stored, holes>>
windowVars == <<syncVars, requestVars, clientVars, closes>>
allVars == <<vars, windowVars>>

\* The runs a window can be shown.
RunTable == {table \in SUBSET Run : IsFiniteSet(table)}

\* A snapshot, and the state of a replica: the runs, and those of them whose
\* events were left out.
State == [revision : Nat, runs : RunTable, bare : SUBSET RunId]

\* The answer to a subscribe call.
Reply == [state : State, behind : Nat]

ASSUME RunReplicationAssumption ==
    /\ Bounded \in BOOLEAN /\ StrictMode \in BOOLEAN /\ MaxCloses \in Nat
    /\ NoState \notin State
    /\ IsFiniteSet(Thread) /\ IsFiniteSet(Window)

Table == {runs[t] : t \in Thread} \ {NoRun}

-----------------------------------------------------------------------------
(* The coordinator's update of one change *)

\* What a window holds while it applies a change.
Client(w) == [state |-> replica[w], ok |-> TRUE, delivered |-> delivered[w],
              pending |-> pending[w], busy |-> busy[w], observer |-> observer[w], holes |-> holes[w],
              stored |-> stored]

\* getRunTarget, for the window's pending requests and observers.
HasTarget(c, run) == <<run.id, run.thread>> \in c.pending \/ c.observer[run.thread] # NoId

\* The run whose message the target writes.  An observer bound to a run that
\* was replaced ignores the events of the next (handleEvent returns early) and
\* still counts them.
Heard(c, run) == IF <<run.id, run.thread>> \in c.pending THEN run.id ELSE c.observer[run.thread]

Larger(a, b) == IF a < b THEN b ELSE a

\* Mutant of Delivered: the end of a run does not end its request.
DeliveredStillPending(c, run) ==
    [c EXCEPT !.delivered[run.id] = run.count,
              !.stored[Heard(c, run)] = Larger(@, run.count)]

\* finishPendingRun, at the end of a run its target does not ignore: clearPending ends
\* the request.  It frees the thread for the next one, also when the target is an
\* observer and another request of the thread has no answer yet.
Ends(c, run) == run.status \in TerminalStatus /\ Heard(c, run) = run.id

\* The callbacks have been given the run's events up to its count: the count is
\* written to the message, and a request whose run has ended is finished.
Delivered(c, run) ==
    [c EXCEPT !.delivered[run.id] = run.count,
              !.stored[Heard(c, run)] = Larger(@, run.count),
              !.pending = IF Ends(c, run) THEN @ \ {<<run.id, run.thread>>} ELSE @,
              !.busy = IF Ends(c, run) THEN @ \ {run.thread} ELSE @]

Due(c, run) == HasTarget(c, run) /\ c.delivered[run.id] < run.count

\* deliverRunSnapshot for each run that is shown: the compacted events stand for all of
\* them.  Of a run whose events were left out the callbacks hear nothing but its count.
DeliverSnapshot(c, shown) ==
    LET due == {run \in shown : Due(c, run)}
        full == {run \in due : run.id \notin c.state.bare}
        ended == {run \in full : Ends(c, run)}
        heard(r) == {run \in due : Heard(c, run) = r}
    IN  [c EXCEPT
            !.delivered = [r \in RunId |-> IF \E run \in due : run.id = r
                                           THEN (CHOOSE run \in due : run.id = r).count ELSE @[r]],
            !.stored = [r \in RunId |-> Max({@[r]} \cup {run.count : run \in heard(r)})],
            !.pending = @ \ {<<run.id, run.thread>> : run \in ended},
            !.busy = @ \ {run.thread : run \in ended},
            !.holes = @ \cup {run.id : run \in due \ full}]

\* One event: its callback follows the one before it, or there is a hole.
\* The failure event of the payload limit stands for events never published.
DeliverEvent(c, run) ==
    LET follows == c.delivered[run.id] + 1 = run.count \/ run.status = "failed"
    IN  IF Due(c, run)
        THEN [Delivered(c, run) EXCEPT
                 !.holes = IF follows THEN @ ELSE @ \cup {run.id}]
        ELSE c

\* Mutant of ApplyUpdate: a run that is removed or replaced stays in the replica.
ApplyUpdateKeepingGone(c, update) ==
    LET seen == c.state # NoState /\ update.revision <= c.state.revision
        next == c.state # NoState /\ update.base = c.state.revision
        left == IF update.gone = NoId THEN c ELSE [c EXCEPT !.delivered[update.gone] = 0]
        table == IF update.run = NoRun THEN c.state.runs
                 ELSE {run \in c.state.runs : run.id # update.run.id} \cup {update.run}
        moved == [left EXCEPT !.state = [revision |-> update.revision, runs |-> table, bare |-> @.bare]]
    IN  CASE ~c.ok \/ seen -> c
          [] c.ok /\ ~seen /\ ~next -> [c EXCEPT !.ok = FALSE]
          [] OTHER -> IF update.event THEN DeliverEvent(moved, update.run) ELSE moved

\* The runs an update leaves behind: without the one that was removed or
\* replaced, and with its own in place of the version before.
Applied(table, update) ==
    LET kept == {run \in table : run.id # update.gone}
    IN  IF update.run = NoRun THEN kept
        ELSE {run \in kept : run.id # update.run.id} \cup {update.run}

\* applyAuthorityUpdate for one update: already seen, a gap, or the next one.
ApplyUpdate(c, update) ==
    LET seen == c.state # NoState /\ update.revision <= c.state.revision
        next == c.state # NoState /\ update.base = c.state.revision
        left == IF update.gone = NoId THEN c ELSE [c EXCEPT !.delivered[update.gone] = 0]
        moved == [left EXCEPT !.state = [revision |-> update.revision,
                                         runs |-> Applied(c.state.runs, update),
                                         bare |-> c.state.bare \ {update.gone}]]
    IN  CASE ~c.ok \/ seen -> c
          [] c.ok /\ ~seen /\ ~next -> [c EXCEPT !.ok = FALSE]
          [] OTHER -> IF update.event THEN DeliverEvent(moved, update.run) ELSE moved

\* One update after the other.
ApplyChange(w, change) ==
    LET after[n \in 0..Len(change)] ==
            IF n = 0 THEN Client(w) ELSE ApplyUpdate(after[n - 1], change[n])
    IN  after[Len(change)]

\* Mutant of ApplySnapshot: the runs are shown, their events are not delivered.
ApplySnapshotUndelivered(w, snapshot) ==
    IF replica[w] # NoState /\ snapshot.revision < replica[w].revision THEN Client(w)
    ELSE [Client(w) EXCEPT !.state = snapshot]

\* applyAuthorityState: a snapshot older than the replica is ignored.
ApplySnapshot(w, snapshot) ==
    LET c == Client(w)
        known == {run.id : run \in snapshot.runs}
        reset == [c EXCEPT !.state = snapshot,
                           !.delivered = [r \in RunId |-> IF r \in known THEN @[r] ELSE 0]]
    IN  IF c.state # NoState /\ snapshot.revision < c.state.revision
        THEN c
        ELSE DeliverSnapshot(reset, snapshot.runs)

\* Write back what a window holds after applying c.
Become(w, c) ==
    /\ replica' = [replica EXCEPT ![w] = c.state]
    /\ delivered' = [delivered EXCEPT ![w] = c.delivered]
    /\ pending' = [pending EXCEPT ![w] = c.pending]
    /\ busy' = [busy EXCEPT ![w] = c.busy]
    /\ observer' = [observer EXCEPT ![w] = c.observer]
    /\ holes' = [holes EXCEPT ![w] = c.holes]
    /\ stored' = c.stored

-----------------------------------------------------------------------------
(* Actions of a window *)

\* syncAuthorityState: one subscribe call at a time, another one afterwards.
Sync(w) ==
    IF w \in syncing
    THEN /\ resync' = resync \cup {w}
         /\ UNCHANGED <<syncing, calls>>
    ELSE /\ syncing' = syncing \cup {w}
         /\ calls' = [calls EXCEPT ![w] = Append(@, "subscribe")]
         /\ UNCHANGED resync

\* ensureChatListener, by the first component that uses the coordinator.
Mount(w) ==
    /\ w \notin listening /\ ~StrictMode
    /\ listening' = listening \cup {w}
    /\ Sync(w)
    /\ UNCHANGED <<vars, replies, requestVars, clientVars, closes>>

\* The same under StrictMode (main.tsx), which mounts, unmounts and mounts every
\* effect of the first commit: teardownChatListener runs with the first
\* subscribe on its way, so the second mount can only ask for a resync.
MountTwice(w) ==
    /\ w \notin listening /\ StrictMode
    /\ listening' = listening \cup {w}
    /\ syncing' = syncing \cup {w}
    /\ resync' = resync \cup {w}
    /\ calls' = [calls EXCEPT ![w] = <<"subscribe", "unsubscribe">>]
    /\ UNCHANGED <<vars, replies, requestVars, clientVars, closes>>

\* compactReplayState: a snapshot that exceeds the limit leaves out the events
\* of runs that have ended.
LeftOut == IF Bounded THEN SUBSET {run.id : run \in {t \in Table : t.status \in TerminalStatus}} ELSE {{}}

\* The Main Process handles the window's next subscribe or unsubscribe.
HandleCall(w) ==
    /\ calls[w] # <<>>
    /\ calls' = [calls EXCEPT ![w] = Tail(@)]
    /\ \/ /\ Head(calls[w]) = "subscribe"
          /\ Subscribe(w)
          /\ \E bare \in LeftOut :
                LET snapshot == [revision |-> revision, runs |-> Table, bare |-> bare]
                IN  replies' = [replies EXCEPT ![w] = Append(@, [state |-> snapshot, behind |-> Len(channel[w])])]
       \/ /\ Head(calls[w]) = "unsubscribe"
          /\ Unsubscribe(w)
          /\ UNCHANGED replies
    /\ UNCHANGED <<listening, syncing, resync, requestVars, clientVars, closes>>

\* The Composer's effect removes an observer whose run is gone, or has ended and
\* is stored in full.  React has run it before the next message is handled.
Outlived(w, t) ==
    /\ observer[w][t] # NoId
    /\ \A run \in replica[w].runs :
          run.id = observer[w][t] => run.status \in TerminalStatus /\ stored[run.id] >= run.count

EffectsFlushed(w) == \A t \in Thread : ~Outlived(w, t)

\* Mutant of ReceiveReply: the resync that was asked for is forgotten.
ReceiveReplyForgetting(w) ==
    /\ replies[w] # <<>> /\ Head(replies[w]).behind = 0
    /\ EffectsFlushed(w)
    /\ replies' = [replies EXCEPT ![w] = Tail(@)]
    /\ Become(w, ApplySnapshot(w, Head(replies[w]).state))
    /\ syncing' = syncing \ {w}
    /\ UNCHANGED <<vars, listening, resync, calls, requestVars, closes>>

\* A snapshot arrives; a resync asked for in the meantime starts at once.
ReceiveReply(w) ==
    /\ replies[w] # <<>> /\ Head(replies[w]).behind = 0
    /\ EffectsFlushed(w)
    /\ replies' = [replies EXCEPT ![w] = Tail(@)]
    /\ Become(w, ApplySnapshot(w, Head(replies[w]).state))
    /\ IF w \in resync
       THEN /\ resync' = resync \ {w}
            /\ calls' = [calls EXCEPT ![w] = Append(@, "subscribe")]
            /\ UNCHANGED syncing
       ELSE /\ syncing' = syncing \ {w}
            /\ UNCHANGED <<resync, calls>>
    /\ UNCHANGED <<vars, listening, requestVars, closes>>

\* One change less goes before the reply.
Nearer(reply) == [reply EXCEPT !.behind = IF @ = 0 THEN 0 ELSE @ - 1]

\* The first change of the channel is taken off it.
TakeChange(w) ==
    /\ channel[w] # <<>>
    /\ channel' = [channel EXCEPT ![w] = Tail(@)]
    /\ replies' = [replies EXCEPT ![w] = [i \in DOMAIN @ |-> Nearer(@[i])]]
    /\ UNCHANGED <<revision, runs, threadOf, accepted, queue, subscribers, turn, told, answered>>

\* A change arrives: applied, or answered by a sync when it leaves a gap.
ReceiveChange(w) ==
    LET c == ApplyChange(w, Head(channel[w]))
    IN  /\ w \in listening
        /\ EffectsFlushed(w)
        /\ TakeChange(w)
        /\ Become(w, c)
        /\ IF c.ok THEN UNCHANGED <<syncing, resync, calls>> ELSE Sync(w)
        /\ UNCHANGED <<listening, requestVars, closes>>

\* beginRequest and the chat:send call it is followed by.  A window shows its
\* Composer once App State is hydrated, when its first snapshot has arrived.
BeginRequest(w, t, r) ==
    /\ replica[w] # NoState
    /\ turn[r] = "unused"
    /\ \A v \in Window, u \in Thread : <<r, u>> \notin pending[v]
    /\ \A s \in sends \cup results : s.id # r
    /\ t \notin busy[w]
    /\ \A run \in replica[w].runs : run.thread = t => run.status \in TerminalStatus
    /\ pending' = [pending EXCEPT ![w] = @ \cup {<<r, t>>}]
    /\ busy' = [busy EXCEPT ![w] = @ \cup {t}]
    /\ sends' = sends \cup {[window |-> w, thread |-> t, id |-> r]}
    /\ UNCHANGED <<vars, syncVars, results, replica, observer, delivered, stored, holes, closes>>

\* chat:send, after its check of the project directory: the authority decides.
\* The calls a window made before are handled before.
HandleSend(s) ==
    /\ s \in sends
    /\ calls[s.window] = <<>>
    /\ sends' = sends \ {s}
    /\ \/ /\ Send(s.thread, s.id)
          /\ results' = results \cup {[window |-> s.window, thread |-> s.thread, id |-> s.id, accepted |-> TRUE]}
       \/ /\ \/ SendRefusedByRuntime(s.thread, s.id)
             \/ SendOverLimit(s.thread, s.id)
             \/ UNCHANGED vars
          /\ results' = results \cup {[window |-> s.window, thread |-> s.thread, id |-> s.id, accepted |-> FALSE]}
    /\ UNCHANGED <<syncVars, clientVars, closes>>

\* The result of chat:send: attachRunId keeps the request, rejectRequest and
\* failRequest drop it, if the window still has it.
ReceiveResult(s) ==
    /\ s \in results
    /\ results' = results \ {s}
    /\ IF ~s.accepted /\ <<s.id, s.thread>> \in pending[s.window]
       THEN /\ pending' = [pending EXCEPT ![s.window] = @ \ {<<s.id, s.thread>>}]
            /\ busy' = [busy EXCEPT ![s.window] = @ \ {s.thread}]
       ELSE UNCHANGED <<pending, busy>>
    /\ UNCHANGED <<vars, syncVars, sends, replica, observer, delivered, stored, holes, closes>>

\* observeThread, by a Composer that shows a run it knows from App State with
\* n of its events in the message.  App State reaches a window behind the change
\* that carried the n-th event, on the same IPC connection.
Observe(w, t, run, n) ==
    /\ w \in listening
    /\ replica[w] # NoState
    /\ run \in replica[w].runs /\ run.thread = t
    /\ n <= stored[run.id] /\ n <= run.count
    /\ ~(run.status \in TerminalStatus /\ n >= run.count)
    /\ Become(w, DeliverSnapshot([Client(w) EXCEPT !.observer[t] = run.id,
                                                   !.delivered[run.id] = Larger(@, n)], {run}))
    /\ UNCHANGED <<vars, syncVars, requestVars, closes>>

\* The Composer's effect is cleaned up.
Unobserve(w, t) ==
    /\ observer[w][t] # NoId
    /\ observer' = [observer EXCEPT ![w][t] = NoId]
    /\ UNCHANGED <<vars, syncVars, requestVars, replica, pending, busy, delivered, stored, holes, closes>>

\* A window is closed, with all it holds and all that is on its way to it, and
\* makes room for another one.  What it applied to a message since App State was
\* last stored is lost, as far as no other window has applied it; a call of
\* chat:send on its way is still handled.
Close(w) ==
    /\ w \in listening
    /\ closes < MaxCloses
    /\ closes' = closes + 1
    /\ listening' = listening \ {w} /\ syncing' = syncing \ {w} /\ resync' = resync \ {w}
    /\ calls' = [calls EXCEPT ![w] = <<>>]
    /\ replies' = [replies EXCEPT ![w] = <<>>]
    /\ channel' = [channel EXCEPT ![w] = <<>>]
    /\ subscribers' = subscribers \ {w}
    /\ replica' = [replica EXCEPT ![w] = NoState]
    /\ pending' = [pending EXCEPT ![w] = {}] /\ busy' = [busy EXCEPT ![w] = {}]
    /\ observer' = [observer EXCEPT ![w] = [t \in Thread |-> NoId]]
    /\ delivered' = [delivered EXCEPT ![w] = [r \in RunId |-> 0]]
    /\ \/ UNCHANGED stored
       \/ stored' = [r \in RunId |-> IF Known(r) THEN Max({delivered[v][r] : v \in Window \ {w}} \cup {0})
                                                  ELSE stored[r]]
    /\ UNCHANGED <<revision, runs, threadOf, accepted, queue, turn, told, answered, sends, results, holes>>

-----------------------------------------------------------------------------
(* Specification *)

ReplicationInit ==
    /\ Init
    /\ listening = {}
    /\ replica = [w \in Window |-> NoState]
    /\ syncing = {}
    /\ resync = {}
    /\ calls = [w \in Window |-> <<>>]
    /\ replies = [w \in Window |-> <<>>]
    /\ sends = {}
    /\ results = {}
    /\ pending = [w \in Window |-> {}] /\ busy = [w \in Window |-> {}]
    /\ observer = [w \in Window |-> [t \in Thread |-> NoId]]
    /\ delivered = [w \in Window |-> [r \in RunId |-> 0]]
    /\ stored = [r \in RunId |-> 0]
    /\ closes = 0
    /\ holes = [w \in Window |-> {}]

\* A step of the authority that no window takes part in.  What a window has
\* applied is stored in the message, and storing it acknowledges the run.
AuthorityStep ==
    /\ \/ \E r \in RunId : Stop(r) \/ Answering(r) \/ Event(r) \/ Acknowledge(r, stored[r])
       \/ BatchTimerFires
    /\ UNCHANGED windowVars

WindowStep(w) ==
    \/ Mount(w)
    \/ MountTwice(w)
    \/ HandleCall(w)
    \/ ReceiveReply(w)
    \/ ReceiveChange(w)
    \/ Close(w)
    \/ \E t \in Thread, r \in RunId : BeginRequest(w, t, r)
    \/ \E t \in Thread : Unobserve(w, t)
    \/ \E t \in Thread, n \in 0..(MaxEvents + 2) :
          replica[w] # NoState /\ \E run \in replica[w].runs : Observe(w, t, run, n)

ReplicationNext ==
    \/ AuthorityStep
    \/ \E w \in Window : WindowStep(w)
    \/ \E s \in sends : HandleSend(s)
    \/ \E s \in results : ReceiveResult(s)

\* The timer fires, the Main Process answers, and the renderer's event loop gets
\* to every message: strongly, since a Composer may come and go meanwhile.
ReplicationFairness ==
    /\ WF_allVars(BatchTimerFires /\ UNCHANGED windowVars)
    /\ \A w \in Window : WF_allVars(HandleCall(w))
    /\ \A w \in Window : SF_allVars(ReceiveReply(w))
    /\ \A w \in Window : SF_allVars(ReceiveChange(w))
    /\ \A w \in Window, t \in Thread : WF_allVars(Outlived(w, t) /\ Unobserve(w, t))

ReplicationSpec == ReplicationInit /\ [][ReplicationNext]_allVars /\ ReplicationFairness

-----------------------------------------------------------------------------
(* Properties *)

\* The calls, messages and windows keep their shape.
ReplicationTypeOK ==
    /\ listening \subseteq Window /\ syncing \subseteq Window /\ resync \subseteq Window
    /\ calls \in [Window -> Seq({"subscribe", "unsubscribe"})]
    /\ replies \in [Window -> Seq(Reply)]
    /\ sends \subseteq [window : Window, thread : Thread, id : RunId]
    /\ results \subseteq [window : Window, thread : Thread, id : RunId, accepted : BOOLEAN]
    /\ replica \in [Window -> State \cup {NoState}]
    /\ pending \in [Window -> SUBSET (RunId \X Thread)] /\ busy \in [Window -> SUBSET Thread]
    /\ observer \in [Window -> [Thread -> RunId \cup {NoId}]]
    /\ delivered \in [Window -> [RunId -> Nat]] /\ stored \in [RunId -> Nat]
    /\ closes \in 0..MaxCloses
    /\ holes \in [Window -> SUBSET RunId]

\* Two windows at the same revision show the same runs, and a window at the
\* authority's revision shows the authority's runs, whatever mixture of
\* snapshots, batches, removals and replacements brought it there.
ReplicaAgrees ==
    \A w \in Window : replica[w] # NoState =>
        /\ replica[w].revision <= revision
        /\ replica[w].revision = revision => replica[w].runs = Table
        /\ \A v \in Window :
              replica[v] # NoState /\ replica[v].revision = replica[w].revision =>
                  replica[v].runs = replica[w].runs

\* A window that shows a run to a request or an observer has given it every event it
\* shows, and the event it gave last always followed the one it had counted before:
\* whatever snapshots and changes it took up, none was passed over, of a run that has
\* not failed.  It says what is handed to the target.  An observer that is still bound
\* to a run that was replaced is handed the next run's events and ignores them.
NoEventSkipped ==
    \A w \in Window :
        /\ holes[w] = {}
        /\ replica[w] # NoState =>
              \A run \in replica[w].runs :
                  HasTarget(Client(w), run) => delivered[w][run.id] >= run.count

\* What a window has counted of a run is stored in the run's message.  It is not
\* what the code does: an observer bound to a run that was replaced counts the
\* events of the next one and writes none of them.  No run checks it; README.md
\* says how to see it.
CountedIsStored == \A w \in Window, r \in RunId : delivered[w][r] <= stored[r]

\* A request does not outlive its run: once its result has arrived and the window
\* has caught up, it is pending only while the run is live.  Until then the
\* coordinator may refuse every other request for the thread; it refuses none
\* without such a request.
RequestEndsWithRun ==
    \A w \in Window :
        /\ busy[w] \subseteq {p[2] : p \in pending[w]}
        /\ \A p \in pending[w] :
              \/ \E s \in sends \cup results : s.id = p[1]
              \/ replica[w] = NoState \/ replica[w].revision < revision
              \/ IsLive(p[1])

\* A listening window catches up with the authority, however its snapshots and
\* changes were interleaved.
WindowsCatchUp ==
    \A w \in Window :
        <>[](w \in listening) => <>[](replica[w] # NoState /\ replica[w].revision = revision)
=============================================================================
