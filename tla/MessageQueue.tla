---------------------------- MODULE MessageQueue ----------------------------
(***************************************************************************)
(* The messages a user writes while a Thread's run is active, in one       *)
(* window: the queue of chatMessageQueue.ts, the Composer that sends its   *)
(* head when the run ends (or at once, when the user steers), and the App  *)
(* State copy through which the windows share the queue and through which  *)
(* it survives a reload.  The other windows are the environment: they      *)
(* start runs of the Thread and replace its queue in App State.            *)
(*                                                                         *)
(* React runs a component's effects after it has rendered.  The effect     *)
(* that compares the queue with App State acts on the App State it was     *)
(* rendered with: `due` says that a broadcast was rendered and its effects *)
(* have not run.  A change of the queue renders at once: it first runs the *)
(* effects that are due, then the comparison for the change itself.        *)
(*                                                                         *)
(* A command or a send is processed when it is made, and the answer takes  *)
(* its time: a request on its way could only be overtaken by steps of the  *)
(* other windows, which may as well come before it.                        *)
(***************************************************************************)
EXTENDS Naturals, SequencesExt

CONSTANTS
    Message,      \* messages the user queues in this window, each written once
    Foreign,      \* messages queued in other windows, each written once
    None,
    MaxSends,     \* bound: runs asked for, here or elsewhere
    MaxEvents,    \* bound: sends refused for another reason than a live run, submissions
                  \* for another than a stale one, Composers unmounted, reloads of the window
    MaxElsewhere  \* bound: commands of other windows

ASSUME QueueConstants ==
    /\ Message \cap Foreign = {}
    /\ None \notin [msg : Message \cup Foreign, confirm : BOOLEAN]
    /\ {MaxSends, MaxEvents, MaxElsewhere} \subseteq Nat

VARIABLES
    local,     \* the window's queue, its live and spent ids, and its App State copy; history:
               \* `behind`, its last submission was given up and the copy not replaced since
    due,       \* effects of a rendered broadcast have not run
    composer,  \* the mounted Composer's references
    flying,    \* queued messages handed to handleSend()
    request,   \* the coordinator's pending request and finalization
    view,      \* the Thread's run in the window's replica
    down,      \* messages on their way to the window
    stored, older,  \* the Thread's queue in the authority, and the one before it
    run, stopping,  \* the Thread's run in the Main Process, and whether it was told to stop
    left,      \* what is left of each bound
    written,   \* history: when a message was written: "never", "now", or "before" a reload
    sent,      \* history: messages this window sent whose run was accepted
    promised   \* history: the last Steer was for a run this Composer had sent

copies   == <<local, due>>
appState == <<stored, older>>
runs     == <<run, stopping>>
history  == <<written, sent, promised>>
vars == <<copies, composer, flying, request, view, down, appState, runs, left, history>>

Live(r) == r.status = "live"
NoRun == [n |-> 0, here |-> FALSE, status |-> "none"]
Away == [mounted |-> FALSE, steer |-> None, was |-> FALSE, drain |-> FALSE]
Here == [Away EXCEPT !.mounted = TRUE]
Quiet == [pending |-> FALSE, final |-> "no", mine |-> FALSE]

\* hydrateThreadWork(): every message App State holds is to be confirmed.
Hydrated(ids) ==
    [queue |-> [i \in DOMAIN ids |-> [msg |-> ids[i], confirm |-> TRUE]],
     live |-> {}, spent |-> {}, work |-> ids, dirty |-> FALSE, waiting |-> FALSE,
     behind |-> FALSE]

Init ==
    /\ local = Hydrated(<<>>) /\ due = FALSE
    /\ composer = Here /\ flying = {} /\ request = Quiet
    /\ view = NoRun /\ down = <<>>
    /\ stored = <<>> /\ older = <<>>
    /\ run = NoRun /\ stopping = FALSE
    /\ left = [send |-> MaxSends, event |-> MaxEvents, elsewhere |-> MaxElsewhere]
    /\ written = [m \in Message |-> "never"] /\ sent = {} /\ promised = FALSE

\* The timer of 0 ms that hands an item to handleSend() fires before a debounce of 250 ms
\* does and before the user can press a button.
NoTimer == \A f \in flying : f.sent
AtKeyboard == composer.mounted /\ NoTimer

Spend(what) == left[what] > 0 /\ left' = [left EXCEPT ![what] = @ - 1]
-----------------------------------------------------------------------------
(***************************************************************************)
(* The queue, and its comparison with the App State copy.                  *)
(***************************************************************************)

\* filter(): what of s is in S.
Only(s, S) ==
    LET only[n \in 0..Len(s)] ==
            IF n = 0 THEN <<>> ELSE IF s[n] \in S THEN Append(only[n - 1], s[n]) ELSE only[n - 1]
    IN only[Len(s)]

Ids(queue) == [i \in DOMAIN queue |-> queue[i].msg]
Queued(c) == ToSet(Ids(c.queue))
ItemOf(c, m) == c.queue[CHOOSE i \in DOMAIN c.queue : c.queue[i].msg = m]

Enqueued(c, m) ==
    [c EXCEPT !.queue = Append(@, [msg |-> m, confirm |-> FALSE]),
              !.live = @ \cup {m}, !.spent = @ \ {m}]

Removed(c, m) ==
    [c EXCEPT !.queue = Only(@, {item \in ToSet(@) : item.msg # m}),
              !.live = @ \ {m}, !.spent = @ \cup {m}]

\* Only an item that is not to be confirmed is live again.
Unshifted(c, item) ==
    [c EXCEPT !.queue = <<item>> \o @,
              !.live = IF item.confirm THEN @ ELSE @ \cup {item.msg},
              !.spent = @ \ {item.msg}]

\* shiftQueuedChatMessage() hands out the head and leaves the rest: none if the head is to be
\* confirmed.
Shiftable(c) == c.queue # <<>> /\ ~Head(c.queue).confirm
Shifted(c) ==
    [c EXCEPT !.queue = Tail(@),
              !.live = @ \ {Head(c.queue).msg}, !.spent = @ \cup {Head(c.queue).msg}]

Differs(c) == Ids(c.queue) # c.work

\* updateThreadContent() with the window's queue.
Pushed(c) == IF Differs(c) THEN [c EXCEPT !.work = Ids(c.queue), !.dirty = TRUE] ELSE c

\* Mutant: a message of the App State copy is taken over without being confirmed.
TakenUnasked(c, m) == IF m \in Queued(c) THEN ItemOf(c, m) ELSE [msg |-> m, confirm |-> FALSE]

\* An item of the App State copy as the window takes it over: its own if it has it, and
\* else one to be confirmed, unless the window has queued it itself.
Taken(c, m) ==
    IF m \in Queued(c) THEN ItemOf(c, m) ELSE [msg |-> m, confirm |-> m \notin c.live]

\* syncThreadWorkFromSnapshot(): ids App State no longer holds need no tombstone, and the
\* queue becomes that of the copy without the ids the window has spent.
Synced(c) ==
    IF ~Differs(c) THEN c
    ELSE LET spent == c.spent \cap ToSet(c.work)
             kept == Only(c.work, ToSet(c.work) \ spent)
         IN [c EXCEPT !.spent = spent, !.queue = [i \in DOMAIN kept |-> Taken(c, kept[i])]]

\* The queue changes to that of c: the effects that are due, then the comparison.
Change(c) ==
    /\ local' = Pushed(IF due THEN Synced(c) ELSE c)
    /\ due' = FALSE

\* The effects of a rendered broadcast run by themselves.
PassiveEffects ==
    /\ due
    /\ Change(local)
    /\ UNCHANGED <<composer, flying, request, view, down, appState, runs, left, history>>
-----------------------------------------------------------------------------
(***************************************************************************)
(* App State: the window submits its queue, the authority broadcasts.      *)
(***************************************************************************)

Store(work) == stored' = work /\ older' = stored
State(answer) == [type |-> "state", work |-> stored', answer |-> answer]
Stale == [type |-> "stale"]
Refused == [type |-> "refused"]

\* Each revision is broadcast once: the window has seen the current one if none is on its way.
UpToDate == \A i \in DOMAIN down : down[i].type # "state"

\* flushPendingContent(): thread-work:update with the whole queue, refused as stale unless
\* the window has seen the current revision, or at any time for another reason: App State is
\* locked by a deletion, a relocation or a reread, the row is not written, the call throws.
Submit ==
    /\ local.dirty /\ ~local.waiting /\ NoTimer
    /\ \/ /\ UpToDate /\ Store(local.work)
          /\ down' = Append(down, State(TRUE))
          /\ local' = [local EXCEPT !.dirty = FALSE, !.waiting = TRUE, !.behind = FALSE]
          /\ UNCHANGED left
       \/ /\ \/ ~UpToDate /\ down' = Append(down, Stale) /\ UNCHANGED left
             \/ Spend("event") /\ down' = Append(down, Refused)
          /\ local' = [local EXCEPT !.dirty = FALSE, !.waiting = TRUE]
          /\ UNCHANGED appState
    /\ UNCHANGED <<due, composer, flying, request, view, runs, history>>

\* Another window's command: it adds a message of its own or takes one out, in the queue
\* App State holds or in the one before, if its own edits kept it there; or it is a command
\* on another part of App State.
Elsewhere ==
    /\ Spend("elsewhere")
    /\ \/ \E work \in {stored, older} :
             \/ \E m \in Foreign \ ToSet(work) : Store(Append(work, m))
             \/ \E m \in ToSet(work) : Store(Only(work, ToSet(work) \ {m}))
       \/ UNCHANGED appState
    /\ down' = Append(down, State(FALSE))
    /\ UNCHANGED <<copies, composer, flying, request, view, runs, history>>

Arrives(type) == down # <<>> /\ Head(down).type = type /\ down' = Tail(down)

\* applyAuthorityState(): the copy follows the broadcast unless the window's own work is
\* dirty or in flight.  Effects still due run before the new copy is rendered, and what
\* they change is then compared with the new copy.  The broadcast of the window's own
\* command brings its answer: the work is kept until that revision has passed.
ReceiveState ==
    LET s == Head(down)
        kept == local.dirty \/ local.waiting
        late == due /\ Differs(local)
        next == [(IF late THEN Synced(local) ELSE local)
                    EXCEPT !.work = IF kept THEN @ ELSE s.work,
                           !.waiting = @ /\ ~s.answer,
                           !.behind = @ /\ kept]
    IN /\ Arrives("state")
       /\ local' = IF late THEN Pushed(next) ELSE next
       /\ due' = ~late
       /\ UNCHANGED <<composer, flying, request, view, appState, runs, left, history>>

\* Mutant: a stale submission is given up.
ReceiveStaleForgetting ==
    /\ Arrives("stale")
    /\ local' = [local EXCEPT !.waiting = FALSE]
    /\ UNCHANGED <<due, composer, flying, request, view, appState, runs, left, history>>

\* A stale submission is dirty again.
ReceiveStale ==
    /\ Arrives("stale")
    /\ local' = [local EXCEPT !.waiting = FALSE, !.dirty = TRUE]
    /\ UNCHANGED <<due, composer, flying, request, view, appState, runs, left, history>>

\* One refused for another reason is given up: the copy keeps what the window submitted, and
\* nothing submits it again or protects it from the next broadcast.
ReceiveRefused ==
    /\ Arrives("refused")
    /\ local' = [local EXCEPT !.waiting = FALSE, !.behind = TRUE]
    /\ UNCHANGED <<due, composer, flying, request, view, appState, runs, left, history>>
-----------------------------------------------------------------------------
(***************************************************************************)
(* Sending.                                                                *)
(***************************************************************************)

\* isThreadSending: a run is live in the replica, or the last one is being finalized.
Sending == Live(view) \/ request.final # "no"

\* beginRequest().
MayBegin == ~request.pending /\ ~Sending

Runs(r) == [type |-> "run", run |-> r]
Answer(ok, r) == [type |-> "sent", ok |-> ok, run |-> r]

StartRun(here) ==
    /\ ~Live(run)
    /\ run' = [n |-> run.n + 1, here |-> here, status |-> "live"]
    /\ stopping' = FALSE

\* send() of the items in `flights` by a Composer instance that is still mounted or not:
\* the Main Process accepts it, or refuses it as a run is live or the Thread is updated.
Begin(flights, mounted) ==
    LET msgs == {f.item.msg : f \in flights}
    IN /\ MayBegin /\ left.send > 0
       /\ request' = [request EXCEPT !.pending = TRUE, !.mine = mounted]
       /\ flying' = (flying \ flights) \cup {[f EXCEPT !.sent = TRUE] : f \in flights}
       /\ \/ /\ StartRun(TRUE)
             /\ down' = Append(down, Answer(TRUE, run'))
             /\ sent' = sent \cup msgs
             /\ Spend("send")
          \/ /\ down' = Append(down, Answer(FALSE, NoRun))
             /\ left' = [left EXCEPT !.send = @ - 1, !.event = IF Live(run) THEN @ ELSE @ - 1]
             /\ Live(run) \/ left.event > 0
             /\ UNCHANGED <<runs, sent>>
       /\ UNCHANGED <<view, appState, written, promised>>

\* handleSend() returns false before it reaches the Main Process: the request cannot begin,
\* or the Composer cannot send (the Thread is compacting, the runtime is unavailable).
NotBegun ==
    /\ \/ (~MayBegin \/ left.send = 0) /\ UNCHANGED left
       \/ MayBegin /\ Spend("event")
    /\ UNCHANGED <<request, view, down, appState, runs, history>>

\* A message written while no run is active is sent without the queue.
SendDirectly ==
    /\ AtKeyboard /\ ~composer.was
    /\ Begin({}, TRUE)
    /\ UNCHANGED <<copies, composer>>

\* A message written while a run is active is queued.
Compose(m) ==
    /\ AtKeyboard /\ composer.was
    /\ written[m] = "never"
    /\ written' = [written EXCEPT ![m] = "now"]
    /\ Change(Enqueued(local, m))
    /\ UNCHANGED <<composer, flying, request, view, down, appState, runs, left, sent,
                   promised>>

\* A queued message handed to handleSend(): "auto", the head at the end of a run; "steer",
\* the steered one then; or "now", by the user while the Thread is idle.
Flight(item, how) == [item |-> item, how |-> how, sent |-> FALSE, mounted |-> TRUE]

\* The Composer's effect: when the run has ended, and a drain was asked for or the run
\* completed, the steered item or else the head of the queue is handed to handleSend().
Drains == composer.drain \/ (composer.was /\ view.status = "completed")

ComposerEffect ==
    /\ composer.mounted /\ (composer.was # Sending \/ (composer.drain /\ ~Sending))
    /\ \/ /\ Sending
          /\ composer' = [composer EXCEPT !.was = TRUE]
          /\ UNCHANGED <<copies, flying>>
       \/ /\ ~Sending /\ ~Drains
          /\ composer' = [composer EXCEPT !.was = FALSE]
          /\ UNCHANGED <<copies, flying>>
       \/ /\ ~Sending /\ Drains
          /\ composer' = [composer EXCEPT !.was = FALSE, !.drain = FALSE, !.steer = None]
          /\ IF composer.steer # None
             THEN /\ flying' = flying \cup {Flight(composer.steer, "steer")}
                  /\ UNCHANGED copies
             ELSE IF Shiftable(local)
             THEN /\ flying' = flying \cup {Flight(Head(local.queue), "auto")}
                  /\ Change(Shifted(local))
             ELSE UNCHANGED <<copies, flying>>
    /\ UNCHANGED <<request, view, down, appState, runs, left, history>>

\* flushQueuedMessage(), after its timer: what was not sent is put back.
HandleSend == \E f \in flying :
    /\ ~f.sent
    /\ \/ Begin({f}, f.mounted) /\ UNCHANGED copies
       \/ NotBegun /\ flying' = flying \ {f} /\ Change(Unshifted(local, f.item))
    /\ UNCHANGED composer

\* The answer to a send.  A message sent at the end of a run is removed once more, as a
\* broadcast may have brought it back; one that was not sent is put back, and the request
\* given up.
ReceiveSent ==
    LET ok == Head(down).ok
        flights == {f \in flying : f.sent}
        flight == CHOOSE f \in flights : TRUE
        item == flight.item
        back == item.msg \in Queued(local) /\ flight.how # "now"
    IN /\ Arrives("sent")
       /\ view' = IF ok THEN Head(down).run ELSE view
       /\ request' = [request EXCEPT !.pending = @ /\ ok]
       /\ flying' = flying \ flights
       /\ IF flights = {} \/ (ok /\ ~back) THEN UNCHANGED copies
          ELSE Change(IF ok THEN Removed(local, item.msg) ELSE Unshifted(local, item))
       /\ UNCHANGED <<composer, appState, runs, left, history>>

\* Mutant: a second steered item takes the place of the first.
SteerAgain(m) ==
    /\ AtKeyboard /\ composer.was /\ m \in Queued(local)
    /\ composer' = [composer EXCEPT !.steer = ItemOf(local, m)]
    /\ Change(Removed(local, m))
    /\ stopping' = (stopping \/ (Live(run) /\ view = run))
    /\ promised' = (request.pending /\ request.mine /\ Live(view) /\ view.here)
    /\ UNCHANGED <<flying, request, view, down, appState, run, left, written, sent>>

\* Steer while the Thread is sending: one item at a time waits for the run to stop.
Steer(m) ==
    /\ AtKeyboard /\ composer.was /\ m \in Queued(local)
    /\ composer.steer = None
    /\ composer' = [composer EXCEPT !.steer = ItemOf(local, m)]
    /\ Change(Removed(local, m))
    /\ stopping' = (stopping \/ (Live(run) /\ view = run))
    /\ promised' = (request.pending /\ request.mine /\ Live(view) /\ view.here)
    /\ UNCHANGED <<flying, request, view, down, appState, run, left, written, sent>>

\* The same button while the Thread is idle: the item is sent at once.
SendNow(m) ==
    LET item == ItemOf(local, m)
        c == Removed(local, m)
    IN /\ AtKeyboard /\ ~composer.was /\ m \in Queued(local)
       /\ left.send > 0
       /\ \/ Begin({Flight(item, "now")}, TRUE) /\ Change(c)
          \/ NotBegun /\ Change(Unshifted(c, item)) /\ UNCHANGED flying
       /\ UNCHANGED composer

Delete(m) ==
    /\ AtKeyboard /\ m \in Queued(local)
    /\ Change(Removed(local, m))
    /\ UNCHANGED <<composer, flying, request, view, down, appState, runs, left, history>>
-----------------------------------------------------------------------------
(***************************************************************************)
(* The run and its end.                                                    *)
(***************************************************************************)

Stop ==
    /\ AtKeyboard /\ Live(run) /\ view = run /\ ~stopping
    /\ stopping' = TRUE
    /\ UNCHANGED <<copies, composer, flying, request, view, down, appState, run, left,
                   history>>

\* Another window sends a message of its own.
RunElsewhere ==
    /\ Spend("send") /\ StartRun(FALSE)
    /\ down' = Append(down, Runs(run'))
    /\ UNCHANGED <<copies, composer, flying, request, view, appState, history>>

FinishRun(status) ==
    /\ Live(run) /\ (status = "cancelled" => stopping)
    /\ run' = [run EXCEPT !.status = status]
    /\ stopping' = FALSE
    /\ down' = Append(down, Runs(run'))
    /\ UNCHANGED <<copies, composer, flying, request, view, appState, left, history>>

\* A change of the run.  The end of the run this window has requested calls onComplete,
\* onError or onStop of the Composer instance that sent it, whose references are gone if it
\* is no longer mounted; the Thread is finalizing until the workspace diff is captured.
ReceiveRun ==
    LET r == Head(down).run
        ends == ~Live(r) /\ request.pending /\ r.here
        steered == request.mine /\ composer.steer # None
        drains == r.status = "completed" \/ (r.status = "cancelled" /\ steered)
        failed == ends /\ r.status = "failed"
    IN /\ Arrives("run")
       /\ view' = r
       /\ request' = IF ~ends THEN request
                     ELSE [request EXCEPT !.pending = FALSE,
                                          !.final = IF drains THEN "drain" ELSE "plain"]
       /\ composer' = IF failed /\ request.mine
                      THEN [composer EXCEPT !.drain = FALSE, !.steer = None] ELSE composer
       /\ IF failed /\ steered THEN Change(Unshifted(local, composer.steer)) ELSE UNCHANGED copies
       /\ UNCHANGED <<flying, appState, runs, left, history>>

\* Mutant: nobody asks for a drain once the diff is captured.
CaptureDoneSilently ==
    /\ request.final # "no"
    /\ request' = [request EXCEPT !.final = "no"]
    /\ UNCHANGED <<copies, composer, flying, view, down, appState, runs, left, history>>

\* captureWorkspaceDiff() is through.  After onComplete, or onStop with a steered item, it
\* asks for a drain, which reaches the Composer only if its instance is still mounted.
CaptureDone ==
    /\ request.final # "no"
    /\ request' = [request EXCEPT !.final = "no"]
    /\ composer' = [composer EXCEPT !.drain = @ \/ (request.final = "drain" /\ request.mine)]
    /\ UNCHANGED <<copies, flying, view, down, appState, runs, left, history>>
-----------------------------------------------------------------------------
(***************************************************************************)
(* The Composer and the window come and go.                                *)
(***************************************************************************)

\* The Composer is unmounted (another Thread is shown, or the first message of an empty
\* Thread moves it): a steered item goes back to the queue.
Leave ==
    /\ composer.mounted /\ Spend("event")
    /\ composer' = Away
    /\ request' = [request EXCEPT !.mine = FALSE]
    /\ flying' = {[f EXCEPT !.mounted = FALSE] : f \in flying}
    /\ IF composer.steer = None THEN UNCHANGED copies
       ELSE Change(Unshifted(local, composer.steer))
    /\ UNCHANGED <<view, down, appState, runs, history>>

Enter ==
    /\ ~composer.mounted
    /\ composer' = Here
    /\ UNCHANGED <<copies, flying, request, view, down, appState, runs, left, history>>

\* The window is reloaded: what it had in memory is gone, its queue is App State's.
Reopen ==
    /\ Spend("event")
    /\ local' = Hydrated(stored) /\ due' = FALSE
    /\ composer' = Here /\ flying' = {} /\ request' = Quiet
    /\ view' = run /\ down' = <<>>
    /\ written' = [m \in Message |-> IF written[m] = "now" THEN "before" ELSE written[m]]
    /\ UNCHANGED <<appState, runs, sent, promised>>
-----------------------------------------------------------------------------
Receive == ReceiveState \/ ReceiveStale \/ ReceiveRefused \/ ReceiveSent \/ ReceiveRun
End == \E status \in {"completed", "failed", "cancelled"} : FinishRun(status)

Next ==
    \/ PassiveEffects \/ Submit \/ Receive
    \/ SendDirectly \/ ComposerEffect \/ HandleSend
    \/ \E m \in Message : Compose(m)
    \/ \E m \in Message \cup Foreign : Steer(m) \/ SendNow(m) \/ Delete(m)
    \/ Stop \/ End \/ CaptureDone \/ Leave \/ Enter \/ Reopen
    \/ Elsewhere \/ RunElsewhere

Spec == Init /\ [][Next]_vars
-----------------------------------------------------------------------------
Messages == Message \cup Foreign
Items == [msg : Messages, confirm : BOOLEAN]
Locals == [queue : Seq(Items), live : SUBSET Messages, spent : SUBSET Messages,
           work : Seq(Messages), dirty : BOOLEAN, waiting : BOOLEAN,
           behind : BOOLEAN]
Statuses == {"none", "live", "completed", "failed", "cancelled"}
RunStates == [n : Nat, here : BOOLEAN, status : Statuses]
Flights == [item : Items, how : {"auto", "steer", "now"}, sent : BOOLEAN, mounted : BOOLEAN]
StateMessages == [type : {"state"}, work : Seq(Messages), answer : BOOLEAN]
RunMessages == [type : {"run"}, run : RunStates]
SentMessages == [type : {"sent"}, ok : BOOLEAN, run : RunStates]
Wire == StateMessages \cup {Stale, Refused} \cup RunMessages \cup SentMessages

TypeOK ==
    /\ local \in Locals /\ due \in BOOLEAN
    /\ composer \in [mounted : BOOLEAN, steer : Items \cup {None}, was : BOOLEAN,
                     drain : BOOLEAN]
    /\ flying \subseteq Flights
    /\ request \in [pending : BOOLEAN, final : {"no", "drain", "plain"}, mine : BOOLEAN]
    /\ view \in RunStates
    /\ down \in Seq(Wire)
    /\ stored \in Seq(Messages) /\ older \in Seq(Messages)
    /\ run \in RunStates /\ stopping \in BOOLEAN
    /\ left \in [{"send", "event", "elsewhere"} -> Nat]
    /\ written \in [Message -> {"never", "now", "before"}]
    /\ sent \subseteq Messages /\ promised \in BOOLEAN

\* What the end of a run sends without being asked is a message written in this window
\* since it was loaded, never one recovered from App State or taken over from another window.
AutoSendsOwn == \A f \in flying :
    f.how = "auto" => f.item.msg \in Message /\ written[f.item.msg] = "now"

\* Nor one this window has sent already.
\* Not what the code does; no run checks it, README says how to see it.
AutoSendsOnce == \A f \in flying : f.how = "auto" /\ ~f.sent => f.item.msg \notin sent

Held(m) ==
    \/ m \in Queued(local)
    \/ composer.steer # None /\ composer.steer.msg = m
    \/ \E f \in flying : f.item.msg = m

\* A message the window holds, in the queue, as the steered one or in flight, stays with it
\* until it is sent, the user deletes it, or the window takes over an App State copy that
\* no longer has it, by a broadcast or a reload.
NothingDropped == [][
    \A m \in Message : Held(m) =>
       \/ Held(m)' \/ m \in sent' \/ Delete(m)
       \/ Reopen
       \/ due /\ ~due' /\ m \notin ToSet(local.work)
    ]_vars

\* Nothing is on its way, and nothing is left to do without the user.
AtRest ==
    /\ down = <<>> /\ flying = {} /\ ~due /\ ~local.dirty /\ ~local.waiting
    /\ ~Live(run) /\ ~request.pending /\ ~Sending /\ ~composer.was /\ ~composer.drain

\* A message steered into a run this Composer has sent does not stay behind, neither in
\* the queue nor sent: whatever becomes of the run, it leaves the Composer's hands.
SteerKept == AtRest /\ promised => composer.steer = None

\* The same for every run, also one that another window has sent, or a Composer that is gone.
\* Not what the code does; no run checks it, README says how to see it.
SteerNeverStuck == AtRest => composer.steer = None

\* A message of this window disappears only if the user deletes it or reloads the window.
\* Not what the code does; no run checks it, README says how to see it.
NothingDroppedBySync == [][
    \A m \in Message :
        Held(m) => Held(m)' \/ m \in sent' \/ Delete(m) \/ Reopen
    ]_vars

\* At rest, the queue the user sees is the queue App State holds, unless the window's last
\* submission was given up and no broadcast has replaced its copy since.
Reconciled == AtRest /\ ~local.behind => Ids(local.queue) = stored
=============================================================================
