--------------------------- MODULE AppStateReplica ---------------------------
(***************************************************************************)
(* The windows' copies of one Thread's content and how their edits reach   *)
(* the App State authority: AppStateContext.tsx in every window, the       *)
(* command queue of appStateAuthority.ts in the Main Process, and the      *)
(* flush of appStateFlush.ts before the app quits.                         *)
(*                                                                         *)
(* A window applies an edit to its own copy at once, marks the Thread      *)
(* dirty, and submits the Thread's content later, on the revision it has   *)
(* seen last; while an edit is dirty or in flight its Thread is protected  *)
(* from the states the authority broadcasts.  Content is a set of edits:   *)
(* the authority merges messages by id, so a later submission never takes  *)
(* an earlier edit back.  A submission carries every message of the        *)
(* window's copy, but of the patches (title, activity, pin, checklist,     *)
(* pruned messages) only those made since the last one.                    *)
(*                                                                         *)
(* The authority may refuse a submission for other reasons than its age.   *)
(* The window then gives it up: what it shows is protected and submitted   *)
(* no more, and the next state it takes over replaces it.                  *)
(***************************************************************************)
EXTENDS Naturals, Sequences

CONSTANTS
    Window,
    Message,      \* edits of the Thread's messages, each made once
    Patch,        \* edits of the Thread's record and pruned messages, each made once
    Prune,        \* the pruned messages among them
    Slot,         \* flushes of one window under way at the same time
    None,
    Infinity,     \* later than every revision
    MaxAttempts,  \* submissions of one flush (4 in the code)
    MaxOther      \* bound: commands on other parts of App State

Edit == Message \cup Patch

ASSUME ReplicaConstants ==
    /\ Prune \subseteq Patch /\ None \notin Slot /\ Infinity \notin Nat
    /\ MaxAttempts \in Nat \ {0} /\ MaxOther \in Nat

VARIABLES
    revision, stored, exists,      \* the authority: revision, content, and whether the Thread is there
    subscribers, queue, other,     \* its subscribers and command queue; other commands so far
    down,                          \* messages on their way to each window
    seen, copy, gone,              \* per window: revisionRef, snapshotRef, the Thread is not in it
    dirty, patches,                \* dirtyContentThreads, contentPatch and pendingDeleteMessageIds
    inflight, submission,          \* inflightContent, contentSubmission
    behind,                        \* history: gave a submission up, and took no state over since
    flush,                         \* the flushes a window is running
    made,                          \* edits made so far
    phase, awaited, drain          \* quitting: windows still to answer, commands to wait for

authority == <<revision, stored, exists>>
main      == <<subscribers, queue, other>>
replica   == <<seen, copy, gone>>
edits     == <<dirty, patches, inflight, submission, behind>>
quitting  == <<phase, awaited, drain>>
vars == <<authority, main, down, replica, edits, flush, made, quitting>>

NotInFlight == 0
Idle == [attempt |-> 0, sent |-> {}, quit |-> FALSE]

Init ==
    /\ revision = 0 /\ stored = {} /\ exists = TRUE
    /\ subscribers = {} /\ queue = <<>> /\ other = 0
    /\ down = [w \in Window |-> <<>>]
    /\ seen = [w \in Window |-> 0]
    /\ copy = [w \in Window |-> {}]
    /\ gone = [w \in Window |-> TRUE]
    /\ dirty = [w \in Window |-> FALSE]
    /\ patches = [w \in Window |-> {}]
    /\ inflight = [w \in Window |-> NotInFlight]
    /\ submission = [w \in Window |-> None]
    /\ behind = [w \in Window |-> FALSE]
    /\ flush = [w \in Window |-> [s \in Slot |-> Idle]]
    /\ made = {}
    /\ phase = "running" /\ awaited = {} /\ drain = 0

Running == phase # "saved"
-----------------------------------------------------------------------------
(***************************************************************************)
(* The authority.                                                          *)
(***************************************************************************)

State(rev, content, there) == [type |-> "state", rev |-> rev, edits |-> content, exists |-> there]

\* publishSnapshot(): the next revision goes to every subscriber.
Publish(content, there) ==
    /\ revision' = revision + 1
    /\ stored' = content
    /\ exists' = there

Broadcast(w) ==
    IF w \in subscribers THEN <<State(revision', stored', exists')>> ELSE <<>>

Reply(c, status) == [type |-> "reply", slot |-> c.slot, status |-> status, rev |-> revision']

\* How process() answers the thread-content:update c.  One made on another revision than
\* the current one is stale, one for a Thread that is gone is invalid, and any may be
\* refused: before all else while a transaction or a recovery makes App State unavailable,
\* and in the end when it is invalid all the same or is not persisted.  A window tells a
\* stale answer from the others, and a command that fails it takes for refused.
Answers(c) ==
    {"refused"} \cup IF c.base # revision THEN {"stale"} ELSE IF exists THEN {"accepted"} ELSE {}

\* process(): the oldest thread-content:update is answered; an accepted one is applied,
\* broadcast and answered, in this order.
Process ==
    /\ Running /\ queue # <<>>
    /\ LET c == Head(queue)
       IN \E status \in Answers(c) :
          /\ IF status = "accepted" THEN Publish(stored \cup c.edits, TRUE)
             ELSE UNCHANGED authority
          /\ down' = [w \in Window |->
                down[w] \o (IF status = "accepted" THEN Broadcast(w) ELSE <<>>)
                        \o (IF w = c.window THEN <<Reply(c, status)>> ELSE <<>>)]
    /\ queue' = Tail(queue)
    /\ drain' = IF drain = 0 THEN 0 ELSE drain - 1
    /\ UNCHANGED <<subscribers, other, replica, edits, flush, made, phase, awaited>>

\* A command that is no Thread content, which carries no base revision and is never stale,
\* or the snapshot of a transaction or of a reread.
OtherCommand ==
    /\ Running /\ other < MaxOther
    /\ other' = other + 1
    /\ Publish(stored, exists)
    /\ down' = [w \in Window |-> down[w] \o Broadcast(w)]
    /\ UNCHANGED <<subscribers, queue, replica, edits, flush, made, quitting>>

\* adoptExternalSnapshot() after the Thread's permanent deletion.
DeleteThread ==
    /\ Running /\ exists
    /\ Publish({}, FALSE)
    /\ down' = [w \in Window |-> down[w] \o Broadcast(w)]
    /\ UNCHANGED <<main, replica, edits, flush, made, quitting>>

\* app-state:subscribe, handled in one step with its reply.
Subscribe(w) ==
    /\ Running /\ w \notin subscribers
    /\ subscribers' = subscribers \cup {w}
    /\ down' = [down EXCEPT ![w] = Append(@, State(revision, stored, exists))]
    /\ UNCHANGED <<authority, queue, other, replica, edits, flush, made, quitting>>
-----------------------------------------------------------------------------
(***************************************************************************)
(* A window.                                                               *)
(***************************************************************************)

\* updateThreadContent(): the copy changes at once and the Thread is dirty.
Edits(w, e) ==
    /\ phase = "running" /\ w \in subscribers /\ ~gone[w]
    /\ e \in Edit \ made
    /\ made' = made \cup {e}
    /\ copy' = [copy EXCEPT ![w] = @ \cup {e}]
    /\ dirty' = [dirty EXCEPT ![w] = TRUE]
    /\ patches' = [patches EXCEPT ![w] = @ \cup ({e} \cap Patch)]
    /\ UNCHANGED <<authority, main, down, seen, gone, inflight, submission, behind, flush, quitting>>

\* app-state:flush-done, which counts as long as the answers are waited for.
FlushDone(w) == awaited' = IF phase = "asking" THEN awaited \ {w} ELSE awaited

\* The flush in slot s submits the Thread (attempt n), or returns if there is nothing to
\* submit: the Thread is not dirty, or not in the copy and its edits are dropped.
Submit(w, s, n, quit) ==
    IF dirty[w] /\ ~gone[w]
    THEN /\ queue' = Append(queue, [window |-> w, slot |-> s, base |-> seen[w],
                                    edits |-> (copy[w] \cap Message) \cup patches[w]])
         /\ flush' = [flush EXCEPT ![w][s] = [attempt |-> n, sent |-> patches[w], quit |-> quit]]
         /\ dirty' = [dirty EXCEPT ![w] = FALSE]
         /\ patches' = [patches EXCEPT ![w] = {}]
         /\ inflight' = [inflight EXCEPT ![w] = Infinity]
         /\ submission' = [submission EXCEPT ![w] = s]
         /\ UNCHANGED awaited
    ELSE /\ dirty' = [dirty EXCEPT ![w] = FALSE]
         /\ patches' = [patches EXCEPT ![w] = IF dirty[w] THEN {} ELSE @]
         /\ flush' = [flush EXCEPT ![w][s] = Idle]
         /\ IF quit THEN FlushDone(w) ELSE UNCHANGED awaited
         /\ UNCHANGED <<queue, inflight, submission>>

\* flushPendingContent(), called by the timer of an edit or before another command.
Flush(w, s) ==
    /\ Running /\ dirty[w] /\ flush[w][s] = Idle
    /\ Submit(w, s, 1, FALSE)
    /\ UNCHANGED <<authority, subscribers, other, down, replica, behind, made, phase, drain>>

Received(w) == down' = [down EXCEPT ![w] = Tail(@)]

\* A plausible slip: any broadcast ends what is in flight.
InFlightAtNone(w, rev) == NotInFlight

\* What window w still has in flight once it has heard of revision rev.
InFlightAt(w, rev) ==
    IF inflight[w] # Infinity /\ inflight[w] <= rev THEN NotInFlight ELSE inflight[w]

\* A plausible slip: the edits of a Thread are kept whether or not it is still there.
TakesEditsNever(w, m) == FALSE

\* A Thread that is not in the state takes the edits made to it along (all but the messages
\* to prune, which nobody reads any more).
TakesEdits(w, m) == ~m.exists /\ (dirty[w] \/ InFlightAt(w, m.rev) # NotInFlight)

\* applyAuthorityState(): the copy is replaced, unless an edit of the Thread is dirty or in
\* flight; an edit in flight is over once its revision is here.
Apply(w) ==
    /\ Running /\ down[w] # <<>> /\ Head(down[w]).type = "state"
    /\ LET m == Head(down[w])
           flying == InFlightAt(w, m.rev)
           kept == (dirty[w] \/ flying # NotInFlight) /\ ~TakesEdits(w, m)
       IN /\ seen' = [seen EXCEPT ![w] = m.rev]
          /\ gone' = [gone EXCEPT ![w] = ~m.exists]
          /\ copy' = [copy EXCEPT ![w] = IF kept THEN @ ELSE m.edits]
          /\ inflight' = [inflight EXCEPT ![w] = IF TakesEdits(w, m) THEN NotInFlight ELSE flying]
          /\ behind' = [behind EXCEPT ![w] = @ /\ kept]
          /\ IF TakesEdits(w, m)
             THEN /\ dirty' = [dirty EXCEPT ![w] = FALSE]
                  /\ patches' = [patches EXCEPT ![w] = @ \cap Prune]
                  /\ submission' = [submission EXCEPT ![w] = None]
             ELSE UNCHANGED <<dirty, patches, submission>>
    /\ Received(w)
    /\ UNCHANGED <<authority, main, flush, made, quitting>>

\* The flush in slot s returns.
Return(w, s) ==
    /\ flush' = [flush EXCEPT ![w][s] = Idle]
    /\ IF flush[w][s].quit THEN FlushDone(w) ELSE UNCHANGED awaited

\* The reply to a submission that another flush has superseded is ignored.
Superseded(w) ==
    /\ Running /\ down[w] # <<>> /\ Head(down[w]).type = "reply"
    /\ LET s == Head(down[w]).slot
       IN submission[w] # s /\ Return(w, s)
    /\ Received(w)
    /\ UNCHANGED <<authority, main, replica, edits, made, phase, drain>>

\* A plausible slip: an accepted edit is over when the reply is there, although the
\* broadcasts it was protected from were skipped.
AnsweredAtOnce(m) == NotInFlight

\* Until when an edit that is not stale stays in flight: an accepted one until its revision
\* is broadcast, a refused one is given up.
Answered(m) == IF m.status = "accepted" THEN m.rev ELSE NotInFlight

\* The reply to the latest submission, when it was not stale.
Settle(w) ==
    /\ Running /\ down[w] # <<>> /\ Head(down[w]).type = "reply"
    /\ LET m == Head(down[w])
       IN /\ submission[w] = m.slot /\ m.status # "stale"
          /\ inflight' = [inflight EXCEPT ![w] = Answered(m)]
          /\ behind' = [behind EXCEPT ![w] = @ \/ m.status = "refused"]
          /\ Return(w, m.slot)
    /\ submission' = [submission EXCEPT ![w] = None]
    /\ Received(w)
    /\ UNCHANGED <<authority, main, replica, dirty, patches, made, phase, drain>>

\* A stale submission: the Thread is dirty again, and submitted again at once as long as
\* the flush has attempts left.
Retry(w) ==
    /\ Running /\ down[w] # <<>> /\ Head(down[w]).type = "reply"
    /\ LET m == Head(down[w])
           f == flush[w][m.slot]
       IN /\ submission[w] = m.slot /\ m.status = "stale"
          /\ IF f.attempt < MaxAttempts
             THEN /\ queue' = Append(queue, [window |-> w, slot |-> m.slot, base |-> seen[w],
                                edits |-> (copy[w] \cap Message) \cup patches[w] \cup f.sent])
                  /\ flush' = [flush EXCEPT ![w][m.slot] =
                        [attempt |-> f.attempt + 1, sent |-> patches[w] \cup f.sent, quit |-> f.quit]]
                  /\ dirty' = [dirty EXCEPT ![w] = FALSE]
                  /\ patches' = [patches EXCEPT ![w] = {}]
                  /\ inflight' = [inflight EXCEPT ![w] = Infinity]
                  /\ UNCHANGED <<submission, awaited>>
             ELSE /\ dirty' = [dirty EXCEPT ![w] = TRUE]
                  /\ patches' = [patches EXCEPT ![w] = @ \cup f.sent]
                  /\ inflight' = [inflight EXCEPT ![w] = NotInFlight]
                  /\ submission' = [submission EXCEPT ![w] = None]
                  /\ Return(w, m.slot)
                  /\ UNCHANGED queue
    /\ Received(w)
    /\ UNCHANGED <<authority, subscribers, other, replica, behind, made, phase, drain>>

\* app-state:flush-request: the window flushes and answers when its flush returns.
FlushRequested(w) ==
    /\ Running /\ down[w] # <<>> /\ Head(down[w]).type = "flush"
    /\ \E s \in Slot : flush[w][s] = Idle /\ Submit(w, s, 1, TRUE)
    /\ Received(w)
    /\ UNCHANGED <<authority, subscribers, other, replica, behind, made, phase, drain>>
-----------------------------------------------------------------------------
(***************************************************************************)
(* Quitting: createAppStateFlush().flush(), called by beforeSave.          *)
(***************************************************************************)

\* Every subscriber is asked to flush.
BeginFlush ==
    /\ phase = "running"
    /\ phase' = "asking"
    /\ awaited' = subscribers
    /\ down' = [w \in Window |->
          down[w] \o (IF w \in subscribers THEN <<[type |-> "flush"]>> ELSE <<>>)]
    /\ UNCHANGED <<authority, main, replica, edits, flush, made, drain>>

\* All have answered, or two seconds are over: the commands submitted so far are awaited.
Drain(due) ==
    /\ phase = "asking" /\ due
    /\ phase' = "draining"
    /\ drain' = Len(queue)
    /\ UNCHANGED <<authority, main, down, replica, edits, flush, made, awaited>>

AllAnswered == Drain(awaited = {})

\* A plausible slip: the answers are awaited without a bound.
TimesOutNever == FALSE /\ UNCHANGED vars

FlushTimesOut == Drain(awaited # {})

\* The queue is idle: the app closes its store and quits.
Saved ==
    /\ phase = "draining" /\ drain = 0
    /\ phase' = "saved"
    /\ UNCHANGED <<authority, main, down, replica, edits, flush, made, awaited, drain>>

WindowStep(w) ==
    \/ Apply(w) \/ Superseded(w) \/ Settle(w) \/ Retry(w) \/ FlushRequested(w)

Quit == BeginFlush \/ AllAnswered \/ FlushTimesOut \/ Saved

Next ==
    \/ Process \/ OtherCommand \/ DeleteThread
    \/ \E w \in Window :
          \/ Subscribe(w) \/ WindowStep(w)
          \/ \E e \in Edit : Edits(w, e)
          \/ \E s \in Slot : Flush(w, s)
    \/ Quit

\* The Main Process serves its queue and its timer fires; a window may hang.
Fairness == WF_vars(Process) /\ WF_vars(AllAnswered \/ FlushTimesOut) /\ WF_vars(Saved)

Spec == Init /\ [][Next]_vars /\ Fairness
-----------------------------------------------------------------------------
(***************************************************************************)
(* Properties.                                                             *)
(***************************************************************************)

StateMessage == [type : {"state"}, rev : Nat, edits : SUBSET Edit, exists : BOOLEAN]
ReplyMessage ==
    [type : {"reply"}, slot : Slot, status : {"accepted", "stale", "refused"}, rev : Nat]
FlushRequest == [type : {"flush"}]

Command == [window : Window, slot : Slot, base : Nat, edits : SUBSET Edit]
Attempt == [attempt : 0..MaxAttempts, sent : SUBSET Patch, quit : BOOLEAN]

\* Every variable keeps its shape.
TypeOK ==
    /\ revision \in Nat /\ stored \in SUBSET Edit /\ exists \in BOOLEAN
    /\ subscribers \in SUBSET Window /\ queue \in Seq(Command) /\ other \in 0..MaxOther
    /\ down \in [Window -> Seq(StateMessage \cup ReplyMessage \cup FlushRequest)]
    /\ seen \in [Window -> Nat] /\ copy \in [Window -> SUBSET Edit] /\ gone \in [Window -> BOOLEAN]
    /\ dirty \in [Window -> BOOLEAN] /\ patches \in [Window -> SUBSET Patch]
    /\ inflight \in [Window -> Nat \cup {Infinity}] /\ submission \in [Window -> Slot \cup {None}]
    /\ behind \in [Window -> BOOLEAN]
    /\ flush \in [Window -> [Slot -> Attempt]]
    /\ made \in SUBSET Edit
    /\ phase \in {"running", "asking", "draining", "saved"}
    /\ awaited \in SUBSET Window /\ drain \in Nat

Protected(w) == dirty[w] \/ inflight[w] # NotInFlight

Held(e) == \E w \in Window : e \in copy[w] /\ Protected(w)

\* Window w reads that its latest submission was refused, and makes no newer edit stand in
\* for it: the one point at which it lets go of an edit that is not stored.
GivesUp(w) ==
    Settle(w) /\ Head(down[w]).status = "refused" /\ ~dirty[w]

\* An edit of a message that a window shows and protects from the states the authority
\* broadcasts is let go of only once it is stored or its submission was refused, while its
\* Thread lives: no stale answer, no broadcast that overtakes an answer or is overtaken by
\* it and no newer submission loses one (flushPendingContent() and applyAuthorityState()).
EditsHeld ==
    [][\A e \in Message : Held(e) /\ exists' =>
          \/ Held(e)' \/ e \in stored'
          \/ \E w \in Window : GivesUp(w) /\ e \in copy[w]]_vars

\* Nothing a window still had in flight brings a deleted Thread back, in the store or on
\* screen ("never resurrect content for Threads the authority deleted").
NoResurrection ==
    /\ ~exists => stored = {}
    /\ \A w \in Window :
          gone[w] => copy[w] = {} /\ ~Protected(w) /\ patches[w] \subseteq Prune

\* A window that has heard everything and protects nothing shows what is stored, unless it
\* gave a submission up and took no state over since: no broadcast falls between the answer
\* to its subscription and its first change event, and no other edit stays on screen.
UnprotectedAgrees ==
    \A w \in subscribers :
       down[w] = <<>> /\ ~Protected(w) /\ ~behind[w] => copy[w] = stored

\* Quitting ends, whatever the windows do, and with the queue of commands that were
\* submitted by then served.
QuitEnds == phase = "asking" ~> phase = "saved"

\* What appStateFlush.ts and main.ts promise of a quit on which every window answered:
\* everything typed before is stored.  An edit whose command was in flight and is
\* rejected as stale, or refused, is lost; no run checks this, README says how to see it.
QuitKeepsEdits ==
    phase = "saved" /\ awaited = {} /\ exists => made \cap Message \subseteq stored
=============================================================================
