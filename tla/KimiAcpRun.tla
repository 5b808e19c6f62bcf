----------------------------- MODULE KimiAcpRun -----------------------------
(***************************************************************************)
(* One run of Kimi Code (class KimiAcpRun in kimiAcpChat.ts): the          *)
(* coroutine start() that drives the Kimi process from `initialize` to the *)
(* reply to the prompt, the callbacks that race with it (messages and exit *)
(* of the process, the user's stop and answers, calls to the question      *)
(* server), and complete(), which ends the run once and closes everything  *)
(* the run has opened.                                                     *)
(*                                                                         *)
(* JavaScript runs one callback at a time: an action is the code between   *)
(* two awaits.  `phase` is the await at which start() is suspended.        *)
(***************************************************************************)
CONSTANTS Permission,   \* permission requests of the process
          Review,       \* permission requests that present a plan
          Native,       \* questions asked through a permission request
          Mcp,          \* questions asked through the run's question server
          Shell,        \* an ordinary tool
          ExitPlan,     \* the tool whose permission request is a plan review
          Terminal      \* terminals the process may create

Question == Native \cup Mcp
Request == Permission \cup Review \cup Question
Tool == {Shell, ExitPlan}

VARIABLES
    \* the coroutine start()
    phase, resuming, sessionId,
    \* the flags and timer of the run
    terminal, finalizing, stoppedByUser, stopFallbackTimer,
    \* what the process has asked for: panels open, answers it still waits for, not yet asked
    pending, waiting, unasked,
    \* what the timeline is built from
    toolItems, message, presentedPlanReview, exitedPlanReview,
    \* what the run has opened, and the process itself
    bridge, questionServer, terminals, process,
    \* what the events emitted so far say
    shown, saved

coroutine == <<phase, resuming, sessionId>>
flags     == <<terminal, finalizing, stoppedByUser, stopFallbackTimer>>
panels    == <<pending, waiting, unasked>>
timeline  == <<toolItems, message, presentedPlanReview, exitedPlanReview>>
resources == <<bridge, questionServer, terminals>>
vars == <<coroutine, flags, panels, timeline, resources, process, shown, saved>>

\* The awaits of start().  At "abandoned" it waits for a request that complete() dropped.
RequestPhase == {"initialize", "open", "configure", "prompt"}
Phase == RequestPhase \cup {"bridge", "questions", "prepare", "compose", "diagnose",
                            "persist", "abandoned", "returned"}

HandleState == {"none", "open", "closed"}
\* "completed" stands for "failed" as well: both are final, and are told apart by nothing here.
SettledItem == {"completed", "cancelled"}
ItemState == {"absent", "pending", "running"} \cup SettledItem

Init ==
    /\ phase = "initialize"
    /\ resuming \in BOOLEAN
    /\ sessionId = FALSE
    /\ terminal = FALSE /\ finalizing = FALSE /\ stoppedByUser = FALSE
    /\ stopFallbackTimer = FALSE
    /\ pending = {} /\ waiting = {} /\ unasked = Request
    /\ toolItems = [t \in Tool |-> "absent"]
    /\ message = FALSE
    /\ presentedPlanReview = FALSE /\ exitedPlanReview = FALSE
    /\ bridge = "none" /\ questionServer = "none" /\ terminals = {}
    /\ process = "up"
    /\ shown = [end |-> "no", asked |-> {}, items |-> [t \in Tool |-> "absent"]]
    /\ saved = FALSE
-----------------------------------------------------------------------------
(***************************************************************************)
(* complete().                                                             *)
(***************************************************************************)

\* The items at the end of a run: the tools still running are cancelled.
CancelRunning(items) ==
    [t \in Tool |-> IF items[t] = "running" THEN "cancelled" ELSE items[t]]

Closed(handle) == IF handle = "open" THEN "closed" ELSE handle

\* Mutant: the run is marked ended before its running items are cancelled.
CompleteBeforeCancelling(kind) ==
    IF terminal THEN UNCHANGED <<flags, panels, timeline, resources, shown>>
    ELSE
    /\ terminal' = TRUE
    /\ stopFallbackTimer' = FALSE
    /\ toolItems' = CancelRunning(toolItems)
    /\ shown' = [shown EXCEPT !.end = kind, !.asked = {}]
    /\ pending' = {} /\ waiting' = {}
    /\ bridge' = Closed(bridge)
    /\ questionServer' = Closed(questionServer)
    /\ terminals' = {}
    /\ UNCHANGED <<finalizing, stoppedByUser, unasked, message, presentedPlanReview,
                   exitedPlanReview>>

\* complete(): the first call ends the run, every later one does nothing.  Running items
\* are cancelled before the terminal event, while the run may still emit; closing the
\* question server answers the calls that wait in it, closing the transport ends the
\* process' own requests.
Complete(kind) ==
    IF terminal THEN UNCHANGED <<flags, panels, timeline, resources, shown>>
    ELSE
    /\ terminal' = TRUE
    /\ stopFallbackTimer' = FALSE
    /\ toolItems' = CancelRunning(toolItems)
    /\ shown' = [shown EXCEPT !.end = kind, !.asked = {}, !.items = CancelRunning(@)]
    /\ pending' = {} /\ waiting' = {}
    /\ bridge' = Closed(bridge)
    /\ questionServer' = Closed(questionServer)
    /\ terminals' = {}
    /\ UNCHANGED <<finalizing, stoppedByUser, unasked, message, presentedPlanReview,
                   exitedPlanReview>>

\* complete() drops the replies the coroutine waits for without rejecting them.
Dropped == IF phase \in RequestPhase /\ ~terminal THEN "abandoned" ELSE phase

\* The coroutine itself ends the run and returns.
CompleteAndReturn(kind) ==
    /\ Complete(kind)
    /\ phase' = "returned"

unmoved == <<flags, panels, timeline, process, shown, saved>>
-----------------------------------------------------------------------------
(***************************************************************************)
(* start().                                                                *)
(***************************************************************************)

\* A message of the process is handled only while the run is open.
Listening == ~terminal /\ ~finalizing /\ process = "up"

\* The reply to `initialize`; the bridge policy decides whether a bridge is started.
Initialized ==
    /\ phase = "initialize" /\ Listening
    /\ phase' \in {"bridge", "questions", "prepare"}
    /\ UNCHANGED <<resuming, sessionId, resources, unmoved>>

\* Mutant: the handle is kept without a look at the run.
BridgeStartedLate ==
    /\ phase = "bridge"
    /\ bridge' = "open" /\ phase' \in {"questions", "prepare"}
    /\ UNCHANGED <<resuming, sessionId, questionServer, terminals, unmoved>>

\* startBridge(): a bridge that is up only after the run has ended is closed at once.
BridgeStarted ==
    /\ phase = "bridge"
    /\ IF terminal
       THEN bridge' = "closed" /\ phase' = "returned"
       ELSE bridge' = "open" /\ phase' \in {"questions", "prepare"}
    /\ UNCHANGED <<resuming, sessionId, questionServer, terminals, unmoved>>

\* startQuestionServer(): likewise.
QuestionServerStarted ==
    /\ phase = "questions"
    /\ IF terminal
       THEN questionServer' = "closed" /\ phase' = "returned"
       ELSE questionServer' = "open" /\ phase' = "prepare"
    /\ UNCHANGED <<resuming, sessionId, bridge, terminals, unmoved>>

\* The attachments and path contexts are resolved and the session is asked for, whether
\* or not the run has ended meanwhile; a resumed session is known from here on.
Prepared ==
    /\ phase = "prepare"
    /\ phase' = "open"
    /\ sessionId' = resuming
    /\ UNCHANGED <<resuming, resources, unmoved>>

\* An attachment or path context that is gone ends the run.
PrepareFails ==
    /\ phase = "prepare"
    /\ CompleteAndReturn("failed")
    /\ UNCHANGED <<resuming, sessionId, process, saved>>

\* The reply to session/new or session/resume; the model and the mode are configured with
\* requests of their own where they differ.
Opened ==
    /\ phase = "open" /\ Listening
    /\ sessionId' = TRUE
    /\ phase' \in {"configure", "compose"}
    /\ UNCHANGED <<resuming, resources, unmoved>>

Configured ==
    /\ phase = "configure" /\ Listening
    /\ phase' = "compose"
    /\ UNCHANGED <<resuming, sessionId, resources, unmoved>>

\* A request is answered with an error or an unusable result, or its timer fires: the
\* coroutine fails the run.  A session that could not be resumed is forgotten.
RequestFails ==
    /\ Listening /\ phase \in RequestPhase \ {"prompt"}
    /\ sessionId' = (sessionId /\ phase # "open")
    /\ CompleteAndReturn("failed")
    /\ UNCHANGED <<resuming, process, saved>>

\* The request timers of `initialize`, the session and its configuration.
RequestTimesOut ==
    /\ phase \in RequestPhase \ {"prompt"} /\ (terminal => phase = "open")
    /\ sessionId' = (sessionId /\ phase # "open")
    /\ CompleteAndReturn("failed")
    /\ UNCHANGED <<resuming, process, saved>>

\* buildKimiPromptParts() is done: the prompt is sent, without a timer.
PromptSent ==
    /\ phase = "compose"
    /\ phase' = "prompt"
    /\ UNCHANGED <<resuming, sessionId, resources, unmoved>>

\* A prompt that cannot be built ends the run.
ComposeFails ==
    /\ phase = "compose"
    /\ CompleteAndReturn("failed")
    /\ UNCHANGED <<resuming, sessionId, process, saved>>

\* Mutant: the run completes with the reply, the session is stored afterwards.
TurnEndsAtOnce ==
    /\ phase = "prompt" /\ Listening /\ ~stoppedByUser
    /\ message \/ presentedPlanReview
    /\ Complete("completed")
    /\ phase' = "persist"
    /\ UNCHANGED <<resuming, sessionId, process, saved>>

\* The reply to the prompt with an end of the turn: the run no longer listens.  Without a
\* message and without a plan review the provider's log is searched for the reason.
TurnEnds ==
    /\ phase = "prompt" /\ Listening /\ ~stoppedByUser
    /\ finalizing' = TRUE
    /\ phase' = IF message \/ presentedPlanReview THEN "persist" ELSE "diagnose"
    /\ UNCHANGED <<resuming, sessionId, terminal, stoppedByUser, stopFallbackTimer, panels,
                   timeline, resources, process, shown, saved>>

\* The reply to the prompt that ends the run in the same callback: an error fails it even
\* after a stop; after a stop any other reply stops it, and so does "cancelled"; a refusal
\* or an unknown reason fails it.
PromptEnds ==
    /\ phase = "prompt" /\ Listening
    /\ \/ CompleteAndReturn("failed")
       \/ CompleteAndReturn("stopped")
    /\ UNCHANGED <<resuming, sessionId, process, saved>>

Diagnosed ==
    /\ phase = "diagnose"
    /\ CompleteAndReturn("failed")
    /\ UNCHANGED <<resuming, sessionId, process, saved>>

\* persistCompletedSession(): the callback has stored the session, or its failure was
\* swallowed; then the run completes.
Persisted ==
    /\ phase = "persist"
    /\ saved' = TRUE
    /\ CompleteAndReturn("completed")
    /\ UNCHANGED <<resuming, sessionId, process>>
-----------------------------------------------------------------------------
(***************************************************************************)
(* The user and the process.                                               *)
(***************************************************************************)

\* Mutant: the cancellation is sent and nothing watches over it.
StopWithoutFallback ==
    /\ ~terminal
    /\ IF sessionId
       THEN /\ stoppedByUser' = TRUE
            /\ UNCHANGED <<phase, terminal, finalizing, stopFallbackTimer, panels, timeline,
                           resources, shown>>
       ELSE /\ Complete("stopped")
            /\ phase' = Dropped
    /\ UNCHANGED <<resuming, sessionId, process, saved>>

\* stop(): before a session is known the run ends at once; otherwise the session is
\* cancelled and a timer ends the run if the process does not.
Stop ==
    /\ ~terminal
    /\ IF sessionId
       THEN /\ stoppedByUser' = TRUE /\ stopFallbackTimer' = TRUE
            /\ UNCHANGED <<phase, terminal, finalizing, panels, timeline,
                           resources, shown>>
       ELSE /\ Complete("stopped")
            /\ phase' = Dropped
    /\ UNCHANGED <<resuming, sessionId, process, saved>>

StopFallback ==
    /\ stopFallbackTimer
    /\ Complete("stopped")
    /\ phase' = Dropped
    /\ UNCHANGED <<resuming, sessionId, process, saved>>

\* shutdown(): the run ends without a grace period.
Shutdown ==
    /\ ~terminal
    /\ Complete("stopped")
    /\ phase' = Dropped
    /\ UNCHANGED <<resuming, sessionId, process, saved>>

\* The process exits or its pipe breaks: the end of the run, unless the prompt has already
\* been answered.
ProcessExits ==
    /\ process = "up"
    /\ process' = "exited"
    /\ IF terminal \/ finalizing
       THEN UNCHANGED <<phase, flags, panels, timeline, resources, shown>>
       ELSE /\ Complete(IF stoppedByUser THEN "stopped" ELSE "failed")
            /\ phase' = Dropped
    /\ UNCHANGED <<resuming, sessionId, saved>>

\* The session is open and the process may send updates and requests.
Working == Listening /\ phase \in {"configure", "compose", "prompt"}

\* session/request_permission: the panel is shown.  A plan review is remembered.
PermissionRequest(r) ==
    /\ Working /\ r \in unasked \cap (Permission \cup Review)
    /\ unasked' = unasked \ {r}
    /\ pending' = pending \cup {r}
    /\ waiting' = waiting \cup {r}
    /\ shown' = [shown EXCEPT !.asked = @ \cup {r}]
    /\ presentedPlanReview' = (presentedPlanReview \/ r \in Review)
    /\ UNCHANGED <<coroutine, flags, toolItems, message, exitedPlanReview, resources,
                   process, saved>>

\* A permission request without usable options is answered "cancelled" and fails the run.
MalformedPermission ==
    /\ Working
    /\ Complete("failed")
    /\ phase' = Dropped
    /\ UNCHANGED <<resuming, sessionId, process, saved>>

\* Mutant: a second question is ignored rather than turned down.
AskQuestionUnanswered(r) ==
    /\ unasked' = unasked \ {r}
    /\ waiting' = waiting \cup {r}
    /\ IF pending \cap Question # {}
       THEN UNCHANGED <<pending, shown>>
       ELSE /\ pending' = pending \cup {r}
            /\ shown' = [shown EXCEPT !.asked = @ \cup {r}]
    /\ UNCHANGED <<coroutine, flags, timeline, resources, process, saved>>

\* One question at a time, whichever way it comes: a second one is turned down at once.
AskQuestion(r) ==
    /\ unasked' = unasked \ {r}
    /\ IF pending \cap Question # {}
       THEN UNCHANGED <<pending, waiting, shown>>
       ELSE /\ pending' = pending \cup {r}
            /\ waiting' = waiting \cup {r}
            /\ shown' = [shown EXCEPT !.asked = @ \cup {r}]
    /\ UNCHANGED <<coroutine, flags, timeline, resources, process, saved>>

NativeQuestion(r) ==
    /\ Working /\ r \in unasked \cap Native
    /\ AskQuestion(r)

\* The question server is called over HTTP: only the end of the run keeps a call out, not
\* the reply to the prompt.
McpQuestion(r) ==
    /\ questionServer = "open" /\ ~terminal /\ process = "up"
    /\ r \in unasked \cap Mcp
    /\ AskQuestion(r)

\* respondToPermission() and respondToQuestion(): the answer goes to the process and the
\* panel closes; the option of a review that exits without running is remembered.
Respond(r) ==
    /\ r \in pending
    /\ pending' = pending \ {r}
    /\ waiting' = waiting \ {r}
    /\ shown' = [shown EXCEPT !.asked = @ \ {r}]
    /\ IF r \in Review THEN exitedPlanReview' \in BOOLEAN ELSE UNCHANGED exitedPlanReview
    /\ UNCHANGED <<coroutine, flags, unasked, toolItems, message, presentedPlanReview,
                   resources, process, saved>>
-----------------------------------------------------------------------------
(***************************************************************************)
(* session/update.                                                         *)
(***************************************************************************)

\* agent_message_chunk: the text is shown, unless the user left a plan review without
\* running the plan.
MessageChunk ==
    /\ Working
    /\ ~exitedPlanReview
    /\ message' = TRUE
    /\ UNCHANGED <<coroutine, flags, panels, toolItems, presentedPlanReview,
                   exitedPlanReview, resources, process, shown, saved>>

\* A tool that has run its course stays in its state.
Upsert(items, tool, status) ==
    [items EXCEPT ![tool] = IF @ \in SettledItem THEN @ ELSE status]

\* tool_call and tool_call_update: the item is published.  Once a plan review was
\* presented the tool that asked for it is no longer published.
ToolUpdate(tool, status) ==
    /\ Working
    /\ status \in ItemState \ {"absent"}
    /\ ~(tool = ExitPlan /\ presentedPlanReview)
    /\ toolItems' = Upsert(toolItems, tool, status)
    /\ shown' = [shown EXCEPT !.items[tool] = toolItems'[tool]]
    /\ UNCHANGED <<coroutine, flags, panels, message, presentedPlanReview,
                   exitedPlanReview, resources, process, saved>>

\* terminal/create spawns in the callback that handles the request.
CreateTerminal(t) ==
    /\ Working /\ t \notin terminals
    /\ terminals' = terminals \cup {t}
    /\ UNCHANGED <<coroutine, flags, panels, timeline, bridge, questionServer,
                   process, shown, saved>>

\* terminal/release and the end of the command.
TerminalGone(t) ==
    /\ t \in terminals
    /\ terminals' = terminals \ {t}
    /\ UNCHANGED <<coroutine, flags, panels, timeline, bridge, questionServer,
                   process, shown, saved>>
-----------------------------------------------------------------------------
Coroutine ==
    \/ Initialized \/ BridgeStarted \/ QuestionServerStarted \/ Prepared \/ PrepareFails
    \/ Opened \/ Configured \/ RequestFails \/ RequestTimesOut \/ PromptSent
    \/ ComposeFails \/ TurnEnds \/ PromptEnds \/ Diagnosed \/ Persisted

Update ==
    \/ MessageChunk
    \/ \E tool \in Tool, status \in ItemState : ToolUpdate(tool, status)

Next ==
    \/ Coroutine
    \/ Update
    \/ Stop \/ StopFallback \/ Shutdown \/ ProcessExits
    \/ \E r \in Request : PermissionRequest(r) \/ NativeQuestion(r) \/ McpQuestion(r) \/ Respond(r)
    \/ MalformedPermission
    \/ \E t \in Terminal : CreateTerminal(t) \/ TerminalGone(t)

\* Timers fire and local I/O settles; the process and the user owe nothing.
Fairness ==
    /\ WF_vars(StopFallback)
    /\ WF_vars(RequestTimesOut)
    /\ WF_vars(BridgeStarted \/ QuestionServerStarted)
    /\ WF_vars(Prepared \/ PrepareFails)
    /\ WF_vars(PromptSent \/ ComposeFails)
    /\ WF_vars(Diagnosed \/ Persisted)

Spec == Init /\ [][Next]_vars /\ Fairness
-----------------------------------------------------------------------------
TypeOK ==
    /\ phase \in Phase
    /\ {resuming, sessionId, terminal, finalizing, stoppedByUser, stopFallbackTimer, message,
        presentedPlanReview, exitedPlanReview, saved} \subseteq BOOLEAN
    /\ pending \subseteq Request /\ waiting \subseteq Request /\ unasked \subseteq Request
    /\ toolItems \in [Tool -> ItemState]
    /\ bridge \in HandleState /\ questionServer \in HandleState
    /\ terminals \subseteq Terminal
    /\ process \in {"up", "exited"}
    /\ shown \in [end : {"no", "completed", "failed", "stopped"},
                  asked : SUBSET Request, items : [Tool -> ItemState]]

\* The run keeps what its handle promises: it ends once, with nothing left running or open,
\* and falls silent (complete(), emit(), emitKimiTimelineItem()).
RunPromise == INSTANCE RunHandle WITH end <- shown.end, asked <- shown.asked, items <- shown.items
KeepsPromise == RunPromise!Init /\ [][RunPromise!Next]_(RunPromise!vars)

\* While the run is open the process waits for exactly the requests the user can see, and
\* the user sees exactly those that can still be answered: whatever is turned down has been
\* turned down to the process as well (handlePermissionRequest, handleQuestionRequest,
\* askUserQuestion, respondTo...).
NobodyWaitsUnseen ==
    ~terminal => waiting = pending /\ pending = shown.asked

\* What the run has opened, and what was still on its way when it ended, is closed with it
\* (startBridge, startQuestionServer, complete).
NothingOutlivesRun ==
    terminal => bridge # "open" /\ questionServer # "open" /\ terminals = {}

\* A run is reported completed only after its session was offered to the store, so that a
\* message sent at once continues it, and only with something to show for it: a message or
\* a plan review (persistCompletedSession before complete).
CompletedCanContinue ==
    shown.end = "completed" => saved /\ sessionId /\ (message \/ presentedPlanReview)

\* A run that was stopped, or whose process is gone, ends, whatever start() is waiting for
\* and even if the process never answers.
RunEnds == (stoppedByUser \/ process = "exited") ~> terminal
=============================================================================
