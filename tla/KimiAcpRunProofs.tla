-------------------------- MODULE KimiAcpRunProofs --------------------------
(***************************************************************************)
(* Proofs about KimiAcpRun for every set of requests and terminals, and    *)
(* that it implements RunHandle.                                           *)
(*                                                                         *)
(* The events of a run are what its callbacks leave behind.  As long as    *)
(* the run is open they show exactly the state of the run; complete() is   *)
(* the only way out, it runs once, and start() gets past the prompt with a *)
(* session and something to show for it.                                   *)
(***************************************************************************)
EXTENDS KimiAcpRun, TLAPS

\* The terminal event has been emitted exactly when the run has ended.
EndIsTerminal == terminal <=> shown.end # "no"

\* While the run is open the timeline shows its items.
ItemsAreShown == ~terminal => shown.items = toolItems

\* At the end of the run no panel is left, and none can come back.
PanelsAreGone ==
    /\ terminal => pending = {} /\ shown.asked = {}
    /\ pending \cap unasked = {}

\* Once it has a session, start() keeps it until it returns.
SessionIsKnown ==
    /\ phase \in {"configure", "compose", "prompt", "diagnose", "persist"} => sessionId
    /\ phase = "persist" => message \/ presentedPlanReview

\* start() has nothing more to do once the run completed.
CompletedReturned == shown.end = "completed" => phase = "returned"

\* The inductive invariant.
IInv ==
    /\ TypeOK
    /\ EndIsTerminal
    /\ ItemsAreShown
    /\ PanelsAreGone
    /\ SessionIsKnown
    /\ CompletedReturned
    /\ NobodyWaitsUnseen
    /\ NothingOutlivesRun
    /\ CompletedCanContinue

\* A step of the run is a step of the promise its handle makes, or is not seen.
KeepsPromiseNow == [RunPromise!Next]_(RunPromise!vars)

\* What every step is shown to do.
StepOK == IInv' /\ KeepsPromiseNow

-----------------------------------------------------------------------------
(* complete() *)

\* No item is left running, and the ones that had run their course stay.
LEMMA CancelledItems ==
    ASSUME NEW items \in [Tool -> ItemState]
    PROVE  /\ CancelRunning(items) \in [Tool -> ItemState]
           /\ CancelRunning(items) = [t \in Tool |-> IF items[t] = "running" THEN "cancelled" ELSE items[t]]
  BY DEF CancelRunning, ItemState, SettledItem

\* The first complete() ends the run with everything closed, and is the one
\* terminal event of the promise; a later one is not seen.  The coroutine stays
\* where it was, is abandoned or returns.
LEMMA CompleteStep ==
    ASSUME IInv, NEW kind \in {"completed", "failed", "stopped"}, Complete(kind),
           phase' \in Phase, resuming' \in BOOLEAN, sessionId' \in BOOLEAN, saved' \in BOOLEAN,
           process' \in {"up", "exited"},
           \/ phase' \in {"abandoned", "returned"}
           \/ phase' = phase /\ sessionId' = sessionId,
           kind = "completed" /\ ~terminal =>
               phase' = "returned" /\ saved' /\ sessionId' /\ (message \/ presentedPlanReview),
           shown.end = "completed" => UNCHANGED <<phase, sessionId, saved>>
    PROVE  StepOK
<1>1. CASE terminal
  <2>1. UNCHANGED <<flags, panels, timeline, resources, shown>>
    BY <1>1 DEF Complete
  <2>2. UNCHANGED <<terminal, finalizing, stoppedByUser, stopFallbackTimer, pending, waiting, unasked,
                    toolItems, message, presentedPlanReview, exitedPlanReview, bridge, questionServer,
                    terminals, shown>>
    BY <2>1 DEF flags, panels, timeline, resources
  <2>3. TypeOK'
    BY <2>2 DEF IInv, TypeOK
  <2>4. EndIsTerminal' /\ ItemsAreShown' /\ PanelsAreGone' /\ NobodyWaitsUnseen' /\ NothingOutlivesRun'
    BY <2>2 DEF IInv, EndIsTerminal, ItemsAreShown, PanelsAreGone, NobodyWaitsUnseen, NothingOutlivesRun
  <2>5. SessionIsKnown'
    BY <2>2 DEF IInv, SessionIsKnown
  <2>6. CompletedReturned' /\ CompletedCanContinue'
    BY <2>2 DEF IInv, CompletedReturned, CompletedCanContinue
  <2>7. KeepsPromiseNow
    BY <2>2 DEF KeepsPromiseNow, RunPromise!vars
  <2> QED BY <2>3, <2>4, <2>5, <2>6, <2>7 DEF StepOK, IInv
<1>2. CASE ~terminal
  <2>1. /\ terminal' = TRUE /\ stopFallbackTimer' = FALSE
        /\ toolItems' = CancelRunning(toolItems)
        /\ shown' = [shown EXCEPT !.end = kind, !.asked = {}, !.items = CancelRunning(@)]
        /\ pending' = {} /\ waiting' = {}
        /\ bridge' = Closed(bridge) /\ questionServer' = Closed(questionServer) /\ terminals' = {}
        /\ UNCHANGED <<finalizing, stoppedByUser, unasked, message, presentedPlanReview, exitedPlanReview>>
    BY <1>2 DEF Complete
  <2>2. TypeOK
    BY DEF IInv
  <2>3. shown.end = "no" /\ shown.items = toolItems
    BY <1>2 DEF IInv, EndIsTerminal, ItemsAreShown
  <2>4. toolItems \in [Tool -> ItemState]
    BY <2>2 DEF TypeOK
  <2>5. toolItems' \in [Tool -> ItemState]
    BY <2>1, <2>4, CancelledItems
  <2>6. shown' \in [end : {"no", "completed", "failed", "stopped"},
                    asked : SUBSET Request, items : [Tool -> ItemState]]
        /\ shown'.end = kind /\ shown'.asked = {} /\ shown'.items = toolItems'
    BY <2>1, <2>2, <2>3, <2>5 DEF TypeOK
  <2>7. bridge' \in HandleState \ {"open"} /\ questionServer' \in HandleState \ {"open"}
    BY <2>1, <2>2 DEF TypeOK, Closed, HandleState
  <2>8. TypeOK'
    BY <2>1, <2>2, <2>5, <2>6, <2>7 DEF TypeOK
  <2>9. EndIsTerminal' /\ ItemsAreShown' /\ PanelsAreGone' /\ NobodyWaitsUnseen' /\ NothingOutlivesRun'
    BY <2>1, <2>6, <2>7 DEF EndIsTerminal, ItemsAreShown, PanelsAreGone, NobodyWaitsUnseen, NothingOutlivesRun
  <2>10. SessionIsKnown'
    BY <2>1 DEF IInv, SessionIsKnown
  <2>11. CompletedReturned' /\ CompletedCanContinue'
    BY <1>2, <2>1, <2>6 DEF CompletedReturned, CompletedCanContinue
  <2>12. KeepsPromiseNow
    <3>1. RunPromise!End
      BY <2>1, <2>3, <2>4, <2>6, CancelledItems DEF RunPromise!End, RunPromise!Outcome
    <3> QED BY <3>1, <2>3 DEF KeepsPromiseNow, RunPromise!Next
  <2> QED BY <2>8, <2>9, <2>10, <2>11, <2>12 DEF StepOK, IInv
<1> QED BY <1>1, <1>2

\* What ends the run from outside start(): the reply it waits for is dropped.
LEMMA DroppedStep ==
    ASSUME IInv, NEW kind \in {"failed", "stopped"}, Complete(kind), phase' = Dropped,
           process' \in {"up", "exited"}, UNCHANGED <<resuming, sessionId, saved>>
    PROVE  StepOK
<1>1. phase' \in Phase /\ phase' \in {phase, "abandoned"} /\ (terminal => phase' = phase)
  BY DEF Dropped, IInv, TypeOK, Phase
<1>2. shown.end = "completed" => terminal
  BY DEF IInv, EndIsTerminal
<1> QED BY <1>1, <1>2, CompleteStep DEF IInv, TypeOK

\* What ends the run from within start(): it returns.
LEMMA ReturnStep ==
    ASSUME IInv, NEW kind \in {"failed", "stopped"}, CompleteAndReturn(kind),
           phase # "returned", sessionId' \in BOOLEAN, UNCHANGED <<resuming, process, saved>>
    PROVE  StepOK
<1>1. shown.end # "completed"
  BY DEF IInv, CompletedReturned
<1>2. Complete(kind) /\ phase' = "returned"
  BY DEF CompleteAndReturn
<1>3. phase' \in Phase
  BY <1>2 DEF Phase
<1> QED BY <1>1, <1>2, <1>3, CompleteStep DEF IInv, TypeOK

-----------------------------------------------------------------------------
(* The coroutine *)

\* A step that nobody sees: the panels, the timeline and the end stay.
LEMMA SilentStep ==
    ASSUME IInv, UNCHANGED <<terminal, pending, waiting, unasked, toolItems, shown>>,
           TypeOK', NothingOutlivesRun', SessionIsKnown', CompletedReturned', CompletedCanContinue'
    PROVE  StepOK
<1>1. EndIsTerminal' /\ ItemsAreShown' /\ PanelsAreGone' /\ NobodyWaitsUnseen'
  BY DEF IInv, EndIsTerminal, ItemsAreShown, PanelsAreGone, NobodyWaitsUnseen
<1>2. KeepsPromiseNow
  BY DEF KeepsPromiseNow, RunPromise!vars
<1> QED BY <1>1, <1>2 DEF StepOK, IInv

\* start() goes on to its next await.
LEMMA GoesOnStep ==
    ASSUME IInv, UNCHANGED unmoved, phase # "returned", phase' \in Phase, sessionId' \in BOOLEAN,
           UNCHANGED resuming, UNCHANGED terminals, bridge' \in HandleState, questionServer' \in HandleState,
           terminal => bridge' # "open" /\ questionServer' # "open",
           phase' # "persist",
           phase' \in {"configure", "compose", "prompt", "diagnose"} => sessionId'
    PROVE  StepOK
<1>1. UNCHANGED <<terminal, finalizing, stoppedByUser, stopFallbackTimer, pending, waiting, unasked,
                  toolItems, message, presentedPlanReview, exitedPlanReview, process, shown, saved>>
  BY DEF unmoved, flags, panels, timeline
<1>2. TypeOK'
  BY <1>1 DEF IInv, TypeOK
<1>3. NothingOutlivesRun'
  BY <1>1 DEF IInv, NothingOutlivesRun
<1>4. SessionIsKnown'
  BY DEF SessionIsKnown
<1>5. shown.end # "completed"
  BY DEF IInv, CompletedReturned
<1>6. CompletedReturned' /\ CompletedCanContinue'
  BY <1>1, <1>5 DEF CompletedReturned, CompletedCanContinue
<1> QED BY <1>1, <1>2, <1>3, <1>4, <1>6, SilentStep

LEMMA CoroutineStep ==
    ASSUME IInv, Coroutine
    PROVE  StepOK
<1>1. TypeOK /\ bridge \in HandleState /\ questionServer \in HandleState
      /\ sessionId \in BOOLEAN /\ resuming \in BOOLEAN
      /\ (terminal => bridge # "open" /\ questionServer # "open")
  BY DEF IInv, TypeOK, NothingOutlivesRun
<1>2. CASE Initialized
  BY <1>1, <1>2, GoesOnStep DEF Initialized, Phase, resources
<1>3. CASE BridgeStarted
  BY <1>1, <1>3, GoesOnStep DEF BridgeStarted, Phase, HandleState
<1>4. CASE QuestionServerStarted
  BY <1>1, <1>4, GoesOnStep DEF QuestionServerStarted, Phase, HandleState
<1>5. CASE Prepared
  BY <1>1, <1>5, GoesOnStep DEF Prepared, Phase, RequestPhase, resources
<1>6. CASE Opened
  BY <1>1, <1>6, GoesOnStep DEF Opened, Phase, RequestPhase, resources
<1>7. CASE Configured
  BY <1>1, <1>7, GoesOnStep DEF Configured, Phase, RequestPhase, resources, IInv, SessionIsKnown
<1>8. CASE PromptSent
  BY <1>1, <1>8, GoesOnStep DEF PromptSent, Phase, RequestPhase, resources, IInv, SessionIsKnown
<1>9. CASE PrepareFails \/ ComposeFails \/ Diagnosed
  BY <1>1, <1>9, ReturnStep DEF PrepareFails, ComposeFails, Diagnosed
<1>10. CASE RequestFails \/ RequestTimesOut
  BY <1>1, <1>10, ReturnStep DEF RequestFails, RequestTimesOut, RequestPhase
<1>11. CASE PromptEnds
  BY <1>1, <1>11, ReturnStep DEF PromptEnds
<1>12. CASE TurnEnds
  <2>1. UNCHANGED <<resuming, sessionId, terminal, stoppedByUser, stopFallbackTimer, pending, waiting, unasked,
                    toolItems, message, presentedPlanReview, exitedPlanReview, bridge, questionServer,
                    terminals, process, shown, saved>>
        /\ finalizing' = TRUE /\ phase = "prompt"
        /\ phase' = IF message \/ presentedPlanReview THEN "persist" ELSE "diagnose"
    BY <1>12 DEF TurnEnds, panels, timeline, resources
  <2>2. TypeOK'
    BY <2>1, <1>1 DEF TypeOK, Phase
  <2>3. NothingOutlivesRun' /\ SessionIsKnown'
    BY <2>1 DEF IInv, NothingOutlivesRun, SessionIsKnown
  <2>4. CompletedReturned' /\ CompletedCanContinue'
    BY <2>1 DEF IInv, CompletedReturned, CompletedCanContinue
  <2> QED BY <2>1, <2>2, <2>3, <2>4, SilentStep
<1>13. CASE Persisted
  <2>1. /\ phase = "persist" /\ saved' = TRUE /\ Complete("completed") /\ phase' = "returned"
        /\ UNCHANGED <<resuming, sessionId, process>>
    BY <1>13 DEF Persisted, CompleteAndReturn
  <2>2. sessionId /\ (message \/ presentedPlanReview) /\ shown.end # "completed"
    BY <2>1 DEF IInv, SessionIsKnown, CompletedReturned
  <2>3. phase' \in Phase
    BY <2>1 DEF Phase
  <2>4. process' \in {"up", "exited"} /\ resuming' \in BOOLEAN /\ sessionId' \in BOOLEAN /\ saved' \in BOOLEAN
    BY <2>1, <1>1 DEF TypeOK
  <2> QED BY <2>1, <2>2, <2>3, <2>4, CompleteStep
<1> QED BY <1>2, <1>3, <1>4, <1>5, <1>6, <1>7, <1>8, <1>9, <1>10, <1>11, <1>12, <1>13 DEF Coroutine

-----------------------------------------------------------------------------
(* The user and the process *)

LEMMA StopStep ==
    ASSUME IInv, Stop
    PROVE  StepOK
<1>1. CASE sessionId
  <2>1. UNCHANGED <<phase, resuming, sessionId, terminal, finalizing, pending, waiting, unasked, toolItems,
                    message, presentedPlanReview, exitedPlanReview, bridge, questionServer, terminals,
                    process, shown, saved>>
        /\ stoppedByUser' = TRUE /\ stopFallbackTimer' = TRUE
    BY <1>1 DEF Stop, panels, timeline, resources
  <2>2. TypeOK'
    BY <2>1 DEF IInv, TypeOK
  <2>3. NothingOutlivesRun' /\ SessionIsKnown' /\ CompletedReturned' /\ CompletedCanContinue'
    BY <2>1 DEF IInv, NothingOutlivesRun, SessionIsKnown, CompletedReturned, CompletedCanContinue
  <2> QED BY <2>1, <2>2, <2>3, SilentStep
<1>2. CASE ~sessionId
  BY <1>2, DroppedStep DEF Stop, IInv, TypeOK
<1> QED BY <1>1, <1>2

LEMMA ProcessExitsStep ==
    ASSUME IInv, ProcessExits
    PROVE  StepOK
<1>1. CASE terminal \/ finalizing
  <2>1. UNCHANGED <<phase, resuming, sessionId, terminal, finalizing, stoppedByUser, stopFallbackTimer,
                    pending, waiting, unasked, toolItems, message, presentedPlanReview, exitedPlanReview,
                    bridge, questionServer, terminals, shown, saved>>
        /\ process' = "exited"
    BY <1>1 DEF ProcessExits, flags, panels, timeline, resources
  <2>2. TypeOK'
    BY <2>1 DEF IInv, TypeOK
  <2>3. NothingOutlivesRun' /\ SessionIsKnown' /\ CompletedReturned' /\ CompletedCanContinue'
    BY <2>1 DEF IInv, NothingOutlivesRun, SessionIsKnown, CompletedReturned, CompletedCanContinue
  <2> QED BY <2>1, <2>2, <2>3, SilentStep
<1>2. CASE ~(terminal \/ finalizing)
  <2> DEFINE kind == IF stoppedByUser THEN "stopped" ELSE "failed"
  <2>1. Complete(kind) /\ phase' = Dropped /\ process' = "exited" /\ UNCHANGED <<resuming, sessionId, saved>>
    BY <1>2 DEF ProcessExits
  <2>2. kind \in {"failed", "stopped"}
    OBVIOUS
  <2> HIDE DEF kind
  <2> QED BY <2>1, <2>2, DroppedStep
<1> QED BY <1>1, <1>2

LEMMA EndedFromOutsideStep ==
    ASSUME IInv, StopFallback \/ Shutdown \/ MalformedPermission
    PROVE  StepOK
  BY DroppedStep DEF StopFallback, Shutdown, MalformedPermission, IInv, TypeOK

\* A panel opens or closes while the run is open: the user sees it, the process
\* waits for it, and nothing else changes.
LEMMA PanelStep ==
    ASSUME IInv, ~terminal, NEW open \in SUBSET Request,
           pending' = open, waiting' = open, shown' = [shown EXCEPT !.asked = open],
           unasked' \in SUBSET Request, open \cap unasked' = {},
           presentedPlanReview' \in BOOLEAN, presentedPlanReview => presentedPlanReview',
           exitedPlanReview' \in BOOLEAN,
           UNCHANGED <<coroutine, flags, toolItems, message, resources, process, saved>>,
           \E r \in Request : \/ r \notin pending /\ open = pending \cup {r}
                              \/ r \in pending /\ open = pending \ {r}
    PROVE  StepOK
<1>1. UNCHANGED <<phase, resuming, sessionId, terminal, finalizing, stoppedByUser, stopFallbackTimer, toolItems,
                  message, bridge, questionServer, terminals, process, saved>>
  BY DEF coroutine, flags, resources
<1>2. TypeOK /\ shown.end = "no" /\ shown.items = toolItems /\ shown.asked = pending
  BY DEF IInv, EndIsTerminal, ItemsAreShown, NobodyWaitsUnseen
<1>3. shown' \in [end : {"no", "completed", "failed", "stopped"},
                  asked : SUBSET Request, items : [Tool -> ItemState]]
      /\ shown'.end = "no" /\ shown'.asked = open /\ shown'.items = toolItems
  BY <1>2 DEF TypeOK
<1>4. TypeOK'
  BY <1>1, <1>2, <1>3 DEF TypeOK
<1>5. EndIsTerminal' /\ ItemsAreShown' /\ PanelsAreGone' /\ NobodyWaitsUnseen' /\ NothingOutlivesRun'
  BY <1>1, <1>3 DEF IInv, EndIsTerminal, ItemsAreShown, PanelsAreGone, NobodyWaitsUnseen, NothingOutlivesRun
<1>6. SessionIsKnown' /\ CompletedReturned' /\ CompletedCanContinue'
  BY <1>1, <1>3 DEF IInv, SessionIsKnown, CompletedReturned, CompletedCanContinue
<1>7. KeepsPromiseNow
  <2>1. PICK r \in Request : \/ r \notin pending /\ open = pending \cup {r}
                             \/ r \in pending /\ open = pending \ {r}
    OBVIOUS
  <2>2. RunPromise!Ask(r) \/ RunPromise!Settle(r)
    BY <2>1, <1>2, <1>3 DEF RunPromise!Ask, RunPromise!Settle
  <2> QED BY <2>2, <1>2, <1>3 DEF KeepsPromiseNow, RunPromise!Next
<1> QED BY <1>4, <1>5, <1>6, <1>7 DEF StepOK, IInv

LEMMA PermissionRequestStep ==
    ASSUME IInv, NEW r \in Request, PermissionRequest(r)
    PROVE  StepOK
<1> DEFINE open == pending \cup {r}
<1>1. /\ ~terminal /\ r \in unasked /\ unasked' = unasked \ {r}
      /\ pending' = open /\ waiting' = waiting \cup {r}
      /\ shown' = [shown EXCEPT !.asked = @ \cup {r}]
      /\ presentedPlanReview' = (presentedPlanReview \/ r \in Review)
      /\ UNCHANGED <<coroutine, flags, toolItems, message, exitedPlanReview, resources, process, saved>>
  BY DEF PermissionRequest, Working, Listening
<1>2. TypeOK /\ waiting = pending /\ shown.asked = pending /\ pending \cap unasked = {}
  BY <1>1 DEF IInv, NobodyWaitsUnseen, PanelsAreGone
<1>3. r \notin pending /\ open \in SUBSET Request /\ unasked' \in SUBSET Request /\ open \cap unasked' = {}
  BY <1>1, <1>2 DEF TypeOK
<1>4. shown' = [shown EXCEPT !.asked = open] /\ waiting' = open
  BY <1>1, <1>2
<1>5. presentedPlanReview' \in BOOLEAN /\ (presentedPlanReview => presentedPlanReview')
      /\ exitedPlanReview' \in BOOLEAN
  BY <1>1, <1>2 DEF TypeOK
<1>6. \E q \in Request : \/ q \notin pending /\ open = pending \cup {q}
                         \/ q \in pending /\ open = pending \ {q}
  <2>1. open = pending \cup {r}
    OBVIOUS
  <2> HIDE DEF open
  <2> QED BY <2>1, <1>3
<1> HIDE DEF open
<1> QED BY <1>1, <1>3, <1>4, <1>5, <1>6, PanelStep

LEMMA AskQuestionStep ==
    ASSUME IInv, NEW r \in Request, r \in unasked, ~terminal, AskQuestion(r)
    PROVE  StepOK
<1>1. TypeOK /\ waiting = pending /\ shown.asked = pending /\ pending \cap unasked = {}
  BY DEF IInv, NobodyWaitsUnseen, PanelsAreGone
<1>2. /\ unasked' = unasked \ {r}
      /\ UNCHANGED <<coroutine, flags, timeline, resources, process, saved>>
  BY DEF AskQuestion
<1>3. UNCHANGED <<phase, resuming, sessionId, terminal, finalizing, stoppedByUser, stopFallbackTimer, toolItems,
                  message, presentedPlanReview, exitedPlanReview, bridge, questionServer, terminals,
                  process, saved>>
  BY <1>2 DEF coroutine, flags, timeline, resources
<1>4. CASE pending \cap Question # {}
  <2>1. UNCHANGED <<pending, waiting, shown>>
    BY <1>4 DEF AskQuestion
  <2>2. TypeOK'
    BY <2>1, <1>1, <1>2, <1>3 DEF TypeOK
  <2>3. EndIsTerminal' /\ ItemsAreShown' /\ PanelsAreGone' /\ NobodyWaitsUnseen' /\ NothingOutlivesRun'
    BY <2>1, <1>2, <1>3
       DEF IInv, EndIsTerminal, ItemsAreShown, PanelsAreGone, NobodyWaitsUnseen, NothingOutlivesRun
  <2>4. SessionIsKnown' /\ CompletedReturned' /\ CompletedCanContinue'
    BY <2>1, <1>3 DEF IInv, SessionIsKnown, CompletedReturned, CompletedCanContinue
  <2>5. KeepsPromiseNow
    BY <2>1 DEF KeepsPromiseNow, RunPromise!vars
  <2> QED BY <2>2, <2>3, <2>4, <2>5 DEF StepOK, IInv
<1>5. CASE pending \cap Question = {}
  <2> DEFINE open == pending \cup {r}
  <2>1. pending' = open /\ waiting' = open /\ shown' = [shown EXCEPT !.asked = open]
    BY <1>1, <1>5 DEF AskQuestion
  <2>2. r \notin pending /\ open \in SUBSET Request /\ unasked' \in SUBSET Request /\ open \cap unasked' = {}
    BY <1>1, <1>2 DEF TypeOK
  <2>3. presentedPlanReview' \in BOOLEAN /\ exitedPlanReview' \in BOOLEAN
        /\ presentedPlanReview' = presentedPlanReview /\ UNCHANGED <<toolItems, message>>
    BY <1>1, <1>3 DEF TypeOK
  <2>4. \E q \in Request : \/ q \notin pending /\ open = pending \cup {q}
                           \/ q \in pending /\ open = pending \ {q}
    <3>1. open = pending \cup {r}
      OBVIOUS
    <3> HIDE DEF open
    <3> QED BY <3>1, <2>2
  <2> HIDE DEF open
  <2> QED BY <2>1, <2>2, <2>3, <2>4, <1>2, PanelStep
<1> QED BY <1>4, <1>5

LEMMA RespondStep ==
    ASSUME IInv, NEW r \in Request, Respond(r)
    PROVE  StepOK
<1> DEFINE open == pending \ {r}
<1>1. /\ r \in pending /\ pending' = open /\ waiting' = waiting \ {r}
      /\ shown' = [shown EXCEPT !.asked = @ \ {r}]
      /\ exitedPlanReview' \in BOOLEAN \/ exitedPlanReview' = exitedPlanReview
      /\ UNCHANGED <<coroutine, flags, unasked, toolItems, message, presentedPlanReview, resources, process, saved>>
  BY DEF Respond
<1>2. ~terminal
  BY <1>1 DEF IInv, PanelsAreGone
<1>3. TypeOK /\ waiting = pending /\ shown.asked = pending /\ pending \cap unasked = {}
  BY <1>2 DEF IInv, NobodyWaitsUnseen, PanelsAreGone
<1>4. open \in SUBSET Request /\ unasked' \in SUBSET Request /\ open \cap unasked' = {}
  BY <1>1, <1>3 DEF TypeOK
<1>5. shown' = [shown EXCEPT !.asked = open] /\ waiting' = open
  BY <1>1, <1>3
<1>6. presentedPlanReview' \in BOOLEAN /\ presentedPlanReview' = presentedPlanReview
      /\ exitedPlanReview' \in BOOLEAN
  BY <1>1, <1>3 DEF TypeOK
<1> QED BY <1>1, <1>2, <1>4, <1>5, <1>6, PanelStep

-----------------------------------------------------------------------------
(* session/update and the terminals *)

\* The text of the answer is not part of the promise.
LEMMA MessageChunkStep ==
    ASSUME IInv, MessageChunk
    PROVE  StepOK
<1>1. UNCHANGED <<phase, resuming, sessionId, terminal, finalizing, stoppedByUser, stopFallbackTimer,
                  pending, waiting, unasked, toolItems, presentedPlanReview, exitedPlanReview,
                  bridge, questionServer, terminals, process, shown, saved>>
      /\ message' = TRUE
  BY DEF MessageChunk, coroutine, flags, panels, resources
<1>2. TypeOK'
  BY <1>1 DEF IInv, TypeOK
<1>3. NothingOutlivesRun' /\ SessionIsKnown' /\ CompletedReturned' /\ CompletedCanContinue'
  BY <1>1 DEF IInv, NothingOutlivesRun, SessionIsKnown, CompletedReturned, CompletedCanContinue
<1> QED BY <1>1, <1>2, <1>3, SilentStep

\* An item that has run its course stays as it is; any other is shown anew.
LEMMA ToolUpdateStep ==
    ASSUME IInv, NEW tool \in Tool, NEW status \in ItemState, ToolUpdate(tool, status)
    PROVE  StepOK
<1>1. /\ ~terminal /\ status # "absent"
      /\ toolItems' = Upsert(toolItems, tool, status)
      /\ shown' = [shown EXCEPT !.items[tool] = toolItems'[tool]]
      /\ UNCHANGED <<phase, resuming, sessionId, terminal, finalizing, stoppedByUser, stopFallbackTimer,
                     pending, waiting, unasked, message, presentedPlanReview, exitedPlanReview,
                     bridge, questionServer, terminals, process, saved>>
  BY DEF ToolUpdate, Working, Listening, coroutine, flags, panels, resources
<1>2. TypeOK /\ shown.end = "no" /\ shown.items = toolItems
  BY <1>1 DEF IInv, EndIsTerminal, ItemsAreShown
<1>3. toolItems \in [Tool -> ItemState]
  BY <1>2 DEF TypeOK
<1>4. /\ toolItems' \in [Tool -> ItemState]
      /\ toolItems[tool] \in SettledItem => toolItems' = toolItems
      /\ toolItems[tool] \notin SettledItem => toolItems' = [toolItems EXCEPT ![tool] = status]
      /\ [toolItems EXCEPT ![tool] = toolItems'[tool]] = toolItems'
  BY <1>1, <1>3 DEF Upsert
<1>5. shown' \in [end : {"no", "completed", "failed", "stopped"},
                  asked : SUBSET Request, items : [Tool -> ItemState]]
      /\ shown'.end = "no" /\ shown'.asked = shown.asked /\ shown'.items = toolItems'
  BY <1>1, <1>2, <1>4 DEF TypeOK
<1>6. TypeOK'
  BY <1>1, <1>2, <1>4, <1>5 DEF TypeOK
<1>7. EndIsTerminal' /\ ItemsAreShown' /\ PanelsAreGone' /\ NobodyWaitsUnseen' /\ NothingOutlivesRun'
  BY <1>1, <1>5 DEF IInv, EndIsTerminal, ItemsAreShown, PanelsAreGone, NobodyWaitsUnseen, NothingOutlivesRun
<1>8. SessionIsKnown' /\ CompletedReturned' /\ CompletedCanContinue'
  BY <1>1, <1>5 DEF IInv, SessionIsKnown, CompletedReturned, CompletedCanContinue
<1>9. KeepsPromiseNow
  <2>1. CASE toolItems[tool] \in SettledItem
    <3>1. shown'.end = shown.end /\ shown'.asked = shown.asked /\ shown'.items = shown.items
      BY <2>1, <1>2, <1>4, <1>5
    <3> QED BY <3>1 DEF KeepsPromiseNow, RunPromise!vars
  <2>2. CASE toolItems[tool] \notin SettledItem
    <3>1. RunPromise!Show
      BY <2>2, <1>1, <1>2, <1>4, <1>5
         DEF RunPromise!Show, RunPromise!ItemState, RunPromise!SettledItem, ItemState, SettledItem
    <3> QED BY <3>1, <1>2, <1>5 DEF KeepsPromiseNow, RunPromise!Next
  <2> QED BY <2>1, <2>2
<1> QED BY <1>6, <1>7, <1>8, <1>9 DEF StepOK, IInv

LEMMA TerminalStep ==
    ASSUME IInv, NEW t \in Terminal, CreateTerminal(t) \/ TerminalGone(t)
    PROVE  StepOK
<1>1. UNCHANGED <<phase, resuming, sessionId, terminal, finalizing, stoppedByUser, stopFallbackTimer,
                  pending, waiting, unasked, toolItems, message, presentedPlanReview, exitedPlanReview,
                  bridge, questionServer, process, shown, saved>>
  BY DEF CreateTerminal, TerminalGone, coroutine, flags, panels, timeline
<1>2. terminals' \subseteq Terminal /\ (terminal => terminals' = {})
  BY DEF CreateTerminal, TerminalGone, Working, Listening, IInv, TypeOK, NothingOutlivesRun
<1>3. TypeOK'
  BY <1>1, <1>2 DEF IInv, TypeOK
<1>4. NothingOutlivesRun' /\ SessionIsKnown' /\ CompletedReturned' /\ CompletedCanContinue'
  BY <1>1, <1>2 DEF IInv, NothingOutlivesRun, SessionIsKnown, CompletedReturned, CompletedCanContinue
<1> QED BY <1>1, <1>3, <1>4, SilentStep

-----------------------------------------------------------------------------
(* The invariant and the promise *)

LEMMA InitIInv == Init => IInv
<1> SUFFICES ASSUME Init PROVE IInv
  OBVIOUS
<1>1. TypeOK
  BY DEF Init, TypeOK, Phase, RequestPhase, HandleState, ItemState
<1>2. EndIsTerminal /\ ItemsAreShown /\ PanelsAreGone /\ NobodyWaitsUnseen
  BY DEF Init, EndIsTerminal, ItemsAreShown, PanelsAreGone, NobodyWaitsUnseen
<1>3. SessionIsKnown /\ CompletedReturned /\ NothingOutlivesRun /\ CompletedCanContinue
  BY DEF Init, SessionIsKnown, CompletedReturned, NothingOutlivesRun, CompletedCanContinue
<1> QED BY <1>1, <1>2, <1>3 DEF IInv

LEMMA NextStep ==
    ASSUME IInv, [Next]_vars
    PROVE  StepOK
<1>1. CASE Coroutine
  BY <1>1, CoroutineStep
<1>2. CASE Update
  BY <1>2, MessageChunkStep, ToolUpdateStep DEF Update
<1>3. CASE Stop \/ StopFallback \/ Shutdown \/ ProcessExits \/ MalformedPermission
  BY <1>3, StopStep, ProcessExitsStep, EndedFromOutsideStep
<1>4. ASSUME NEW r \in Request, PermissionRequest(r) \/ NativeQuestion(r) \/ McpQuestion(r) \/ Respond(r)
      PROVE  StepOK
  BY <1>4, PermissionRequestStep, AskQuestionStep, RespondStep DEF NativeQuestion, McpQuestion, Working, Listening
<1>5. CASE \E t \in Terminal : CreateTerminal(t) \/ TerminalGone(t)
  BY <1>5, TerminalStep
<1>6. CASE UNCHANGED vars
  <2>1. UNCHANGED <<phase, resuming, sessionId, terminal, finalizing, stoppedByUser, stopFallbackTimer,
                    pending, waiting, unasked, toolItems, message, presentedPlanReview, exitedPlanReview,
                    bridge, questionServer, terminals, process, shown, saved>>
    BY <1>6 DEF vars, coroutine, flags, panels, timeline, resources
  <2>2. TypeOK'
    BY <2>1 DEF IInv, TypeOK
  <2>3. NothingOutlivesRun' /\ SessionIsKnown' /\ CompletedReturned' /\ CompletedCanContinue'
    BY <2>1 DEF IInv, NothingOutlivesRun, SessionIsKnown, CompletedReturned, CompletedCanContinue
  <2> QED BY <2>1, <2>2, <2>3, SilentStep
<1> QED BY <1>1, <1>2, <1>3, <1>4, <1>5, <1>6 DEF Next

\* The invariant holds in every reachable state of a Kimi run.
THEOREM Invariance == Spec => []IInv
<1>1. IInv /\ [Next]_vars => IInv'
  BY NextStep DEF StepOK
<1> QED BY <1>1, InitIInv, PTL DEF Spec

\* Every variable of the run keeps its shape.
THEOREM TypeCorrect == Spec => []TypeOK
<1>1. IInv => TypeOK
  BY DEF IInv
<1> QED BY <1>1, Invariance, PTL

\* While the run is open, the process waits for what the user sees, and the user
\* sees what can still be answered.
THEOREM RequestsAreSeen == Spec => []NobodyWaitsUnseen
<1>1. IInv => NobodyWaitsUnseen
  BY DEF IInv
<1> QED BY <1>1, Invariance, PTL

\* What a run opened is closed with it, also what came up after its end.
THEOREM RunLeavesNothing == Spec => []NothingOutlivesRun
<1>1. IInv => NothingOutlivesRun
  BY DEF IInv
<1> QED BY <1>1, Invariance, PTL

\* A completed run has offered its session to the store and has something to show.
THEOREM CompletedIsContinuable == Spec => []CompletedCanContinue
<1>1. IInv => CompletedCanContinue
  BY DEF IInv
<1> QED BY <1>1, Invariance, PTL

\* The run implements what its handle promises: every callback is a step of
\* RunHandle or is not seen.
THEOREM ImplementsRunHandle == Spec => KeepsPromise
<1>1. Init => RunPromise!Init
  BY DEF Init, RunPromise!Init
<1>2. IInv /\ [Next]_vars => [RunPromise!Next]_(RunPromise!vars)
  BY NextStep DEF StepOK, KeepsPromiseNow
<1> QED BY <1>1, <1>2, Invariance, PTL DEF Spec, KeepsPromise

=============================================================================
