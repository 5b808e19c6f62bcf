----------------------------- MODULE RunHandle -----------------------------
(***************************************************************************)
(* What a run promises to the code that holds its handle and receives its  *)
(* events (KimiAcpRunHandle in kimiAcpChat.ts, and the `emit` callback the *)
(* chat session manager passes in).  A run shows tools, asks the user for  *)
(* permissions and answers, and ends exactly once; what it shows at the    *)
(* end is settled, nothing it asked is still open, and nothing follows.    *)
(* KimiAcpRun implements this specification.                               *)
(***************************************************************************)
CONSTANTS Request,      \* permission requests and questions, each asked at most once
          Tool          \* tools of the timeline

VARIABLES end,          \* how the run ended: "no" while it has not
          asked,        \* the requests the user has been shown and not yet settled
          items         \* the state in which each tool is shown

vars == <<end, asked, items>>

Outcome == {"completed", "failed", "stopped"}

\* A tool in one of these states has run its course; "completed" includes "failed".
SettledItem == {"completed", "cancelled"}

ItemState == {"absent", "pending", "running"} \cup SettledItem

Init ==
    /\ end = "no"
    /\ asked = {}
    /\ items = [t \in Tool |-> "absent"]

\* A request is shown to the user.
Ask(r) ==
    /\ r \notin asked
    /\ asked' = asked \cup {r}
    /\ UNCHANGED items

\* The user's answer to a request that is shown takes it away again.
Settle(r) ==
    /\ r \in asked
    /\ asked' = asked \ {r}
    /\ UNCHANGED items

\* The timeline moves on: a tool that has run its course stays as it is.
Show ==
    /\ \E t \in Tool, s \in ItemState \ {"absent"} :
          /\ items[t] \notin SettledItem
          /\ items' = [items EXCEPT ![t] = s]
    /\ UNCHANGED asked

\* The one terminal event: no tool is left running, no request open.
End ==
    /\ end' \in Outcome
    /\ asked' = {}
    /\ items' = [t \in Tool |-> IF items[t] = "running" THEN "cancelled" ELSE items[t]]

Next ==
    /\ end = "no"
    /\ \/ End
       \/ /\ end' = "no"
          /\ \/ \E r \in Request : Ask(r) \/ Settle(r)
             \/ Show

Spec == Init /\ [][Next]_vars
=============================================================================
