------------------------ MODULE AppStateReplicaProofs ------------------------
(***************************************************************************)
(* Proofs about AppStateReplica for every set of windows, edits and        *)
(* concurrent flushes: an edit of a message is let go of only once it is   *)
(* stored or refused, nothing brings a deleted Thread back, and a window   *)
(* that protects nothing and gave nothing up shows what is stored.         *)
(*                                                                         *)
(* A submission is under way in one place at most: as a command in the     *)
(* queue, or as the answer on its way back.  From there it is known to     *)
(* carry, or to have stored, what the window still protects.  The messages *)
(* on their way to a window end with the current state, so that a window   *)
(* without one has heard it all.                                           *)
(***************************************************************************)
EXTENDS AppStateReplica, TLAPS

MessageTo == StateMessage \cup ReplyMessage \cup FlushRequest
Current == State(revision, stored, exists)

(* Messages on their way, a sequence d. *)

IsState(d, i) == i \in DOMAIN d /\ d[i].type = "state"
IsReply(d, i, s) == i \in DOMAIN d /\ d[i].type = "reply" /\ d[i].slot = s

NoState(d) == \A i \in DOMAIN d : ~IsState(d, i)
NoReply(d, s) == \A i \in DOMAIN d : ~IsReply(d, i, s)
Accepts(d, s) == \E i \in DOMAIN d : IsReply(d, i, s) /\ d[i].status = "accepted"

\* The last state is m.
EndsWith(d, m) ==
    \/ NoState(d)
    \/ \E i \in DOMAIN d : IsState(d, i) /\ d[i] = m /\ \A j \in DOMAIN d : IsState(d, j) => j <= i

\* A flush waits for one answer.
OneReplyEach(d) ==
    \A i, j \in DOMAIN d, s \in Slot : IsReply(d, i, s) /\ IsReply(d, j, s) => i = j

\* A state without the Thread has nothing of it, and none after it has it again.
StatesAgree(d) ==
    \A i \in DOMAIN d : IsState(d, i) /\ ~d[i].exists =>
        /\ d[i].edits = {}
        /\ \A j \in DOMAIN d : j > i /\ IsState(d, j) => ~d[j].exists

\* What is said is true: there says whether the Thread is there, and an edit is accepted
\* on a revision of its own.
TellsTruth(d, there) ==
    \A i \in DOMAIN d :
        /\ IsState(d, i) /\ ~d[i].exists => ~there
        /\ \A s \in Slot : IsReply(d, i, s) /\ d[i].status = "accepted" => d[i].rev # 0

\* The messages to a window when the current state is m.
MessagesOK(d, m) ==
    EndsWith(d, m) /\ StatesAgree(d) /\ TellsTruth(d, m.exists) /\ OneReplyEach(d)

(* The inductive invariant. *)

\* Patches are dirty, all but messages to prune of a Thread that is gone; the latest submission is in flight; nothing is kept of a Thread
\* that is not in the window's copy.
WindowOK(w) ==
    /\ ~dirty[w] => patches[w] \subseteq Prune
    /\ submission[w] # None => inflight[w] = Infinity
    /\ gone[w] => copy[w] = {} /\ ~Protected(w)

\* A window that has not subscribed hears and sends nothing.
Subscribed(w) ==
    w \notin subscribers =>
        /\ down[w] = <<>> /\ gone[w]
        /\ \A i \in DOMAIN queue : queue[i].window # w

\* A window to which no state is on its way has heard them all: it shows what is stored,
\* unless it protects an edit or gave one up.
Heard(w) ==
    /\ MessagesOK(down[w], Current)
    /\ w \in subscribers /\ NoState(down[w]) =>
          /\ gone[w] = ~exists
          /\ ~Protected(w) /\ ~behind[w] => copy[w] = stored

\* A flush that waits has its command in the queue, or its answer on its way, once.
OnePlace ==
    /\ \A i, j \in DOMAIN queue :
          queue[i].window = queue[j].window /\ queue[i].slot = queue[j].slot => i = j
    /\ \A i \in DOMAIN queue :
          /\ flush[queue[i].window][queue[i].slot] # Idle
          /\ NoReply(down[queue[i].window], queue[i].slot)
    /\ \A w \in Window, s \in Slot : flush[w][s] = Idle => NoReply(down[w], s)

Own(w) == copy[w] \cap Message

\* What a window without a newer edit has in flight is in its command, or stored.
Carried(w) ==
    ~dirty[w] =>
        /\ \A i \in DOMAIN queue :
              queue[i].window = w /\ queue[i].slot = submission[w] => Own(w) \subseteq queue[i].edits
        /\ submission[w] # None /\ Accepts(down[w], submission[w]) /\ exists => Own(w) \subseteq stored
        /\ inflight[w] \notin {NotInFlight, Infinity} /\ exists => Own(w) \subseteq stored

IInv ==
    /\ TypeOK
    /\ ~exists => stored = {}
    /\ \A w \in Window : WindowOK(w) /\ Subscribed(w) /\ Heard(w) /\ Carried(w)
    /\ OnePlace

-----------------------------------------------------------------------------
(* Messages are appended and taken from the front *)

LEMMA Appended ==
    ASSUME NEW d \in Seq(MessageTo), NEW m \in MessageTo
    PROVE  /\ Append(d, m) \in Seq(MessageTo)
           /\ Len(d) \in Nat /\ DOMAIN d = 1..Len(d) /\ DOMAIN Append(d, m) = 1..(Len(d) + 1)
           /\ \A i \in DOMAIN d : Append(d, m)[i] = d[i]
           /\ Append(d, m)[Len(d) + 1] = m
OBVIOUS

LEMMA MessageTypes ==
    /\ \A m \in StateMessage : m.type = "state" /\ m.exists \in BOOLEAN
    /\ \A m \in ReplyMessage : m.type = "reply" /\ m.slot \in Slot
    /\ \A m \in FlushRequest : m.type = "flush"
BY DEF StateMessage, ReplyMessage, FlushRequest

\* The next state is appended: it is current now.
LEMMA AppendState ==
    ASSUME NEW d \in Seq(MessageTo), NEW m \in StateMessage, NEW m0 \in StateMessage,
           MessagesOK(d, m0), m0.exists \/ ~m.exists, ~m.exists => m.edits = {}
    PROVE  /\ MessagesOK(Append(d, m), m) /\ ~NoState(Append(d, m))
           /\ \A s \in Slot : /\ NoReply(d, s) => NoReply(Append(d, m), s)
                              /\ Accepts(Append(d, m), s) => Accepts(d, s)
<1> DEFINE D == Append(d, m)
           n == Len(d)
<1>1. m \in MessageTo /\ m.type = "state"  BY MessageTypes DEF MessageTo
<1>2. /\ n \in Nat /\ DOMAIN d = 1..n /\ DOMAIN D = 1..(n + 1)
      /\ \A i \in DOMAIN d : D[i] = d[i]
      /\ D[n + 1] = m
  BY <1>1, Appended
<1> HIDE DEF D, n
<1>3. /\ \A i \in DOMAIN D : IsState(D, i) <=> i = n + 1 \/ IsState(d, i)
      /\ \A i \in DOMAIN D, s \in Slot : IsReply(D, i, s) <=> IsReply(d, i, s)
      /\ \A i \in DOMAIN D : i \in DOMAIN d \/ i = n + 1
      /\ \A i \in DOMAIN d : i \in DOMAIN D /\ i < n + 1 /\ D[i] = d[i]
      /\ n + 1 \in DOMAIN D
  BY <1>1, <1>2 DEF IsState, IsReply
<1>4. EndsWith(D, m) /\ ~NoState(D)
  <2>1. \A j \in DOMAIN D : j <= n + 1  BY <1>2
  <2> QED  BY <1>2, <1>3, <2>1 DEF EndsWith, NoState
<1>5. \A i \in DOMAIN d : IsState(d, i) /\ ~d[i].exists => ~m0.exists
  BY DEF MessagesOK, TellsTruth
<1>6. StatesAgree(D)
  <2> SUFFICES ASSUME NEW i \in DOMAIN D, IsState(D, i), ~D[i].exists
               PROVE  /\ D[i].edits = {}
                      /\ \A j \in DOMAIN D : j > i /\ IsState(D, j) => ~D[j].exists
    BY DEF StatesAgree
  <2>1. CASE i = n + 1
    <3>1. \A j \in DOMAIN D : ~(j > i)  BY <1>2, <2>1
    <3> QED  BY <1>2, <2>1, <3>1
  <2>2. CASE i \in DOMAIN d
    <3>1. IsState(d, i) /\ ~d[i].exists  BY <2>2, <1>2 DEF IsState
    <3>2. D[i].edits = {} /\ ~m.exists  BY <3>1, <2>2, <1>2, <1>5 DEF MessagesOK, StatesAgree
    <3>3. \A j \in DOMAIN d : j > i /\ IsState(d, j) => ~d[j].exists
      BY <3>1, <2>2 DEF MessagesOK, StatesAgree
    <3> QED  BY <3>2, <3>3, <1>2, <1>3
  <2> QED  BY <1>3, <2>1, <2>2
<1>8. TellsTruth(D, m.exists)
  <2>1. \A i \in DOMAIN D : IsState(D, i) /\ ~D[i].exists => ~m.exists
    BY <1>2, <1>3, <1>5
  <2>2. \A i \in DOMAIN D, s \in Slot :
            IsReply(D, i, s) /\ D[i].status = "accepted" => D[i].rev # 0
    <3> TAKE i \in DOMAIN D, s \in Slot
    <3> HAVE IsReply(D, i, s) /\ D[i].status = "accepted"
    <3>1. i \in DOMAIN d /\ IsReply(d, i, s) /\ D[i] = d[i]  BY <1>2, <1>3 DEF IsReply
    <3> QED  BY <3>1 DEF MessagesOK, TellsTruth
  <2> QED  BY <2>1, <2>2 DEF TellsTruth
<1>9. OneReplyEach(D)
  BY <1>3 DEF MessagesOK, OneReplyEach, IsReply
<1>10. \A s \in Slot : (NoReply(d, s) => NoReply(D, s)) /\ (Accepts(D, s) => Accepts(d, s))
  BY <1>2, <1>3 DEF NoReply, Accepts, IsReply
<1> QED  BY <1>4, <1>6, <1>8, <1>9, <1>10 DEF MessagesOK, D

\* The answer to a command is appended.
LEMMA AppendReply ==
    ASSUME NEW d \in Seq(MessageTo), NEW r \in ReplyMessage, NEW m \in StateMessage,
           MessagesOK(d, m), NoReply(d, r.slot),
           r.status = "accepted" => r.rev # 0
    PROVE  /\ MessagesOK(Append(d, r), m) /\ (NoState(Append(d, r)) => NoState(d))
           /\ \A s \in Slot : s # r.slot => /\ NoReply(d, s) => NoReply(Append(d, r), s)
                                            /\ Accepts(Append(d, r), s) => Accepts(d, s)
           /\ Accepts(Append(d, r), r.slot) => r.status = "accepted"
<1> DEFINE D == Append(d, r)
           n == Len(d)
<1>1. r \in MessageTo /\ r.type = "reply" /\ r.slot \in Slot  BY MessageTypes DEF MessageTo
<1>2. /\ n \in Nat /\ DOMAIN d = 1..n /\ DOMAIN D = 1..(n + 1)
      /\ \A i \in DOMAIN d : D[i] = d[i]
      /\ D[n + 1] = r
  BY <1>1, Appended
<1> HIDE DEF D, n
<1>3. /\ \A i \in DOMAIN D : IsState(D, i) <=> IsState(d, i)
      /\ \A i \in DOMAIN D, s \in Slot : IsReply(D, i, s) <=> (i = n + 1 /\ s = r.slot) \/ IsReply(d, i, s)
      /\ \A i \in DOMAIN D : i \in DOMAIN d \/ i = n + 1
      /\ \A i \in DOMAIN d : i \in DOMAIN D /\ i < n + 1 /\ D[i] = d[i]
      /\ n + 1 \in DOMAIN D
  BY <1>1, <1>2 DEF IsState, IsReply
<1>4. EndsWith(D, m) /\ (NoState(D) => NoState(d))
  <2>1. NoState(D) <=> NoState(d)  BY <1>3 DEF NoState, IsState
  <2>2. ASSUME NEW i \in DOMAIN d, IsState(d, i), d[i] = m, \A j \in DOMAIN d : IsState(d, j) => j <= i
        PROVE  EndsWith(D, m)
    <3>1. i \in DOMAIN D /\ IsState(D, i) /\ D[i] = m  BY <1>3, <2>2
    <3>2. \A j \in DOMAIN D : IsState(D, j) => j <= i
      BY <1>3, <2>2 DEF IsState
    <3> QED  BY <3>1, <3>2 DEF EndsWith
  <2> QED  BY <2>1, <2>2 DEF MessagesOK, EndsWith
<1>5. StatesAgree(D)
  BY <1>2, <1>3 DEF MessagesOK, StatesAgree, IsState
<1>7. TellsTruth(D, m.exists)
  <2>1. \A i \in DOMAIN D : IsState(D, i) /\ ~D[i].exists => ~m.exists
    BY <1>3 DEF IsState, MessagesOK, TellsTruth
  <2>2. \A i \in DOMAIN D, s \in Slot :
            IsReply(D, i, s) /\ D[i].status = "accepted" => D[i].rev # 0
    <3> TAKE i \in DOMAIN D, s \in Slot
    <3> HAVE IsReply(D, i, s) /\ D[i].status = "accepted"
    <3>1. CASE i = n + 1  BY <1>2, <3>1
    <3>2. CASE i \in DOMAIN d
      <4>1. IsReply(d, i, s) /\ D[i] = d[i]  BY <1>2, <3>2 DEF IsReply
      <4> QED  BY <4>1, <3>2 DEF MessagesOK, TellsTruth
    <3> QED  BY <1>3, <3>1, <3>2
  <2> QED  BY <2>1, <2>2 DEF TellsTruth
<1>8. OneReplyEach(D)
  <2> SUFFICES ASSUME NEW i \in DOMAIN D, NEW j \in DOMAIN D, NEW s \in Slot,
                      IsReply(D, i, s), IsReply(D, j, s)
               PROVE  i = j
    BY DEF OneReplyEach
  <2>1. \A k \in DOMAIN d : ~IsReply(d, k, r.slot)  BY DEF NoReply
  <2>2. CASE i \in DOMAIN d /\ j \in DOMAIN d
    BY <2>2, <1>2 DEF MessagesOK, OneReplyEach, IsReply
  <2>3. CASE i = n + 1
    <3>1. s = r.slot  BY <2>3, <1>2 DEF IsReply
    <3> QED  BY <2>1, <2>3, <3>1, <1>2, <1>3 DEF IsReply
  <2>4. CASE j = n + 1
    <3>1. s = r.slot  BY <2>4, <1>2 DEF IsReply
    <3> QED  BY <2>1, <2>4, <3>1, <1>2, <1>3 DEF IsReply
  <2> QED  BY <1>3, <2>2, <2>3, <2>4
<1>9. \A s \in Slot : s # r.slot => (NoReply(d, s) => NoReply(D, s)) /\ (Accepts(D, s) => Accepts(d, s))
  BY <1>2, <1>3 DEF NoReply, Accepts, IsReply
<1>10. Accepts(D, r.slot) => r.status = "accepted"
  BY <1>2, <1>3 DEF NoReply, Accepts, IsReply
<1> QED  BY <1>4, <1>5, <1>7, <1>8, <1>9, <1>10 DEF MessagesOK, D

\* A request to flush is appended.
LEMMA AppendFlush ==
    ASSUME NEW d \in Seq(MessageTo), NEW f \in FlushRequest, NEW m \in StateMessage,
           MessagesOK(d, m)
    PROVE  /\ MessagesOK(Append(d, f), m) /\ (NoState(Append(d, f)) => NoState(d))
           /\ \A s \in Slot : /\ NoReply(d, s) => NoReply(Append(d, f), s)
                              /\ Accepts(Append(d, f), s) => Accepts(d, s)
<1> DEFINE D == Append(d, f)
           n == Len(d)
<1>1. f \in MessageTo /\ f.type = "flush"  BY MessageTypes DEF MessageTo
<1>2. /\ n \in Nat /\ DOMAIN d = 1..n /\ DOMAIN D = 1..(n + 1)
      /\ \A i \in DOMAIN d : D[i] = d[i]
      /\ D[n + 1] = f
  BY <1>1, Appended
<1> HIDE DEF D, n
<1>3. /\ \A i \in DOMAIN D : IsState(D, i) <=> IsState(d, i)
      /\ \A i \in DOMAIN D, s \in Slot : IsReply(D, i, s) <=> IsReply(d, i, s)
      /\ \A i \in DOMAIN d : i \in DOMAIN D /\ D[i] = d[i]
  BY <1>1, <1>2 DEF IsState, IsReply
<1>4. EndsWith(D, m) /\ (NoState(D) => NoState(d))
  <2>1. NoState(D) <=> NoState(d)  BY <1>3 DEF NoState, IsState
  <2>2. ASSUME NEW i \in DOMAIN d, IsState(d, i), d[i] = m, \A j \in DOMAIN d : IsState(d, j) => j <= i
        PROVE  EndsWith(D, m)
    <3>1. i \in DOMAIN D /\ IsState(D, i) /\ D[i] = m  BY <1>3, <2>2
    <3>2. \A j \in DOMAIN D : IsState(D, j) => j <= i
      BY <1>3, <2>2 DEF IsState
    <3> QED  BY <3>1, <3>2 DEF EndsWith
  <2> QED  BY <2>1, <2>2 DEF MessagesOK, EndsWith
<1>5. StatesAgree(D)
  BY <1>2, <1>3 DEF MessagesOK, StatesAgree, IsState
<1>7. TellsTruth(D, m.exists)
  BY <1>3 DEF MessagesOK, TellsTruth, IsState, IsReply
<1>8. OneReplyEach(D)
  BY <1>3 DEF MessagesOK, OneReplyEach, IsReply
<1>9. \A s \in Slot : (NoReply(d, s) => NoReply(D, s)) /\ (Accepts(D, s) => Accepts(d, s))
  BY <1>2, <1>3 DEF NoReply, Accepts, IsReply
<1> QED  BY <1>4, <1>5, <1>7, <1>8, <1>9 DEF MessagesOK, D

\* The first message is taken.  A state is the current one if none is left; an answer
\* leaves none for its flush.
LEMMA TakeFirst ==
    ASSUME NEW d \in Seq(MessageTo), d # <<>>, NEW m \in StateMessage,
           MessagesOK(d, m)
    PROVE  /\ Tail(d) \in Seq(MessageTo) /\ Head(d) \in MessageTo
           /\ \A s \in Slot : /\ NoReply(d, s) => NoReply(Tail(d), s)
                              /\ Accepts(Tail(d), s) => Accepts(d, s)
           /\ Head(d).type = "state" =>
                 /\ Head(d) \in StateMessage
                 /\ MessagesOK(Tail(d), m)
                 /\ NoState(Tail(d)) => Head(d) = m
                 /\ ~Head(d).exists => Head(d).edits = {} /\ ~m.exists
           /\ Head(d).type # "state" =>
                 MessagesOK(Tail(d), m) /\ (NoState(Tail(d)) => NoState(d))
           /\ Head(d).type = "reply" =>
                 /\ Head(d) \in ReplyMessage /\ NoReply(Tail(d), Head(d).slot)
                 /\ Head(d).status = "accepted" => Accepts(d, Head(d).slot) /\ Head(d).rev # 0
<1> DEFINE D == Tail(d)
           n == Len(d)
           x == Head(d)
<1>1. /\ n \in Nat /\ n >= 1 /\ DOMAIN d = 1..n /\ DOMAIN D = 1..(n - 1)
      /\ \A i \in 1..(n - 1) : D[i] = d[i + 1]
      /\ x = d[1] /\ x \in MessageTo /\ D \in Seq(MessageTo)
  OBVIOUS
<1> HIDE DEF D, n, x
<1>2. /\ \A i \in DOMAIN D : i + 1 \in DOMAIN d /\ D[i] = d[i + 1]
      /\ \A i \in DOMAIN d : i # 1 => i - 1 \in DOMAIN D /\ d[i] = D[i - 1]
      /\ 1 \in DOMAIN d /\ DOMAIN d \subseteq Nat /\ DOMAIN D \subseteq Nat
      /\ \A i \in DOMAIN d : i >= 1
  BY <1>1
<1>3. /\ \A i \in DOMAIN D : IsState(D, i) <=> IsState(d, i + 1)
      /\ \A i \in DOMAIN D, s \in Slot : IsReply(D, i, s) <=> IsReply(d, i + 1, s)
  BY <1>2 DEF IsState, IsReply
<1>4. IsState(d, 1) <=> x.type = "state"  BY <1>1, <1>2 DEF IsState
<1>5. NoState(D) /\ x.type # "state" => NoState(d)
  <2> SUFFICES ASSUME NoState(D), x.type # "state", NEW i \in DOMAIN d PROVE ~IsState(d, i)
    BY DEF NoState
  <2>1. CASE i = 1  BY <2>1, <1>4
  <2>2. CASE i # 1
    <3>1. i - 1 \in DOMAIN D /\ d[i] = D[i - 1]  BY <1>2, <2>2
    <3> QED  BY <3>1 DEF NoState, IsState
  <2> QED  BY <2>1, <2>2
<1>6. EndsWith(D, m) /\ (x.type = "state" /\ NoState(D) => x = m)
  <2>1. CASE NoState(d)
    <3>1. NoState(D)  BY <2>1, <1>2, <1>3 DEF NoState
    <3>2. x.type # "state"  BY <2>1, <1>2, <1>4 DEF NoState
    <3> QED  BY <3>1, <3>2 DEF EndsWith
  <2>2. ASSUME NEW i \in DOMAIN d, IsState(d, i), d[i] = m, \A j \in DOMAIN d : IsState(d, j) => j <= i
        PROVE  EndsWith(D, m) /\ (x.type = "state" /\ NoState(D) => x = m)
    <3>1. CASE i = 1
      <4>1. ASSUME NEW j \in DOMAIN D, IsState(D, j) PROVE FALSE
        <5>1. j + 1 \in DOMAIN d /\ IsState(d, j + 1)  BY <4>1, <1>2, <1>3
        <5>2. j + 1 <= 1 /\ j \in DOMAIN D /\ j >= 1  BY <5>1, <2>2, <3>1, <1>1
        <5>3. j \in Nat  BY <1>2
        <5> QED  BY <5>2, <5>3
      <4>2. NoState(D)  BY <4>1 DEF NoState
      <4> QED  BY <4>2, <3>1, <2>2, <1>1 DEF EndsWith
    <3>2. CASE i # 1
      <4>1. i - 1 \in DOMAIN D /\ D[i - 1] = m  BY <3>2, <2>2, <1>2
      <4>2. IsState(D, i - 1)  BY <4>1, <2>2 DEF IsState
      <4>3. ASSUME NEW j \in DOMAIN D, IsState(D, j) PROVE j <= i - 1
        <5>1. j + 1 \in DOMAIN d /\ IsState(d, j + 1)  BY <4>3, <1>2, <1>3
        <5>2. j + 1 <= i /\ i \in Nat /\ j \in Nat  BY <5>1, <2>2, <1>2
        <5> QED  BY <5>2
      <4>4. EndsWith(D, m)  BY <4>1, <4>2, <4>3 DEF EndsWith
      <4>5. ~NoState(D)  BY <4>1, <4>2 DEF NoState
      <4> QED  BY <4>4, <4>5
    <3> QED  BY <3>1, <3>2
  <2> QED  BY <2>1, <2>2 DEF MessagesOK, EndsWith
<1>7. StatesAgree(D)
  <2> SUFFICES ASSUME NEW i \in DOMAIN D, IsState(D, i), ~D[i].exists
               PROVE  /\ D[i].edits = {}
                      /\ \A j \in DOMAIN D : j > i /\ IsState(D, j) => ~D[j].exists
    BY DEF StatesAgree
  <2>1. i + 1 \in DOMAIN d /\ IsState(d, i + 1) /\ ~d[i + 1].exists /\ D[i] = d[i + 1]  BY <1>2, <1>3
  <2>2. /\ d[i + 1].edits = {}
        /\ \A j \in DOMAIN d : j > i + 1 /\ IsState(d, j) => ~d[j].exists
    BY <2>1 DEF MessagesOK, StatesAgree
  <2>3. ASSUME NEW j \in DOMAIN D, j > i, IsState(D, j) PROVE ~D[j].exists
    <3>1. j + 1 \in DOMAIN d /\ IsState(d, j + 1) /\ D[j] = d[j + 1]  BY <2>3, <1>2, <1>3
    <3>2. j + 1 > i + 1  BY <2>3, <1>2
    <3> QED  BY <2>2, <3>1, <3>2
  <2> QED  BY <2>1, <2>2, <2>3
<1>8. TellsTruth(D, m.exists)
  <2> SUFFICES ASSUME NEW i \in DOMAIN D
               PROVE  /\ IsState(D, i) /\ ~D[i].exists => ~m.exists
                      /\ \A s \in Slot : IsReply(D, i, s) /\ D[i].status = "accepted" => D[i].rev # 0
    BY DEF TellsTruth
  <2>1. i + 1 \in DOMAIN d /\ D[i] = d[i + 1]  BY <1>2
  <2> QED  BY <2>1, <1>3 DEF MessagesOK, TellsTruth
<1>9. OneReplyEach(D)
  <2> SUFFICES ASSUME NEW i \in DOMAIN D, NEW j \in DOMAIN D, NEW s \in Slot,
                      IsReply(D, i, s), IsReply(D, j, s)
               PROVE  i = j
    BY DEF OneReplyEach
  <2>1. /\ i + 1 \in DOMAIN d /\ j + 1 \in DOMAIN d /\ IsReply(d, i + 1, s) /\ IsReply(d, j + 1, s)
    BY <1>2, <1>3
  <2>2. i + 1 = j + 1  BY <2>1 DEF MessagesOK, OneReplyEach
  <2>3. i \in Nat /\ j \in Nat  BY <1>2
  <2> QED  BY <2>2, <2>3
<1>11. \A s \in Slot : (NoReply(d, s) => NoReply(D, s)) /\ (Accepts(D, s) => Accepts(d, s))
  <2> TAKE s \in Slot
  <2>1. \A i \in DOMAIN D : IsReply(D, i, s) => IsReply(d, i + 1, s) /\ i + 1 \in DOMAIN d /\ D[i] = d[i + 1]
    BY <1>2, <1>3
  <2> QED  BY <2>1 DEF NoReply, Accepts
<1>12. x.type = "state" =>
          /\ x \in StateMessage
          /\ ~x.exists => x.edits = {} /\ ~m.exists
  <2> SUFFICES ASSUME x.type = "state"
               PROVE  /\ x \in StateMessage
                      /\ ~x.exists => x.edits = {} /\ ~m.exists
    OBVIOUS
  <2>1. x \in StateMessage  BY <1>1, MessageTypes DEF MessageTo
  <2>2. IsState(d, 1) /\ 1 \in DOMAIN d /\ x = d[1]  BY <1>1, <1>2, <1>4
  <2> QED  BY <2>1, <2>2 DEF MessagesOK, StatesAgree, TellsTruth
<1>13. x.type = "reply" =>
          /\ x \in ReplyMessage /\ NoReply(D, x.slot)
          /\ x.status = "accepted" => Accepts(d, x.slot) /\ x.rev # 0
  <2> SUFFICES ASSUME x.type = "reply"
               PROVE  /\ x \in ReplyMessage /\ NoReply(D, x.slot)
                      /\ x.status = "accepted" => Accepts(d, x.slot) /\ x.rev # 0
    OBVIOUS
  <2>1. x \in ReplyMessage /\ x.slot \in Slot  BY <1>1, MessageTypes DEF MessageTo
  <2>2. IsReply(d, 1, x.slot) /\ 1 \in DOMAIN d /\ x = d[1]  BY <1>1, <1>2 DEF IsReply
  <2>3. NoReply(D, x.slot)
    <3> SUFFICES ASSUME NEW i \in DOMAIN D, IsReply(D, i, x.slot) PROVE FALSE  BY DEF NoReply
    <3>1. i + 1 \in DOMAIN d /\ IsReply(d, i + 1, x.slot)  BY <1>2, <1>3, <2>1
    <3>2. i + 1 = 1  BY <2>1, <2>2, <3>1 DEF MessagesOK, OneReplyEach
    <3> QED  BY <3>2, <1>1
  <2>4. x.status = "accepted" => Accepts(d, x.slot) /\ x.rev # 0
    BY <2>1, <2>2 DEF Accepts, MessagesOK, TellsTruth
  <2> QED  BY <2>1, <2>3, <2>4
<1>14. MessagesOK(D, m)  BY <1>6, <1>7, <1>8, <1>9 DEF MessagesOK
<1> QED  BY <1>1, <1>5, <1>6, <1>11, <1>12, <1>13, <1>14 DEF D, x

-----------------------------------------------------------------------------
(* Steps of one window *)

WindowInv(w) == WindowOK(w) /\ Subscribed(w) /\ Heard(w) /\ Carried(w)

\* What window w has of the Thread does not change.
Keeps(w) ==
    /\ gone'[w] = gone[w] /\ copy'[w] = copy[w]
    /\ dirty'[w] = dirty[w] /\ patches'[w] = patches[w]
    /\ inflight'[w] = inflight[w] /\ submission'[w] = submission[w] /\ behind'[w] = behind[w]

\* It reads no state.
ReadsNoState(w) ==
    /\ MessagesOK(down'[w], Current)
    /\ NoState(down'[w]) => NoState(down[w])
    /\ \A s \in Slot : /\ NoReply(down[w], s) => NoReply(down'[w], s)
                       /\ Accepts(down'[w], s) => Accepts(down[w], s)

\* The queue stays, or window w appends a command for the flush in slot s.
Queues(w, s) ==
    \/ queue' = queue
    \/ \E c \in Command : c.window = w /\ c.slot = s /\ queue' = Append(queue, c)

LEMMA QueueGrows ==
    ASSUME IInv, NEW w, NEW s, Queues(w, s)
    PROVE  /\ queue' \in Seq(Command)
           /\ \A i \in DOMAIN queue : i \in DOMAIN queue' /\ queue'[i] = queue[i]
           /\ \A i \in DOMAIN queue' \ DOMAIN queue :
                 i = Len(queue) + 1 /\ queue'[i].window = w /\ queue'[i].slot = s
<1>1. queue \in Seq(Command)  BY DEF IInv, TypeOK
<1> QED  BY <1>1 DEF Queues

LEMMA CurrentType ==
    ASSUME IInv
    PROVE  /\ Current \in StateMessage /\ Current.rev = revision /\ Current.edits = stored /\ Current.exists = exists
           /\ \A w \in Window : /\ down[w] \in Seq(MessageTo) /\ gone[w] \in BOOLEAN
                                /\ MessagesOK(down[w], Current)
BY DEF IInv, TypeOK, Current, State, StateMessage, MessageTo, Heard

\* A window that does nothing, or only takes a message that is no state.
LEMMA WindowKeeps ==
    ASSUME IInv, NEW w \in Window, Keeps(w), UNCHANGED <<authority, subscribers>>,
           down'[w] = down[w] \/ (w \in subscribers /\ ReadsNoState(w)),
           NEW v \in Window, NEW s \in Slot, Queues(v, s), v # w
    PROVE  WindowInv(w)'
<1>1. WindowInv(w)  BY DEF IInv, WindowInv
<1>2. UNCHANGED <<revision, stored, exists, subscribers>> /\ Current' = Current
  BY DEF authority, Current, State
<1>3. MessagesOK(down[w], Current)  BY CurrentType
<1>4. ReadsNoState(w)  BY <1>3 DEF ReadsNoState
<1>5. \A i \in DOMAIN queue' : queue'[i].window = w => i \in DOMAIN queue /\ queue'[i] = queue[i]
  BY QueueGrows
<1>6. WindowOK(w)'  BY <1>1 DEF Keeps, WindowInv, WindowOK, Protected
<1>7. Subscribed(w)'  BY <1>1, <1>2, <1>5 DEF Keeps, WindowInv, Subscribed
<1>8. Heard(w)'
  BY <1>1, <1>2, <1>4 DEF Keeps, WindowInv, Heard, ReadsNoState, Protected
<1>9. Carried(w)'
  <2>1. submission[w] \in Slot \cup {None}  BY DEF IInv, TypeOK
  <2>2. Accepts(down'[w], submission[w]) /\ submission[w] # None => Accepts(down[w], submission[w])
    BY <1>4, <2>1 DEF ReadsNoState
  <2> QED  BY <1>1, <1>2, <1>5, <2>2 DEF Keeps, WindowInv, Carried, Own
<1> QED  BY <1>6, <1>7, <1>8, <1>9 DEF WindowInv

\* Window v, and nobody else, may queue a command.
LEMMA OthersKeep ==
    ASSUME IInv, NEW v \in Window, NEW s \in Slot, Queues(v, s), UNCHANGED <<authority, subscribers>>,
           \A w \in Window \ {v} : Keeps(w) /\ down'[w] = down[w]
    PROVE  \A w \in Window \ {v} : WindowInv(w)'
BY WindowKeeps

\* The flush in slot s of window w begins, tries again or returns: nothing of it was
\* left in the queue, and its answer has been read.
LEMMA PlaceMoves ==
    ASSUME IInv, NEW w \in Window, NEW s \in Slot, Queues(w, s),
           queue' # queue => flush'[w][s] # Idle,
           \A i \in DOMAIN queue : ~(queue[i].window = w /\ queue[i].slot = s),
           NoReply(down'[w], s),
           \A t \in Slot : NoReply(down[w], t) => NoReply(down'[w], t),
           \A v \in Window \ {w} : down'[v] = down[v] /\ flush'[v] = flush[v],
           \A t \in Slot \ {s} : flush'[w][t] = flush[w][t]
    PROVE  OnePlace'
<1>1. /\ queue' \in Seq(Command)
      /\ \A i \in DOMAIN queue : i \in DOMAIN queue' /\ queue'[i] = queue[i]
      /\ \A i \in DOMAIN queue' \ DOMAIN queue :
            i = Len(queue) + 1 /\ queue'[i].window = w /\ queue'[i].slot = s /\ queue' # queue
  BY QueueGrows
<1>2. OnePlace  BY DEF IInv
<1>3. \A i \in DOMAIN queue : queue[i].window \in Window /\ queue[i].slot \in Slot
  <2>1. queue \in Seq(Command)  BY DEF IInv, TypeOK
  <2>2. \A i \in DOMAIN queue : queue[i] \in Command  BY <2>1
  <2> QED  BY <2>2 DEF Command
<1>4. ASSUME NEW i \in DOMAIN queue', NEW j \in DOMAIN queue',
             queue'[i].window = queue'[j].window, queue'[i].slot = queue'[j].slot
      PROVE  i = j
  <2>1. CASE i \in DOMAIN queue /\ j \in DOMAIN queue  BY <1>1, <1>2, <1>4, <2>1 DEF OnePlace
  <2>2. CASE i \notin DOMAIN queue  BY <1>1, <1>4, <2>2
  <2>3. CASE j \notin DOMAIN queue  BY <1>1, <1>4, <2>3
  <2> QED  BY <2>1, <2>2, <2>3
<1>5. ASSUME NEW i \in DOMAIN queue'
      PROVE  /\ flush'[queue'[i].window][queue'[i].slot] # Idle
             /\ NoReply(down'[queue'[i].window], queue'[i].slot)
  <2>1. CASE i \in DOMAIN queue
    <3>1. /\ flush[queue[i].window][queue[i].slot] # Idle
          /\ NoReply(down[queue[i].window], queue[i].slot)
          /\ queue'[i] = queue[i]
      BY <1>1, <1>2, <2>1 DEF OnePlace
    <3>2. CASE queue[i].window = w
      <4>1. queue[i].slot \in Slot \ {s}  BY <1>3, <2>1, <3>2
      <4> QED  BY <3>1, <3>2, <4>1
    <3>3. CASE queue[i].window # w
      <4>1. queue[i].window \in Window \ {w}  BY <1>3, <2>1, <3>3
      <4> QED  BY <3>1, <4>1
    <3> QED  BY <3>2, <3>3
  <2>2. CASE i \notin DOMAIN queue  BY <1>1, <2>2
  <2> QED  BY <2>1, <2>2
<1>6. ASSUME NEW v \in Window, NEW t \in Slot, flush'[v][t] = Idle
      PROVE  NoReply(down'[v], t)
  <2>1. CASE v # w  BY <1>2, <1>6, <2>1 DEF OnePlace
  <2>2. CASE v = w /\ t # s  BY <1>2, <1>6, <2>2 DEF OnePlace
  <2>3. CASE v = w /\ t = s  BY <2>3
  <2> QED  BY <2>1, <2>2, <2>3
<1> QED  BY <1>4, <1>5, <1>6 DEF OnePlace

\* What a step may do to the edits that are held.
LetsGo ==
    \A e \in Message : Held(e) /\ exists' =>
       \/ Held(e)' \/ e \in stored'
       \/ \E w \in Window : GivesUp(w) /\ e \in copy[w]

\* A window's step takes no edit away that is protected and neither stored nor refused.
LEMMA StillHeld ==
    ASSUME NEW w \in Window, UNCHANGED authority,
           \A v \in Window \ {w} : Keeps(v),
           \/ exists => \A e \in Own(w) : Protected(w) => e \in stored \/ (e \in copy'[w] /\ Protected(w)')
           \/ GivesUp(w)
    PROVE  LetsGo
<1>1. UNCHANGED <<stored, exists>>  BY DEF authority
<1> SUFFICES ASSUME exists, NEW e \in Message, Held(e)
             PROVE  \/ Held(e)' \/ e \in stored
                    \/ \E u \in Window : GivesUp(u) /\ e \in copy[u]
  BY <1>1 DEF LetsGo
<1>2. PICK v \in Window : e \in copy[v] /\ Protected(v)  BY DEF Held
<1>3. CASE v = w
  <2>1. e \in Own(w)  BY <1>2, <1>3 DEF Own
  <2> QED  BY <1>2, <1>3, <2>1 DEF Held
<1>4. CASE v # w
  <2>1. Keeps(v)  BY <1>4
  <2>2. e \in copy'[v] /\ Protected(v)'  BY <1>2, <2>1 DEF Keeps, Protected
  <2> QED  BY <2>2 DEF Held
<1> QED  BY <1>3, <1>4

\* The step of one window, put together.
LEMMA WindowSteps ==
    ASSUME IInv, NEW w \in Window, NEW s \in Slot, Queues(w, s), UNCHANGED <<authority, subscribers>>,
           TypeOK', OnePlace', WindowInv(w)',
           \A v \in Window \ {w} : Keeps(v) /\ down'[v] = down[v],
           \/ exists => \A e \in Own(w) : Protected(w) => e \in stored \/ (e \in copy'[w] /\ Protected(w)')
           \/ GivesUp(w)
    PROVE  IInv' /\ LetsGo
<1>1. \A v \in Window \ {w} : WindowInv(v)'  BY OthersKeep
<1>2. LetsGo  BY StillHeld
<1>3. ~exists' => stored' = {}  BY DEF IInv, authority
<1>4. \A v \in Window : WindowInv(v)'  BY <1>1
<1> QED  BY <1>2, <1>3, <1>4 DEF IInv, WindowInv

LEMMA EditsOK ==
    ASSUME IInv, NEW w \in Window, NEW e \in Edit, Edits(w, e)
    PROVE  IInv' /\ LetsGo
<1>1. /\ w \in subscribers /\ ~gone[w] /\ e \in Edit
      /\ made' = made \cup {e}
      /\ copy' = [copy EXCEPT ![w] = @ \cup {e}]
      /\ dirty' = [dirty EXCEPT ![w] = TRUE]
      /\ patches' = [patches EXCEPT ![w] = @ \cup ({e} \cap Patch)]
      /\ UNCHANGED <<authority, subscribers, queue, other, down, seen, gone, inflight, submission, behind,
                     flush, phase, awaited, drain>>
  BY DEF Edits, main, quitting
<1>2. UNCHANGED <<revision, stored, exists>> /\ Current' = Current  BY <1>1 DEF authority, Current, State
<1>3. TypeOK'  BY <1>1, <1>2 DEF IInv, TypeOK
<1>4. /\ copy'[w] = copy[w] \cup {e} /\ dirty'[w] = TRUE
      /\ \A v \in Window \ {w} : Keeps(v)
  BY <1>1 DEF IInv, TypeOK, Keeps
<1>5. WindowInv(w)'
  <2>1. WindowInv(w)  BY DEF IInv, WindowInv
  <2>2. WindowOK(w)'  BY <1>1, <1>4, <2>1 DEF WindowInv, WindowOK
  <2>3. Subscribed(w)'  BY <1>1 DEF Subscribed
  <2>4. Heard(w)'
    BY <1>1, <1>2, <1>4, <2>1 DEF WindowInv, Heard, Protected
  <2>5. Carried(w)'  BY <1>4 DEF Carried
  <2> QED  BY <2>2, <2>3, <2>4, <2>5 DEF WindowInv
<1>6. OnePlace'  BY <1>1 DEF IInv, OnePlace
<1>7. \A v \in Window \ {w} : WindowInv(v)'
  <2> TAKE v \in Window \ {w}
  <2>1. Keeps(v) /\ WindowInv(v)  BY <1>4 DEF IInv, WindowInv
  <2> QED
    BY <1>1, <1>2, <2>1 DEF Keeps, WindowInv, WindowOK, Subscribed, Heard, Carried, Own, Protected
<1>8. LetsGo
  <2>1. \A x \in Own(w) : x \in copy'[w] /\ Protected(w)'  BY <1>4 DEF Own, Protected
  <2> QED  BY <1>1, <1>4, <2>1, StillHeld
<1>9. ~exists' => stored' = {}  BY <1>2 DEF IInv
<1> QED  BY <1>3, <1>5, <1>6, <1>7, <1>8, <1>9 DEF IInv, WindowInv

\* A submission takes the window's edits along, or there was nothing to submit.
LEMMA SubmitOK ==
    ASSUME IInv, NEW w \in Window, NEW s \in Slot, NEW quit \in BOOLEAN,
           flush[w][s] = Idle, Submit(w, s, 1, quit),
           UNCHANGED <<authority, subscribers, other, replica, behind, made, phase, drain>>,
           down' \in [Window -> Seq(MessageTo)], \A v \in Window \ {w} : down'[v] = down[v],
           ReadsNoState(w), w \notin subscribers => down'[w] = down[w]
    PROVE  IInv' /\ LetsGo
<1>1. UNCHANGED <<revision, stored, exists, subscribers, other, seen, copy, gone, behind, made, phase, drain>>
      /\ Current' = Current
  BY DEF authority, replica, Current, State
<1>2. WindowInv(w) /\ OnePlace  BY DEF IInv, WindowInv
<1>3. queue \in Seq(Command) /\ \A i \in DOMAIN queue : queue[i] \in Command
  <2>1. queue \in Seq(Command)  BY DEF IInv, TypeOK
  <2> QED  BY <2>1
<1>4. \A i \in DOMAIN queue : ~(queue[i].window = w /\ queue[i].slot = s)
  BY <1>2 DEF OnePlace
<1>5. NoReply(down[w], s)  BY <1>2 DEF OnePlace
<1>6. \A t \in Slot : NoReply(down[w], t) => NoReply(down'[w], t)  BY DEF ReadsNoState
<1>7. NoReply(down'[w], s)  BY <1>5, <1>6
<1>8. 1 \in 0..MaxAttempts  BY ReplicaConstants
<1>9. CASE dirty[w] /\ ~gone[w]
  <2> DEFINE c == [window |-> w, slot |-> s, base |-> seen[w], edits |-> (copy[w] \cap Message) \cup patches[w]]
             f == [attempt |-> 1, sent |-> patches[w], quit |-> quit]
  <2>1. /\ queue' = Append(queue, c) /\ flush' = [flush EXCEPT ![w][s] = f]
        /\ dirty' = [dirty EXCEPT ![w] = FALSE] /\ patches' = [patches EXCEPT ![w] = {}]
        /\ inflight' = [inflight EXCEPT ![w] = Infinity] /\ submission' = [submission EXCEPT ![w] = s]
        /\ awaited' = awaited
    BY <1>9 DEF Submit
  <2>2. c \in Command /\ c.window = w /\ c.slot = s /\ c.edits = (copy[w] \cap Message) \cup patches[w]
    BY DEF Command, IInv, TypeOK, Edit
  <2>3. f \in Attempt /\ f # Idle
    <3>1. f \in Attempt  BY <1>8 DEF Attempt, IInv, TypeOK
    <3>2. f.attempt = 1 /\ Idle.attempt = 0  BY DEF Idle
    <3> QED  BY <3>1, <3>2
  <2> HIDE DEF c, f
  <2>4. Queues(w, s)  BY <2>1, <2>2 DEF Queues
  <2>5. /\ flush' \in [Window -> [Slot -> Attempt]] /\ flush'[w][s] = f
        /\ \A t \in Slot \ {s} : flush'[w][t] = flush[w][t]
        /\ \A v \in Window \ {w} : flush'[v] = flush[v]
    BY <2>1, <2>3 DEF IInv, TypeOK
  <2>6. /\ dirty' \in [Window -> BOOLEAN] /\ dirty'[w] = FALSE
        /\ patches' \in [Window -> SUBSET Patch] /\ patches'[w] = {}
        /\ inflight' \in [Window -> Nat \cup {Infinity}] /\ inflight'[w] = Infinity
        /\ submission' \in [Window -> Slot \cup {None}] /\ submission'[w] = s
        /\ \A v \in Window \ {w} : Keeps(v)
    BY <1>1, <2>1 DEF IInv, TypeOK, Keeps
  <2>7. queue' \in Seq(Command)  BY <1>3, <2>1, <2>2
  <2>8. TypeOK'  BY <1>1, <2>1, <2>5, <2>6, <2>7 DEF IInv, TypeOK, MessageTo
  <2>9. OnePlace'  BY <1>4, <1>6, <1>7, <2>3, <2>4, <2>5, PlaceMoves
  <2>10. Infinity # NotInFlight  BY ReplicaConstants DEF NotInFlight
  <2>11. WindowOK(w)'  BY <1>1, <1>9, <2>6 DEF WindowOK
  <2>12. Subscribed(w)'  BY <1>1, <1>2, <1>9 DEF WindowInv, Subscribed
  <2>13. Heard(w)'
    BY <1>1, <1>2, <2>6, <2>10 DEF WindowInv, Heard, ReadsNoState, Protected
  <2>14. Carried(w)'
    <3>1. \A i \in DOMAIN queue' : queue'[i].window = w /\ queue'[i].slot = s => queue'[i] = c
      BY <1>3, <1>4, <2>1
    <3>2. ~Accepts(down'[w], s)  BY <1>7 DEF Accepts, NoReply
    <3> QED  BY <1>1, <2>2, <2>6, <3>1, <3>2 DEF Carried, Own
  <2>15. Protected(w)' /\ copy' = copy  BY <1>1, <2>6, <2>10 DEF Protected
  <2>16. WindowInv(w)'  BY <2>11, <2>12, <2>13, <2>14 DEF WindowInv
  <2> QED  BY <1>1, <2>4, <2>6, <2>8, <2>9, <2>15, <2>16, WindowSteps DEF Own
<1>10. CASE ~(dirty[w] /\ ~gone[w])
  <2>1. ~dirty[w]
    BY <1>2, <1>10 DEF WindowInv, WindowOK, Protected
  <2>2. /\ dirty' = [dirty EXCEPT ![w] = FALSE]
        /\ patches' = [patches EXCEPT ![w] = IF dirty[w] THEN {} ELSE @]
        /\ flush' = [flush EXCEPT ![w][s] = Idle]
        /\ IF quit THEN FlushDone(w) ELSE UNCHANGED awaited
        /\ UNCHANGED <<queue, inflight, submission>>
    BY <1>10 DEF Submit
  <2>3. dirty' = dirty /\ patches' = patches /\ flush' = flush
    BY <2>1, <2>2 DEF IInv, TypeOK
  <2>4. \A v \in Window : Keeps(v)  BY <1>1, <2>2, <2>3 DEF Keeps
  <2>5. awaited' \in SUBSET Window  BY <2>2 DEF IInv, TypeOK, FlushDone
  <2>6. TypeOK'  BY <1>1, <2>2, <2>3, <2>5 DEF IInv, TypeOK, MessageTo
  <2>7. Queues(w, s)  BY <2>2 DEF Queues
  <2>8. OnePlace'  BY <1>4, <1>6, <1>7, <2>2, <2>3, <2>7, PlaceMoves
  <2>9. WindowInv(w)'
    <3>1. WindowOK(w)'  BY <1>2, <2>4 DEF Keeps, WindowInv, WindowOK, Protected
    <3>2. Subscribed(w)'  BY <1>1, <1>2, <2>2, <2>4 DEF Keeps, WindowInv, Subscribed
    <3>3. Heard(w)'  BY <1>1, <1>2, <2>4 DEF Keeps, WindowInv, Heard, ReadsNoState, Protected
    <3>4. Carried(w)'
      <4>1. submission[w] \in Slot \cup {None}  BY DEF IInv, TypeOK
      <4> QED  BY <1>1, <1>2, <2>2, <2>4, <4>1 DEF Keeps, WindowInv, Carried, Own, ReadsNoState
    <3> QED  BY <3>1, <3>2, <3>3, <3>4 DEF WindowInv
  <2>10. Protected(w)' = Protected(w) /\ copy' = copy  BY <1>1, <2>2, <2>3 DEF Protected
  <2> QED  BY <1>1, <2>4, <2>6, <2>7, <2>8, <2>9, <2>10, WindowSteps DEF Own
<1> QED  BY <1>9, <1>10

LEMMA FlushOK ==
    ASSUME IInv, NEW w \in Window, NEW s \in Slot, Flush(w, s)
    PROVE  IInv' /\ LetsGo
<1>1. /\ flush[w][s] = Idle /\ Submit(w, s, 1, FALSE) /\ down' = down
      /\ UNCHANGED <<authority, subscribers, other, replica, behind, made, phase, drain>>
  BY DEF Flush
<1>2. down \in [Window -> Seq(MessageTo)]  BY DEF IInv, TypeOK, MessageTo
<1>3. ReadsNoState(w)  BY <1>1, CurrentType DEF ReadsNoState
<1> QED  BY <1>1, <1>2, <1>3, SubmitOK

\* The first message on its way to window w is read.
LEMMA Reads ==
    ASSUME IInv, NEW w \in Window, down[w] # <<>>, Received(w)
    PROVE  /\ down' \in [Window -> Seq(MessageTo)] /\ down'[w] = Tail(down[w])
           /\ \A v \in Window \ {w} : down'[v] = down[v]
           /\ w \in subscribers /\ Head(down[w]) \in MessageTo
           /\ \A s \in Slot : NoReply(down[w], s) => NoReply(down'[w], s)
           /\ \A s \in Slot : Accepts(down'[w], s) => Accepts(down[w], s)
           /\ Head(down[w]).type # "state" => ReadsNoState(w)
<1>1. /\ down[w] \in Seq(MessageTo) /\ gone[w] \in BOOLEAN /\ Current \in StateMessage
      /\ MessagesOK(down[w], Current)
  BY CurrentType
<1>2. /\ Tail(down[w]) \in Seq(MessageTo) /\ Head(down[w]) \in MessageTo
      /\ \A s \in Slot : /\ NoReply(down[w], s) => NoReply(Tail(down[w]), s)
                         /\ Accepts(Tail(down[w]), s) => Accepts(down[w], s)
      /\ Head(down[w]).type # "state" =>
            MessagesOK(Tail(down[w]), Current) /\ (NoState(Tail(down[w])) => NoState(down[w]))
  BY <1>1, TakeFirst
<1>3. down \in [Window -> Seq(MessageTo)]  BY DEF IInv, TypeOK, MessageTo
<1>4. down' = [down EXCEPT ![w] = Tail(down[w])]  BY DEF Received
<1>5. /\ down' \in [Window -> Seq(MessageTo)] /\ down'[w] = Tail(down[w])
      /\ \A v \in Window \ {w} : down'[v] = down[v]
  BY <1>2, <1>3, <1>4
<1>6. w \in subscribers  BY DEF IInv, Subscribed
<1> QED  BY <1>2, <1>5, <1>6 DEF ReadsNoState

\* What the answer that is read says.
LEMMA ReadsReply ==
    ASSUME IInv, NEW w \in Window, down[w] # <<>>, Received(w), NEW m, m = Head(down[w]), m.type = "reply"
    PROVE  /\ m \in ReplyMessage /\ m.slot \in Slot /\ m.rev \in Nat
           /\ m.status \in {"accepted", "stale", "refused"}
           /\ NoReply(down'[w], m.slot) /\ ~NoReply(down[w], m.slot)
           /\ m.status = "accepted" => Accepts(down[w], m.slot) /\ m.rev # 0
           /\ flush[w][m.slot] # Idle
           /\ \A i \in DOMAIN queue : ~(queue[i].window = w /\ queue[i].slot = m.slot)
<1>1. /\ down[w] \in Seq(MessageTo) /\ gone[w] \in BOOLEAN /\ Current \in StateMessage
      /\ MessagesOK(down[w], Current)
  BY CurrentType
<1>2. /\ m \in ReplyMessage /\ NoReply(Tail(down[w]), m.slot)
      /\ m.status = "accepted" => Accepts(down[w], m.slot) /\ m.rev # 0
  BY <1>1, TakeFirst
<1>3. down'[w] = Tail(down[w])  BY Reads
<1>4. m.slot \in Slot /\ m.rev \in Nat /\ m.status \in {"accepted", "stale", "refused"}
  BY <1>2 DEF ReplyMessage
<1>5. ~NoReply(down[w], m.slot)
  <2>1. 1 \in DOMAIN down[w] /\ down[w][1] = m  BY <1>1
  <2> QED  BY <2>1 DEF NoReply, IsReply
<1>6. OnePlace  BY DEF IInv
<1>7. flush[w][m.slot] # Idle  BY <1>4, <1>5, <1>6 DEF OnePlace
<1>8. \A i \in DOMAIN queue : ~(queue[i].window = w /\ queue[i].slot = m.slot)
  BY <1>5, <1>6 DEF OnePlace
<1> QED  BY <1>2, <1>3, <1>4, <1>5, <1>7, <1>8

LEMMA FlushRequestedOK ==
    ASSUME IInv, NEW w \in Window, FlushRequested(w)
    PROVE  IInv' /\ LetsGo
<1>1. PICK s \in Slot : flush[w][s] = Idle /\ Submit(w, s, 1, TRUE)  BY DEF FlushRequested
<1>2. /\ UNCHANGED <<authority, subscribers, other, replica, behind, made, phase, drain>>
      /\ down[w] # <<>> /\ Head(down[w]).type = "flush" /\ Received(w)
  BY DEF FlushRequested
<1>3. /\ ReadsNoState(w) /\ w \in subscribers /\ down' \in [Window -> Seq(MessageTo)]
      /\ \A v \in Window \ {w} : down'[v] = down[v]
  BY <1>2, Reads
<1> QED  BY <1>1, <1>2, <1>3, SubmitOK

\* The flush in slot s of window w returns.
LEMMA Returns ==
    ASSUME IInv, NEW w \in Window, NEW s \in Slot, Return(w, s)
    PROVE  /\ flush' \in [Window -> [Slot -> Attempt]] /\ awaited' \in SUBSET Window
           /\ \A t \in Slot \ {s} : flush'[w][t] = flush[w][t]
           /\ \A v \in Window \ {w} : flush'[v] = flush[v]
<1>1. Idle \in Attempt  BY ReplicaConstants DEF Idle, Attempt
<1>2. flush \in [Window -> [Slot -> Attempt]] /\ awaited \in SUBSET Window  BY DEF IInv, TypeOK
<1>3. flush' = [flush EXCEPT ![w][s] = Idle]  BY DEF Return
<1>4. awaited' \in SUBSET Window  BY <1>2 DEF Return, FlushDone
<1> HIDE DEF Idle
<1> QED  BY <1>1, <1>2, <1>3, <1>4

LEMMA SupersededOK ==
    ASSUME IInv, NEW w \in Window, Superseded(w)
    PROVE  IInv' /\ LetsGo
<1> DEFINE m == Head(down[w])
           s == m.slot
<1>1. /\ down[w] # <<>> /\ m.type = "reply" /\ submission[w] # s /\ Return(w, s) /\ Received(w)
      /\ UNCHANGED <<authority, subscribers, queue, other, seen, copy, gone,
                     dirty, patches, inflight, submission, behind, made, phase, drain>>
  BY DEF Superseded, main, replica, edits
<1> HIDE DEF m
<1>2. s \in Slot /\ NoReply(down'[w], s)
      /\ \A i \in DOMAIN queue : ~(queue[i].window = w /\ queue[i].slot = s)
  BY <1>1, ReadsReply DEF m
<1>3. /\ ReadsNoState(w) /\ w \in subscribers /\ down' \in [Window -> Seq(MessageTo)]
      /\ \A v \in Window \ {w} : down'[v] = down[v]
      /\ \A t \in Slot : NoReply(down[w], t) => NoReply(down'[w], t)
  BY <1>1, Reads, MessageTypes DEF m
<1>4. /\ flush' \in [Window -> [Slot -> Attempt]] /\ awaited' \in SUBSET Window
      /\ \A t \in Slot \ {s} : flush'[w][t] = flush[w][t]
      /\ \A v \in Window \ {w} : flush'[v] = flush[v]
  BY <1>1, <1>2, Returns
<1>5. UNCHANGED <<revision, stored, exists>> /\ Current' = Current  BY <1>1 DEF authority, Current, State
<1>6. TypeOK'  BY <1>1, <1>3, <1>4, <1>5 DEF IInv, TypeOK, MessageTo
<1>7. Queues(w, s)  BY <1>1 DEF Queues
<1>8. OnePlace'  BY <1>1, <1>2, <1>3, <1>4, <1>7, PlaceMoves
<1>9. \A v \in Window : Keeps(v)  BY <1>1 DEF Keeps
<1>10. WindowInv(w)'
  <2>1. WindowInv(w)  BY DEF IInv, WindowInv
  <2>2. WindowOK(w)'  BY <1>1, <2>1 DEF WindowInv, WindowOK, Protected
  <2>3. Subscribed(w)'  BY <1>1, <1>3 DEF Subscribed
  <2>4. Heard(w)'  BY <1>1, <1>3, <1>5, <2>1 DEF WindowInv, Heard, ReadsNoState, Protected
  <2>5. Carried(w)'
    <3>1. submission[w] \in Slot \cup {None}  BY DEF IInv, TypeOK
    <3> QED  BY <1>1, <1>3, <1>5, <2>1, <3>1 DEF WindowInv, Carried, Own, ReadsNoState
  <2> QED  BY <2>2, <2>3, <2>4, <2>5 DEF WindowInv
<1>11. copy' = copy /\ Protected(w)' = Protected(w)  BY <1>1 DEF Protected
<1> QED  BY <1>1, <1>2, <1>3, <1>6, <1>7, <1>8, <1>9, <1>10, <1>11, WindowSteps DEF Own

LEMMA SettleOK ==
    ASSUME IInv, NEW w \in Window, Settle(w)
    PROVE  IInv' /\ LetsGo
<1> DEFINE m == Head(down[w])
           s == m.slot
<1>1. /\ down[w] # <<>> /\ m.type = "reply" /\ submission[w] = s /\ m.status # "stale"
      /\ inflight' = [inflight EXCEPT ![w] = Answered(m)] /\ submission' = [submission EXCEPT ![w] = None]
      /\ behind' = [behind EXCEPT ![w] = @ \/ m.status = "refused"]
      /\ Return(w, s) /\ Received(w)
      /\ UNCHANGED <<authority, subscribers, queue, other, seen, copy, gone, dirty, patches, made, phase, drain>>
  BY DEF Settle, main, replica
<1>2. /\ m \in ReplyMessage /\ s \in Slot /\ m.rev \in Nat /\ m.status \in {"accepted", "stale", "refused"}
      /\ NoReply(down'[w], s)
      /\ \A i \in DOMAIN queue : ~(queue[i].window = w /\ queue[i].slot = s)
      /\ m.status = "accepted" => Accepts(down[w], s) /\ m.rev # 0
  BY <1>1, ReadsReply
<1>3. /\ ReadsNoState(w) /\ w \in subscribers /\ down' \in [Window -> Seq(MessageTo)]
      /\ \A v \in Window \ {w} : down'[v] = down[v]
      /\ \A t \in Slot : NoReply(down[w], t) => NoReply(down'[w], t)
  BY <1>1, Reads
<1>4. m.status = "refused" /\ ~dirty[w] => GivesUp(w)  BY DEF GivesUp
<1> HIDE DEF m
<1>5. /\ flush' \in [Window -> [Slot -> Attempt]] /\ awaited' \in SUBSET Window
      /\ \A t \in Slot \ {s} : flush'[w][t] = flush[w][t]
      /\ \A v \in Window \ {w} : flush'[v] = flush[v]
  BY <1>1, <1>2, Returns
<1>6. UNCHANGED <<revision, stored, exists>> /\ Current' = Current  BY <1>1 DEF authority, Current, State
<1>7. WindowInv(w) /\ inflight[w] = Infinity /\ Infinity # NotInFlight /\ s # None
  BY <1>1, <1>2, ReplicaConstants DEF IInv, WindowInv, WindowOK, NotInFlight
\* The Thread is in the window's copy: nothing of another one is in flight.
<1>8. ~gone[w]  BY <1>7 DEF WindowInv, WindowOK, Protected
<1>9. /\ inflight' \in [Window -> Nat \cup {Infinity}]
      /\ m.status = "accepted" => inflight'[w] = m.rev /\ m.rev # NotInFlight
      /\ m.status # "accepted" => inflight'[w] = NotInFlight
      /\ submission' \in [Window -> Slot \cup {None}] /\ submission'[w] = None
      /\ behind' \in [Window -> BOOLEAN] /\ (m.status = "refused" => behind'[w])
      /\ \A v \in Window \ {w} : Keeps(v)
  <2>1. Answered(m) = IF m.status = "accepted" THEN m.rev ELSE NotInFlight  BY DEF Answered
  <2>2. Answered(m) \in Nat  BY <1>2, <2>1 DEF NotInFlight
  <2>3. /\ inflight \in [Window -> Nat \cup {Infinity}] /\ submission \in [Window -> Slot \cup {None}]
        /\ behind \in [Window -> BOOLEAN]
    BY DEF IInv, TypeOK
  <2>4. (behind[w] \/ m.status = "refused") \in BOOLEAN  OBVIOUS
  <2> QED  BY <1>1, <1>2, <2>1, <2>2, <2>3, <2>4 DEF Keeps, NotInFlight
<1>10. TypeOK'  BY <1>1, <1>3, <1>5, <1>6, <1>9 DEF IInv, TypeOK, MessageTo
<1>11. Queues(w, s)  BY <1>1 DEF Queues
<1>12. OnePlace'  BY <1>1, <1>2, <1>3, <1>5, <1>11, PlaceMoves
<1>13. Protected(w) /\ copy' = copy /\ dirty' = dirty  BY <1>1, <1>7 DEF Protected
\* An accepted edit stays protected, a refused one only if a newer one is dirty.
<1>14. Protected(w)' \/ (m.status = "refused" /\ ~dirty[w])
  BY <1>1, <1>2, <1>9, <1>13 DEF Protected
<1>15. WindowInv(w)'
  <2>1. WindowOK(w)'  BY <1>1, <1>7, <1>8, <1>9 DEF WindowInv, WindowOK
  <2>2. Subscribed(w)'  BY <1>1, <1>3 DEF Subscribed
  <2>3. Heard(w)'  BY <1>1, <1>3, <1>6, <1>7, <1>9, <1>14 DEF WindowInv, Heard, ReadsNoState
  <2>4. Carried(w)'
    <3>1. ASSUME ~dirty[w], exists, m.status = "accepted" PROVE Own(w) \subseteq stored
      BY <1>1, <1>2, <1>7, <3>1 DEF WindowInv, Carried
    <3>2. \A i \in DOMAIN queue : queue[i].slot # None
      <4>1. queue \in Seq(Command)  BY DEF IInv, TypeOK
      <4>2. \A i \in DOMAIN queue : queue[i] \in Command  BY <4>1
      <4> QED  BY <4>2, ReplicaConstants DEF Command
    <3> QED  BY <1>1, <1>6, <1>9, <1>13, <3>1, <3>2 DEF Carried, Own
  <2> QED  BY <2>1, <2>2, <2>3, <2>4 DEF WindowInv
<1>16. \/ exists => \A e \in Own(w) : Protected(w) => e \in stored \/ (e \in copy'[w] /\ Protected(w)')
       \/ GivesUp(w)
  BY <1>4, <1>13, <1>14 DEF Own
<1> QED  BY <1>1, <1>2, <1>3, <1>9, <1>10, <1>11, <1>12, <1>15, <1>16, WindowSteps

LEMMA RetryOK ==
    ASSUME IInv, NEW w \in Window, Retry(w)
    PROVE  IInv' /\ LetsGo
<1> DEFINE m == Head(down[w])
           s == m.slot
           f == flush[w][s]
<1>1. /\ down[w] # <<>> /\ m.type = "reply" /\ submission[w] = s /\ m.status = "stale" /\ Received(w)
      /\ UNCHANGED <<authority, subscribers, other, seen, copy, gone, behind, made, phase, drain>>
  BY DEF Retry, replica
<1>2. /\ m \in ReplyMessage /\ s \in Slot
      /\ NoReply(down'[w], s)
      /\ \A i \in DOMAIN queue : ~(queue[i].window = w /\ queue[i].slot = s)
  BY <1>1, ReadsReply
<1>3. /\ ReadsNoState(w) /\ w \in subscribers /\ down' \in [Window -> Seq(MessageTo)]
      /\ \A v \in Window \ {w} : down'[v] = down[v]
      /\ \A t \in Slot : NoReply(down[w], t) => NoReply(down'[w], t)
  BY <1>1, Reads
<1>4. \/ /\ f.attempt < MaxAttempts
         /\ queue' = Append(queue, [window |-> w, slot |-> s, base |-> seen[w],
                                    edits |-> (copy[w] \cap Message) \cup patches[w] \cup f.sent])
         /\ flush' = [flush EXCEPT ![w][s] =
                [attempt |-> f.attempt + 1, sent |-> patches[w] \cup f.sent, quit |-> f.quit]]
         /\ dirty' = [dirty EXCEPT ![w] = FALSE]
         /\ patches' = [patches EXCEPT ![w] = {}]
         /\ inflight' = [inflight EXCEPT ![w] = Infinity]
         /\ UNCHANGED <<submission, awaited>>
      \/ /\ dirty' = [dirty EXCEPT ![w] = TRUE]
         /\ patches' = [patches EXCEPT ![w] = @ \cup f.sent]
         /\ inflight' = [inflight EXCEPT ![w] = NotInFlight]
         /\ submission' = [submission EXCEPT ![w] = None]
         /\ Return(w, s)
         /\ UNCHANGED queue
  BY DEF Retry
<1>5. f \in Attempt  BY <1>2 DEF IInv, TypeOK
<1> HIDE DEF m, f
<1>6. UNCHANGED <<revision, stored, exists>> /\ Current' = Current  BY <1>1 DEF authority, Current, State
<1>7. WindowInv(w) /\ inflight[w] = Infinity /\ Infinity # NotInFlight /\ s # None
  BY <1>1, <1>2, ReplicaConstants DEF IInv, WindowInv, WindowOK, NotInFlight
<1>8. Protected(w) /\ ~gone[w]  BY <1>7 DEF WindowInv, WindowOK, Protected
<1>9. CASE /\ f.attempt < MaxAttempts
           /\ queue' = Append(queue, [window |-> w, slot |-> s, base |-> seen[w],
                                      edits |-> (copy[w] \cap Message) \cup patches[w] \cup f.sent])
           /\ flush' = [flush EXCEPT ![w][s] =
                  [attempt |-> f.attempt + 1, sent |-> patches[w] \cup f.sent, quit |-> f.quit]]
           /\ dirty' = [dirty EXCEPT ![w] = FALSE]
           /\ patches' = [patches EXCEPT ![w] = {}]
           /\ inflight' = [inflight EXCEPT ![w] = Infinity]
           /\ UNCHANGED <<submission, awaited>>
  <2> DEFINE c == [window |-> w, slot |-> s, base |-> seen[w],
                   edits |-> (copy[w] \cap Message) \cup patches[w] \cup f.sent]
             g == [attempt |-> f.attempt + 1, sent |-> patches[w] \cup f.sent, quit |-> f.quit]
  <2>1. /\ queue' = Append(queue, c) /\ flush' = [flush EXCEPT ![w][s] = g]
        /\ dirty' = [dirty EXCEPT ![w] = FALSE] /\ patches' = [patches EXCEPT ![w] = {}]
        /\ inflight' = [inflight EXCEPT ![w] = Infinity] /\ submission' = submission /\ awaited' = awaited
    BY <1>9
  <2>2. f.attempt \in Nat /\ f.attempt + 1 \in 0..MaxAttempts /\ f.sent \in SUBSET Patch /\ f.quit \in BOOLEAN
    BY <1>5, <1>9, ReplicaConstants DEF Attempt
  <2>3. c \in Command /\ c.window = w /\ c.slot = s /\ Own(w) \subseteq c.edits
    <3>1. seen[w] \in Nat /\ copy[w] \in SUBSET Edit /\ patches[w] \in SUBSET Patch  BY DEF IInv, TypeOK
    <3> QED  BY <1>2, <2>2, <3>1 DEF Command, Edit, Own
  <2>4. g \in Attempt /\ g # Idle
    <3>1. g \in Attempt  BY <2>2 DEF Attempt, IInv, TypeOK
    <3>2. g.attempt # 0 /\ Idle.attempt = 0  BY <2>2 DEF Idle
    <3> QED  BY <3>1, <3>2
  <2> HIDE DEF c, g
  <2>5. Queues(w, s)  BY <2>1, <2>3 DEF Queues
  <2>6. /\ flush' \in [Window -> [Slot -> Attempt]] /\ flush'[w][s] = g
        /\ \A t \in Slot \ {s} : flush'[w][t] = flush[w][t]
        /\ \A v \in Window \ {w} : flush'[v] = flush[v]
    BY <1>2, <2>1, <2>4 DEF IInv, TypeOK
  <2>7. /\ dirty' \in [Window -> BOOLEAN] /\ dirty'[w] = FALSE
        /\ patches' \in [Window -> SUBSET Patch] /\ patches'[w] = {}
        /\ inflight' \in [Window -> Nat \cup {Infinity}] /\ inflight'[w] = Infinity
        /\ \A v \in Window \ {w} : Keeps(v)
    BY <1>1, <2>1 DEF IInv, TypeOK, Keeps
  <2>8. queue \in Seq(Command) /\ queue' \in Seq(Command)  BY <2>1, <2>3 DEF IInv, TypeOK
  <2>9. TypeOK'  BY <1>1, <1>3, <1>6, <2>1, <2>6, <2>7, <2>8 DEF IInv, TypeOK, MessageTo
  <2>10. OnePlace'  BY <1>2, <1>3, <2>4, <2>5, <2>6, PlaceMoves
  <2>11. Protected(w)' /\ copy' = copy  BY <1>1, <1>7, <2>7 DEF Protected
  <2>12. WindowOK(w)'  BY <1>1, <1>8, <2>7 DEF WindowOK
  <2>13. Subscribed(w)'  BY <1>1, <1>3 DEF Subscribed
  <2>14. Heard(w)'  BY <1>1, <1>3, <1>6, <1>7, <2>11 DEF WindowInv, Heard, ReadsNoState
  <2>15. Carried(w)'
    <3>1. \A i \in DOMAIN queue' : queue'[i].window = w /\ queue'[i].slot = s => queue'[i] = c
      BY <1>2, <2>1, <2>8
    <3>2. ~Accepts(down'[w], s)  BY <1>2 DEF Accepts, NoReply
    <3> QED  BY <1>1, <2>1, <2>3, <2>7, <2>11, <3>1, <3>2 DEF Carried, Own
  <2>16. WindowInv(w)'  BY <2>12, <2>13, <2>14, <2>15 DEF WindowInv
  <2> QED  BY <1>1, <1>2, <1>3, <2>5, <2>7, <2>9, <2>10, <2>11, <2>16, WindowSteps DEF Own
<1>10. CASE /\ dirty' = [dirty EXCEPT ![w] = TRUE]
            /\ patches' = [patches EXCEPT ![w] = @ \cup f.sent]
            /\ inflight' = [inflight EXCEPT ![w] = NotInFlight]
            /\ submission' = [submission EXCEPT ![w] = None]
            /\ Return(w, s)
            /\ UNCHANGED queue
  <2>1. /\ flush' \in [Window -> [Slot -> Attempt]] /\ awaited' \in SUBSET Window
        /\ \A t \in Slot \ {s} : flush'[w][t] = flush[w][t]
        /\ \A v \in Window \ {w} : flush'[v] = flush[v]
    BY <1>2, <1>10, Returns
  <2>2. f.sent \in SUBSET Patch  BY <1>5 DEF Attempt
  <2>3. /\ dirty' \in [Window -> BOOLEAN] /\ dirty'[w] = TRUE
        /\ patches' \in [Window -> SUBSET Patch]
        /\ inflight' \in [Window -> Nat \cup {Infinity}]
        /\ submission' \in [Window -> Slot \cup {None}] /\ submission'[w] = None
        /\ \A v \in Window \ {w} : Keeps(v)
    BY <1>1, <1>10, <2>2 DEF IInv, TypeOK, Keeps, NotInFlight
  <2>4. TypeOK'  BY <1>1, <1>3, <1>6, <1>10, <2>1, <2>3 DEF IInv, TypeOK, MessageTo
  <2>5. Queues(w, s)  BY <1>10 DEF Queues
  <2>6. OnePlace'  BY <1>2, <1>3, <1>10, <2>1, <2>5, PlaceMoves
  <2>7. Protected(w)' /\ copy' = copy  BY <1>1, <2>3 DEF Protected
  <2>8. WindowOK(w)'  BY <1>1, <1>8, <2>3 DEF WindowOK
  <2>9. Subscribed(w)'  BY <1>1, <1>3 DEF Subscribed
  <2>10. Heard(w)'  BY <1>1, <1>3, <1>6, <1>7, <2>7 DEF WindowInv, Heard, ReadsNoState
  <2>11. Carried(w)'  BY <2>3 DEF Carried
  <2>12. WindowInv(w)'  BY <2>8, <2>9, <2>10, <2>11 DEF WindowInv
  <2> QED  BY <1>1, <1>2, <1>3, <2>3, <2>4, <2>5, <2>6, <2>7, <2>12, WindowSteps DEF Own
<1> QED  BY <1>4, <1>9, <1>10

\* A state replaces the window's copy unless an edit is protected from it.
LEMMA ApplyOK ==
    ASSUME IInv, NEW w \in Window, Apply(w)
    PROVE  IInv' /\ LetsGo
<1> DEFINE m == Head(down[w])
           flying == InFlightAt(w, m.rev)
           takes == TakesEdits(w, m)
           kept == (dirty[w] \/ flying # NotInFlight) /\ ~takes
<1>1. /\ down[w] # <<>> /\ m.type = "state" /\ Received(w)
      /\ seen' = [seen EXCEPT ![w] = m.rev]
      /\ gone' = [gone EXCEPT ![w] = ~m.exists]
      /\ copy' = [copy EXCEPT ![w] = IF kept THEN @ ELSE m.edits]
      /\ inflight' = [inflight EXCEPT ![w] = IF takes THEN NotInFlight ELSE flying]
      /\ behind' = [behind EXCEPT ![w] = @ /\ kept]
      /\ \/ /\ takes
            /\ dirty' = [dirty EXCEPT ![w] = FALSE]
            /\ patches' = [patches EXCEPT ![w] = @ \cap Prune]
            /\ submission' = [submission EXCEPT ![w] = None]
         \/ ~takes /\ UNCHANGED <<dirty, patches, submission>>
      /\ UNCHANGED <<authority, subscribers, queue, other, flush, made, phase, awaited, drain>>
  BY DEF Apply, main, quitting
<1>2. /\ takes <=> ~m.exists /\ (dirty[w] \/ flying # NotInFlight)
      /\ flying = IF inflight[w] # Infinity /\ inflight[w] <= m.rev THEN NotInFlight ELSE inflight[w]
  BY DEF TakesEdits, InFlightAt
<1>3. /\ down[w] \in Seq(MessageTo) /\ gone[w] \in BOOLEAN /\ Current \in StateMessage
      /\ MessagesOK(down[w], Current)
      /\ Current.edits = stored /\ Current.exists = exists
  BY CurrentType
<1>4. /\ m \in StateMessage
      /\ MessagesOK(Tail(down[w]), Current)
      /\ NoState(Tail(down[w])) => m = Current
      /\ ~m.exists => m.edits = {} /\ ~Current.exists
  BY <1>1, <1>3, TakeFirst
<1>5. /\ down' \in [Window -> Seq(MessageTo)] /\ down'[w] = Tail(down[w])
      /\ \A v \in Window \ {w} : down'[v] = down[v]
      /\ w \in subscribers
      /\ \A t \in Slot : NoReply(down[w], t) => NoReply(down'[w], t)
      /\ \A t \in Slot : Accepts(down'[w], t) => Accepts(down[w], t)
  BY <1>1, Reads
<1>6. m.rev \in Nat /\ m.edits \in SUBSET Edit /\ m.exists \in BOOLEAN /\ (~m.exists) \in BOOLEAN
  <2>1. m.rev \in Nat /\ m.edits \in SUBSET Edit /\ m.exists \in BOOLEAN  BY <1>4 DEF StateMessage
  <2>2. (~m.exists) \in BOOLEAN
    <3>1. CASE m.exists  BY <3>1
    <3>2. CASE ~m.exists  BY <3>2
    <3> QED  BY <3>1, <3>2
  <2> QED  BY <2>1, <2>2
<1> HIDE DEF m, flying, takes
<1>7. flying \in Nat \cup {Infinity} /\ (flying # NotInFlight => flying = inflight[w] /\ inflight[w] # NotInFlight)
  BY <1>2 DEF IInv, TypeOK, NotInFlight
<1>8. /\ seen' \in [Window -> Nat] /\ gone' \in [Window -> BOOLEAN] /\ copy' \in [Window -> SUBSET Edit]
      /\ inflight' \in [Window -> Nat \cup {Infinity}] /\ dirty' \in [Window -> BOOLEAN]
      /\ patches' \in [Window -> SUBSET Patch] /\ submission' \in [Window -> Slot \cup {None}]
  <2>1. patches[w] \cap Prune \in SUBSET Patch  BY DEF IInv, TypeOK
  <2>2. seen' \in [Window -> Nat] /\ gone' \in [Window -> BOOLEAN] /\ copy' \in [Window -> SUBSET Edit]
    BY <1>1, <1>6 DEF IInv, TypeOK
  <2>3. inflight' \in [Window -> Nat \cup {Infinity}]  BY <1>1, <1>7 DEF IInv, TypeOK, NotInFlight
  <2>4. /\ dirty' \in [Window -> BOOLEAN] /\ patches' \in [Window -> SUBSET Patch]
        /\ submission' \in [Window -> Slot \cup {None}]
    BY <1>1, <2>1 DEF IInv, TypeOK
  <2> QED  BY <2>2, <2>3, <2>4
<1>22. behind' \in [Window -> BOOLEAN] /\ behind'[w] = (behind[w] /\ kept)
       /\ \A v \in Window \ {w} : behind'[v] = behind[v]
  <2>1. (behind[w] /\ kept) \in BOOLEAN /\ behind \in [Window -> BOOLEAN]  BY DEF IInv, TypeOK
  <2> HIDE DEF kept
  <2> QED  BY <1>1, <2>1
<1>9. /\ gone'[w] = ~m.exists /\ copy'[w] = IF kept THEN copy[w] ELSE m.edits
      /\ inflight'[w] = IF takes THEN NotInFlight ELSE flying
      /\ takes => dirty'[w] = FALSE /\ patches'[w] = patches[w] \cap Prune /\ submission'[w] = None
      /\ ~takes => dirty'[w] = dirty[w] /\ patches'[w] = patches[w] /\ submission'[w] = submission[w]
  BY <1>1, <1>8 DEF IInv, TypeOK
<1>10. \A v \in Window \ {w} : Keeps(v)  BY <1>1, <1>8, <1>22 DEF IInv, TypeOK, Keeps
<1>11. UNCHANGED <<revision, stored, exists>> /\ Current' = Current  BY <1>1 DEF authority, Current, State
<1>12. TypeOK'  BY <1>1, <1>5, <1>8, <1>11, <1>22 DEF IInv, TypeOK, MessageTo
<1>13. WindowInv(w)  BY DEF IInv, WindowInv
\* What is kept is still protected.
<1>14. (kept <=> Protected(w)') /\ (kept => m.exists)
  BY <1>2, <1>9 DEF Protected
<1>15. WindowOK(w)'
  <2>1. ~dirty'[w] => patches'[w] \subseteq Prune  BY <1>9, <1>13 DEF WindowInv, WindowOK
  <2>2. submission'[w] # None => inflight'[w] = Infinity
    BY <1>2, <1>9, <1>13 DEF WindowInv, WindowOK
  <2>3. gone'[w] => copy'[w] = {} /\ ~Protected(w)'
    BY <1>4, <1>9, <1>14
  <2> QED  BY <2>1, <2>2, <2>3 DEF WindowOK
<1>16. Subscribed(w)'  BY <1>1, <1>5 DEF Subscribed
<1>17. Heard(w)'
  <2>1. MessagesOK(down'[w], Current')  BY <1>4, <1>5, <1>9, <1>11
  <2>2. ASSUME NoState(down'[w])
        PROVE  gone'[w] = ~exists /\ (~Protected(w)' /\ ~behind'[w] => copy'[w] = stored)
    <3>1. m.exists = exists /\ m.edits = stored  BY <1>3, <1>4, <1>5, <2>2
    <3> QED  BY <1>9, <1>14, <3>1
  <2> QED  BY <1>11, <2>1, <2>2 DEF Heard
<1>18. Carried(w)'
  <2> SUFFICES ASSUME ~dirty'[w]
               PROVE  /\ \A i \in DOMAIN queue : queue[i].window = w /\ queue[i].slot = submission'[w] =>
                            Own(w)' \subseteq queue[i].edits
                      /\ submission'[w] # None /\ Accepts(down'[w], submission'[w]) /\ exists => Own(w)' \subseteq stored
                      /\ inflight'[w] \notin {NotInFlight, Infinity} /\ exists => Own(w)' \subseteq stored
    BY <1>1, <1>11 DEF Carried
  <2>1. CASE takes
    <3>1. submission'[w] = None /\ inflight'[w] = NotInFlight  BY <1>9, <2>1
    <3>2. \A i \in DOMAIN queue : queue[i].slot # None
      <4>1. queue \in Seq(Command)  BY DEF IInv, TypeOK
      <4>2. \A i \in DOMAIN queue : queue[i] \in Command  BY <4>1
      <4> QED  BY <4>2, ReplicaConstants DEF Command
    <3> QED  BY <3>1, <3>2
  <2>2. CASE kept
    <3>1. ~dirty[w] /\ copy'[w] = copy[w] /\ submission'[w] = submission[w] /\ inflight'[w] = inflight[w]
      BY <1>7, <1>9, <2>2
    <3>2. submission[w] \in Slot \cup {None}  BY DEF IInv, TypeOK
    <3> QED  BY <1>5, <1>13, <3>1, <3>2 DEF WindowInv, Carried, Own
  <2>3. CASE ~takes /\ ~kept
    <3>1. submission'[w] = submission[w] /\ inflight'[w] = NotInFlight  BY <1>9, <2>3
    <3>2. submission[w] = None
      <4>1. Infinity # NotInFlight  BY ReplicaConstants DEF NotInFlight
      <4> QED  BY <1>2, <1>13, <2>3, <4>1 DEF WindowInv, WindowOK
    <3>3. \A i \in DOMAIN queue : queue[i].slot # None
      <4>1. queue \in Seq(Command)  BY DEF IInv, TypeOK
      <4>2. \A i \in DOMAIN queue : queue[i] \in Command  BY <4>1
      <4> QED  BY <4>2, ReplicaConstants DEF Command
    <3> QED  BY <3>1, <3>2, <3>3
  <2> QED  BY <2>1, <2>2, <2>3
<1>19. WindowInv(w)'  BY <1>15, <1>16, <1>17, <1>18 DEF WindowInv
<1>20. OnePlace'
  <2> OnePlace  BY DEF IInv
  <2>1. \A v \in Window, t \in Slot : NoReply(down[v], t) => NoReply(down'[v], t)
    BY <1>5
  <2>2. queue \in Seq(Command)  BY DEF IInv, TypeOK
  <2>3. \A i \in DOMAIN queue : queue[i].window \in Window /\ queue[i].slot \in Slot
    <3>1. \A i \in DOMAIN queue : queue[i] \in Command  BY <2>2
    <3> QED  BY <3>1 DEF Command
  <2> QED  BY <1>1, <2>1, <2>3 DEF OnePlace
\* What was in flight alone, and is over, is stored.
<1>21. exists => \A e \in Own(w) : Protected(w) => e \in stored \/ (e \in copy'[w] /\ Protected(w)')
  <2> SUFFICES ASSUME exists, NEW e \in Own(w), Protected(w), ~Protected(w)' PROVE e \in stored
    BY <1>9, <1>14 DEF Own
  <2>1. ~takes /\ ~kept /\ ~dirty[w] /\ flying = NotInFlight  BY <1>2, <1>3, <1>4, <1>14
  <2>2. inflight[w] # NotInFlight /\ inflight[w] # Infinity  BY <1>2, <2>1 DEF Protected
  <2> QED  BY <1>13, <2>1, <2>2 DEF WindowInv, Carried
<1>23. \A v \in Window \ {w} : WindowInv(v)'
  <2> TAKE v \in Window \ {w}
  <2>1. Keeps(v) /\ WindowInv(v) /\ down'[v] = down[v]  BY <1>5, <1>10 DEF IInv, WindowInv
  <2> QED
    BY <1>1, <1>11, <2>1 DEF Keeps, WindowInv, WindowOK, Subscribed, Heard, Carried, Own, Protected
<1>24. LetsGo  BY <1>1, <1>10, <1>21, StillHeld
<1>25. ~exists' => stored' = {}  BY <1>11 DEF IInv
<1>26. \A v \in Window : WindowInv(v)'  BY <1>19, <1>23
<1> QED  BY <1>12, <1>20, <1>24, <1>25, <1>26 DEF IInv, WindowInv

-----------------------------------------------------------------------------
(* Steps of the Main Process *)

LEMMA Concats ==
    ASSUME NEW S, NEW d \in Seq(S), NEW x \in S
    PROVE  d \o <<>> = d /\ d \o <<x>> = Append(d, x)
OBVIOUS

LEMMA NothingSent ==
    ASSUME NEW m
    PROVE  MessagesOK(<<>>, m) /\ NoState(<<>>)
BY DEF MessagesOK, NoState, EndsWith, StatesAgree, TellsTruth, OneReplyEach, IsState, IsReply

\* A window that is told something: if no state of it is on its way, nothing is new, and
\* the answer to its own latest submission tells that it is stored.
LEMMA WindowTold ==
    ASSUME IInv, NEW w \in Window, Keeps(w),
           w \in subscribers' <=> w \in subscribers,
           w \in subscribers \/ down'[w] = down[w],
           MessagesOK(down'[w], Current'),
           w \in subscribers /\ NoState(down'[w]) =>
              NoState(down[w]) /\ stored' = stored /\ exists' = exists,
           exists' => exists /\ stored \subseteq stored',
           \A i \in DOMAIN queue' : \E j \in DOMAIN queue : queue'[i] = queue[j],
           \A s \in Slot : Accepts(down'[w], s) =>
              \/ Accepts(down[w], s)
              \/ exists' /\ s = submission[w] /\ ~dirty[w] => Own(w) \subseteq stored'
    PROVE  WindowInv(w)'
<1>1. WindowInv(w)  BY DEF IInv, WindowInv
<1>2. WindowOK(w)'  BY <1>1 DEF Keeps, WindowInv, WindowOK, Protected
<1>3. Subscribed(w)'  BY <1>1 DEF Keeps, WindowInv, Subscribed
<1>4. Heard(w)'  BY <1>1 DEF Keeps, WindowInv, Heard, Protected
<1>5. Carried(w)'
  <2>1. submission[w] \in Slot \cup {None}  BY DEF IInv, TypeOK
  <2>2. Own(w)' = Own(w)  BY DEF Keeps, Own
  <2> SUFFICES ASSUME ~dirty[w]
               PROVE  /\ \A i \in DOMAIN queue' :
                            queue'[i].window = w /\ queue'[i].slot = submission[w] => Own(w) \subseteq queue'[i].edits
                      /\ submission[w] # None /\ Accepts(down'[w], submission[w]) /\ exists' => Own(w) \subseteq stored'
                      /\ inflight[w] \notin {NotInFlight, Infinity} /\ exists' => Own(w) \subseteq stored'
    BY <2>2 DEF Carried, Keeps
  <2>3. ASSUME NEW i \in DOMAIN queue', queue'[i].window = w, queue'[i].slot = submission[w]
        PROVE  Own(w) \subseteq queue'[i].edits
    <3>1. PICK j \in DOMAIN queue : queue'[i] = queue[j]  OBVIOUS
    <3> QED  BY <1>1, <2>3, <3>1 DEF WindowInv, Carried
  <2>4. ASSUME submission[w] # None, Accepts(down'[w], submission[w]), exists'
        PROVE  Own(w) \subseteq stored'
    <3>1. \/ Accepts(down[w], submission[w])
          \/ Own(w) \subseteq stored'
      BY <2>1, <2>4
    <3>2. Accepts(down[w], submission[w]) => Own(w) \subseteq stored
      BY <1>1, <2>4 DEF WindowInv, Carried
    <3> QED  BY <2>4, <3>1, <3>2
  <2>5. ASSUME inflight[w] \notin {NotInFlight, Infinity}, exists'
        PROVE  Own(w) \subseteq stored'
    <3>1. Own(w) \subseteq stored  BY <1>1, <2>5 DEF WindowInv, Carried
    <3> QED  BY <2>5, <3>1
  <2> QED  BY <2>3, <2>4, <2>5
<1> QED  BY <1>2, <1>3, <1>4, <1>5 DEF WindowInv

\* Nothing is let go of when no window's copy changes.
LEMMA HeldStays ==
    ASSUME \A w \in Window : Keeps(w)
    PROVE  LetsGo
<1> SUFFICES ASSUME NEW e \in Message, Held(e)
             PROVE  Held(e)'
  BY DEF LetsGo
<1>1. PICK w \in Window : e \in copy[w] /\ Protected(w)  BY DEF Held
<1>2. Keeps(w)  OBVIOUS
<1>3. e \in copy'[w] /\ Protected(w)'  BY <1>1, <1>2 DEF Keeps, Protected
<1> QED  BY <1>3 DEF Held

\* No new answer is sent.
LEMMA PlaceStays ==
    ASSUME IInv, queue' = queue, flush' = flush,
           \A w \in Window, s \in Slot : NoReply(down[w], s) => NoReply(down'[w], s)
    PROVE  OnePlace'
<1>1. queue \in Seq(Command)  BY DEF IInv, TypeOK
<1>2. \A i \in DOMAIN queue : queue[i] \in Command  BY <1>1
<1>3. \A i \in DOMAIN queue : queue[i].window \in Window /\ queue[i].slot \in Slot  BY <1>2 DEF Command
<1> QED  BY <1>3 DEF IInv, OnePlace

\* The next revision is broadcast to window w.
LEMMA Told ==
    ASSUME IInv, NEW w \in Window, Current' \in StateMessage, subscribers' = subscribers,
           exists' => exists, ~exists' => stored' = {},
           NEW d, d = down[w] \o Broadcast(w)
    PROVE  /\ d \in Seq(MessageTo) /\ MessagesOK(d, Current')
           /\ w \in subscribers => ~NoState(d)
           /\ w \notin subscribers => d = down[w]
           /\ \A s \in Slot : /\ NoReply(down[w], s) => NoReply(d, s)
                              /\ Accepts(d, s) => Accepts(down[w], s)
<1>1. /\ down[w] \in Seq(MessageTo) /\ gone[w] \in BOOLEAN /\ MessagesOK(down[w], Current)
      /\ Current \in StateMessage /\ Current.exists = exists
  BY CurrentType
<1>2. Current' \in MessageTo  BY DEF MessageTo
<1>3. Current'.exists = exists' /\ Current'.edits = stored'  BY DEF Current, State
<1>4. Broadcast(w) = IF w \in subscribers THEN <<Current'>> ELSE <<>>  BY DEF Broadcast, Current
<1>5. CASE w \in subscribers
  <2>1. d = Append(down[w], Current')  BY <1>1, <1>2, <1>4, <1>5, Concats
  <2>2. d \in Seq(MessageTo)  BY <1>1, <1>2, <2>1
  <2> HIDE DEF Current
  <2>3. /\ MessagesOK(Append(down[w], Current'), Current') /\ ~NoState(Append(down[w], Current'))
        /\ \A s \in Slot : /\ NoReply(down[w], s) => NoReply(Append(down[w], Current'), s)
                           /\ Accepts(Append(down[w], Current'), s) => Accepts(down[w], s)
    BY <1>1, <1>3, AppendState
  <2> QED  BY <1>5, <2>1, <2>2, <2>3
<1>6. CASE w \notin subscribers
  <2>1. d = down[w]  BY <1>1, <1>2, <1>4, <1>6, Concats
  <2>2. down[w] = <<>>  BY <1>6 DEF IInv, Subscribed
  <2> QED  BY <1>1, <1>6, <2>1, <2>2, NothingSent
<1> QED  BY <1>5, <1>6

\* A command that does not concern the Thread, or its permanent deletion, is broadcast.
LEMMA PublishedOK ==
    ASSUME IInv, revision' = revision + 1, stored' \in SUBSET Edit, exists' \in BOOLEAN,
           exists' => exists /\ stored \subseteq stored', ~exists' => stored' = {},
           down' = [w \in Window |-> down[w] \o Broadcast(w)],
           UNCHANGED <<subscribers, queue, replica, edits, flush, made, quitting>>,
           other' \in 0..MaxOther
    PROVE  IInv' /\ LetsGo
<1>1. UNCHANGED <<subscribers, queue, seen, copy, gone, dirty, patches, inflight, submission, behind, flush, made,
                  phase, awaited, drain>>
  BY DEF replica, edits, quitting
<1>2. revision' \in Nat  BY DEF IInv, TypeOK
<1>3. Current' \in StateMessage  BY <1>2 DEF Current, State, StateMessage
<1>4. \A w \in Window : Keeps(w)  BY <1>1 DEF Keeps
<1>5. ASSUME NEW w \in Window
      PROVE  /\ down'[w] \in Seq(MessageTo) /\ MessagesOK(down'[w], Current')
             /\ w \in subscribers => ~NoState(down'[w])
             /\ w \notin subscribers => down'[w] = down[w]
             /\ \A s \in Slot : /\ NoReply(down[w], s) => NoReply(down'[w], s)
                                /\ Accepts(down'[w], s) => Accepts(down[w], s)
  <2>1. down'[w] = down[w] \o Broadcast(w)  OBVIOUS
  <2> QED  BY <1>1, <1>3, <2>1, Told
<1>6. down' \in [Window -> Seq(MessageTo)]  BY <1>5
<1>7. TypeOK'  BY <1>1, <1>2, <1>6 DEF IInv, TypeOK, MessageTo
<1>8. \A w \in Window : WindowInv(w)'  BY <1>1, <1>4, <1>5, WindowTold
<1>9. LetsGo  BY <1>4, HeldStays
<1>10. OnePlace'  BY <1>1, <1>5, PlaceStays
<1> QED  BY <1>7, <1>8, <1>9, <1>10 DEF IInv, WindowInv

LEMMA OtherCommandOK == ASSUME IInv, OtherCommand PROVE IInv' /\ LetsGo
<1>1. /\ other < MaxOther /\ other' = other + 1
      /\ revision' = revision + 1 /\ stored' = stored /\ exists' = exists
      /\ down' = [w \in Window |-> down[w] \o Broadcast(w)]
      /\ UNCHANGED <<subscribers, queue, replica, edits, flush, made, quitting>>
  BY DEF OtherCommand, Publish
<1>2. other' \in 0..MaxOther  BY <1>1, ReplicaConstants DEF IInv, TypeOK
<1>3. stored' \in SUBSET Edit /\ exists' \in BOOLEAN /\ (~exists' => stored' = {})
  BY <1>1 DEF IInv, TypeOK
<1> QED  BY <1>1, <1>2, <1>3, PublishedOK

LEMMA DeleteThreadOK == ASSUME IInv, DeleteThread PROVE IInv' /\ LetsGo
<1>1. /\ revision' = revision + 1 /\ stored' = {} /\ exists' = FALSE /\ other' = other
      /\ down' = [w \in Window |-> down[w] \o Broadcast(w)]
      /\ UNCHANGED <<subscribers, queue, replica, edits, flush, made, quitting>>
  BY DEF DeleteThread, Publish, main
<1>2. other' \in 0..MaxOther  BY <1>1 DEF IInv, TypeOK
<1> QED  BY <1>1, <1>2, PublishedOK

\* The oldest command is served: what was broadcast comes before the answer.
LEMMA ProcessOK == ASSUME IInv, Process PROVE IInv' /\ LetsGo
<1> DEFINE c == Head(queue)
<1>0. PICK status \in Answers(c) :
         /\ IF status = "accepted" THEN Publish(stored \cup c.edits, TRUE) ELSE UNCHANGED authority
         /\ down' = [w \in Window |->
               down[w] \o (IF status = "accepted" THEN Broadcast(w) ELSE <<>>)
                       \o (IF w = c.window THEN <<Reply(c, status)>> ELSE <<>>)]
  BY DEF Process
<1> DEFINE told(w) == down[w] \o (IF status = "accepted" THEN Broadcast(w) ELSE <<>>)
           r == Reply(c, status)
<1>1. /\ queue # <<>> /\ queue' = Tail(queue)
      /\ \/ /\ status = "accepted"
            /\ revision' = revision + 1 /\ stored' = stored \cup c.edits /\ exists' = TRUE
         \/ status # "accepted" /\ revision' = revision /\ stored' = stored /\ exists' = exists
      /\ down' = [w \in Window |-> told(w) \o (IF w = c.window THEN <<r>> ELSE <<>>)]
      /\ drain' = IF drain = 0 THEN 0 ELSE drain - 1
      /\ UNCHANGED <<subscribers, other, seen, copy, gone, dirty, patches, inflight, submission,
                     behind, flush, made, phase, awaited>>
  BY <1>0 DEF Process, Publish, authority, replica, edits
<1>2. queue \in Seq(Command)  BY DEF IInv, TypeOK
<1>3. /\ c \in Command /\ 1 \in DOMAIN queue /\ queue[1] = c
      /\ queue' \in Seq(Command)
      /\ \A i \in DOMAIN queue' : i + 1 \in DOMAIN queue /\ i + 1 # 1 /\ queue'[i] = queue[i + 1] /\ i \in Nat
  BY <1>1, <1>2
<1>4. c.window \in Window /\ c.slot \in Slot /\ c.edits \in SUBSET Edit  BY <1>3 DEF Command
<1>5. status \in {"accepted", "stale", "refused"} /\ (status = "accepted" => exists)
  BY DEF Answers
<1>6. r.type = "reply" /\ r.slot = c.slot /\ r.status = status /\ r.rev = revision'  BY DEF Reply
<1>7. /\ revision \in Nat /\ stored \in SUBSET Edit /\ exists \in BOOLEAN
      /\ revision' \in Nat /\ stored' \in SUBSET Edit /\ exists' \in BOOLEAN
      /\ status = "accepted" => revision' # 0
  <2>1. revision \in Nat /\ stored \in SUBSET Edit /\ exists \in BOOLEAN  BY DEF IInv, TypeOK
  <2> HIDE DEF c
  <2>2. CASE status = "accepted"
    <3>1. revision' = revision + 1 /\ stored' = stored \cup c.edits /\ exists' = TRUE  BY <1>1, <2>2
    <3> QED  BY <1>4, <2>1, <3>1
  <2>3. CASE status # "accepted"  BY <1>1, <2>1, <2>3
  <2> QED  BY <2>1, <2>2, <2>3
<1>8. r \in ReplyMessage  BY <1>4, <1>5, <1>7 DEF Reply, ReplyMessage
<1>9. Current' \in StateMessage /\ Current'.exists = exists' /\ exists' = exists
  BY <1>1, <1>5, <1>7 DEF Current, State, StateMessage
<1> HIDE DEF c, r
<1>10. exists' => exists /\ stored \subseteq stored'  BY <1>1, <1>9
<1>11. ~exists' => stored' = {}  BY <1>1, <1>5, <1>9 DEF IInv
<1>12. \A w \in Window : Keeps(w)  BY <1>1 DEF Keeps
\* What was broadcast.
<1>13. ASSUME NEW w \in Window
       PROVE  /\ told(w) \in Seq(MessageTo) /\ MessagesOK(told(w), Current')
              /\ w \in subscribers /\ NoState(told(w)) => NoState(down[w]) /\ stored' = stored
              /\ w \notin subscribers => told(w) = down[w]
              /\ \A s \in Slot : /\ NoReply(down[w], s) => NoReply(told(w), s)
                                 /\ Accepts(told(w), s) => Accepts(down[w], s)
  <2>1. CASE status = "accepted"
    <3>1. told(w) = down[w] \o Broadcast(w)  BY <2>1
    <3> HIDE DEF told
    <3> QED  BY <1>1, <1>9, <1>10, <1>11, <3>1, Told
  <2>2. CASE status # "accepted"
    <3>1. down[w] \in Seq(MessageTo) /\ MessagesOK(down[w], Current)  BY CurrentType
    <3>2. told(w) = down[w] \o <<>>  BY <2>2
    <3>3. r \in MessageTo  BY <1>8 DEF MessageTo
    <3>4. told(w) = down[w]  BY <3>1, <3>2, <3>3, Concats
    <3>5. Current' = Current /\ stored' = stored  BY <1>1, <2>2 DEF Current, State
    <3> QED  BY <3>1, <3>4, <3>5
  <2> QED  BY <2>1, <2>2
<1>14. \A w \in Window : down'[w] = told(w) \o (IF w = c.window THEN <<r>> ELSE <<>>)
  BY <1>1
<1> HIDE DEF told
<1>15. ASSUME NEW w \in Window, w # c.window
       PROVE  down'[w] = told(w) /\ WindowInv(w)'
  <2>1. r \in MessageTo  BY <1>8 DEF MessageTo
  <2>2. down'[w] = told(w)  BY <1>13, <1>14, <1>15, <2>1, Concats
  <2>3. \A i \in DOMAIN queue' : \E j \in DOMAIN queue : queue'[i] = queue[j]  BY <1>3
  <2> QED  BY <1>1, <1>9, <1>10, <1>12, <1>13, <2>2, <2>3, WindowTold
\* The window that has asked.
<1>16. ASSUME NEW w \in Window, w = c.window
       PROVE  /\ down'[w] \in Seq(MessageTo) /\ WindowInv(w)'
              /\ \A s \in Slot : s # c.slot /\ NoReply(down[w], s) => NoReply(down'[w], s)
  <2>1. r \in MessageTo  BY <1>8 DEF MessageTo
  <2>2. down'[w] = Append(told(w), r) /\ down'[w] \in Seq(MessageTo)
    <3>1. told(w) \in Seq(MessageTo)  BY <1>13
    <3>2. down'[w] = told(w) \o <<r>>  BY <1>14, <1>16
    <3> HIDE DEF MessageTo
    <3>3. told(w) \o <<r>> = Append(told(w), r)  BY <2>1, <3>1, Concats
    <3>4. Append(told(w), r) \in Seq(MessageTo)  BY <2>1, <3>1
    <3> QED  BY <3>2, <3>3, <3>4
  <2>3. w \in subscribers  BY <1>3, <1>16 DEF IInv, Subscribed
  <2>4. NoReply(told(w), c.slot)
    <3>1. NoReply(down[w], c.slot)  BY <1>3, <1>16 DEF IInv, OnePlace
    <3> QED  BY <1>4, <1>13, <3>1
  <2>5. NoState(told(w)) => gone[w] = ~exists'
    BY <1>9, <1>13, <2>3 DEF IInv, Heard
  <2>6. gone[w] \in BOOLEAN  BY CurrentType
  <2>7. /\ MessagesOK(Append(told(w), r), Current')
        /\ NoState(Append(told(w), r)) => NoState(told(w))
        /\ \A s \in Slot : s # c.slot => /\ NoReply(told(w), s) => NoReply(Append(told(w), r), s)
                                         /\ Accepts(Append(told(w), r), s) => Accepts(told(w), s)
        /\ Accepts(Append(told(w), r), c.slot) => status = "accepted"
    <3>1. r.status = "accepted" => r.rev # 0  BY <1>6, <1>7
    <3> HIDE DEF Current
    <3> QED  BY <1>6, <1>8, <1>9, <1>13, <2>4, <2>6, <3>1, AppendReply
  <2>8. \A i \in DOMAIN queue' : \E j \in DOMAIN queue : queue'[i] = queue[j]  BY <1>3
  <2>9. \A s \in Slot : Accepts(down'[w], s) =>
            \/ Accepts(down[w], s)
            \/ exists' /\ s = submission[w] /\ ~dirty[w] => Own(w) \subseteq stored'
    <3> TAKE s \in Slot
    <3>1. CASE s = c.slot
      <4>1. ASSUME Accepts(down'[w], s), s = submission[w], ~dirty[w] PROVE Own(w) \subseteq stored'
        <5>1. status = "accepted"  BY <2>2, <2>7, <3>1, <4>1
        <5>2. stored' = stored \cup c.edits  BY <1>1, <5>1
        <5>3. Own(w) \subseteq c.edits  BY <1>3, <1>16, <3>1, <4>1 DEF IInv, Carried
        <5> QED  BY <5>2, <5>3
      <4> QED  BY <4>1
    <3>2. CASE s # c.slot  BY <1>13, <2>2, <2>7, <3>2
    <3> QED  BY <3>1, <3>2
  <2>10. WindowInv(w)'
    BY <1>1, <1>9, <1>10, <1>12, <1>13, <2>2, <2>3, <2>7, <2>8, <2>9, WindowTold
  <2>11. \A s \in Slot : s # c.slot /\ NoReply(down[w], s) => NoReply(down'[w], s)
    BY <1>13, <2>2, <2>7
  <2> QED  BY <2>2, <2>10, <2>11
<1>17. down' \in [Window -> Seq(MessageTo)]
  <2>1. \A w \in Window : down'[w] \in Seq(MessageTo)  BY <1>13, <1>15, <1>16
  <2> HIDE DEF MessageTo
  <2> QED  BY <1>1, <2>1
<1>18. TypeOK'
  <2>1. drain' \in Nat  BY <1>1 DEF IInv, TypeOK
  <2> QED  BY <1>1, <1>3, <1>7, <1>17, <2>1 DEF IInv, TypeOK, MessageTo
<1>19. \A v \in Window, t \in Slot :
          NoReply(down[v], t) /\ ~(v = c.window /\ t = c.slot) => NoReply(down'[v], t)
  BY <1>13, <1>15, <1>16
<1>20. OnePlace'
  <2>1. OnePlace  BY DEF IInv
  <2>2. ASSUME NEW i \in DOMAIN queue', NEW j \in DOMAIN queue',
               queue'[i].window = queue'[j].window, queue'[i].slot = queue'[j].slot
        PROVE  i = j
    <3>1. i + 1 = j + 1  BY <1>3, <2>1, <2>2 DEF OnePlace
    <3>2. i \in Nat /\ j \in Nat  BY <1>3
    <3> QED  BY <3>1, <3>2
  <2>3. ASSUME NEW i \in DOMAIN queue'
        PROVE  /\ flush'[queue'[i].window][queue'[i].slot] # Idle
               /\ NoReply(down'[queue'[i].window], queue'[i].slot)
    <3> DEFINE x == queue[i + 1]
    <3>1. i + 1 \in DOMAIN queue /\ queue'[i] = x /\ i + 1 # 1  BY <1>3
    <3>2. x \in Command  BY <1>2, <3>1
    <3>3. x.window \in Window /\ x.slot \in Slot  BY <3>2 DEF Command
    <3>4. ~(x.window = c.window /\ x.slot = c.slot)  BY <1>3, <2>1, <3>1 DEF OnePlace
    <3>5. flush[x.window][x.slot] # Idle /\ NoReply(down[x.window], x.slot)  BY <2>1, <3>1 DEF OnePlace
    <3> HIDE DEF x
    <3> QED  BY <1>1, <1>19, <3>1, <3>3, <3>4, <3>5
  <2>4. ASSUME NEW v \in Window, NEW t \in Slot, flush'[v][t] = Idle
        PROVE  NoReply(down'[v], t)
    <3>1. flush[v][t] = Idle /\ NoReply(down[v], t)  BY <1>1, <2>1, <2>4 DEF OnePlace
    <3>2. ~(v = c.window /\ t = c.slot)  BY <1>3, <2>1, <3>1 DEF OnePlace
    <3> QED  BY <1>19, <3>1, <3>2
  <2> QED  BY <2>2, <2>3, <2>4 DEF OnePlace
<1>21. LetsGo  BY <1>12, HeldStays
<1>22. \A w \in Window : WindowInv(w)'  BY <1>15, <1>16
<1> QED  BY <1>11, <1>18, <1>20, <1>21, <1>22 DEF IInv, WindowInv

\* A window subscribes and is answered with the current state.
LEMMA SubscribeOK ==
    ASSUME IInv, NEW w \in Window, Subscribe(w)
    PROVE  IInv' /\ LetsGo
<1>1. /\ w \notin subscribers /\ subscribers' = subscribers \cup {w}
      /\ down' = [down EXCEPT ![w] = Append(down[w], Current)]
      /\ UNCHANGED <<revision, stored, exists, queue, other, seen, copy, gone, dirty, patches, inflight,
                     submission, behind, flush, made, phase, awaited, drain>>
  BY DEF Subscribe, authority, replica, edits, quitting, Current
<1>2. /\ Current \in StateMessage /\ Current.exists = exists /\ Current.edits = stored
      /\ down[w] \in Seq(MessageTo) /\ gone[w] \in BOOLEAN /\ MessagesOK(down[w], Current)
  BY CurrentType
<1>3. Current' = Current  BY <1>1 DEF Current, State
<1>4. ~exists => stored = {}  BY DEF IInv
<1>5. /\ MessagesOK(Append(down[w], Current), Current) /\ ~NoState(Append(down[w], Current))
      /\ \A s \in Slot : /\ NoReply(down[w], s) => NoReply(Append(down[w], Current), s)
                         /\ Accepts(Append(down[w], Current), s) => Accepts(down[w], s)
  <2> HIDE DEF Current
  <2> QED  BY <1>2, <1>4, AppendState
<1>6. Append(down[w], Current) \in Seq(MessageTo)  BY <1>2 DEF MessageTo
<1>7. /\ down' \in [Window -> Seq(MessageTo)] /\ down'[w] = Append(down[w], Current)
      /\ \A v \in Window \ {w} : down'[v] = down[v]
  <2>1. down \in [Window -> Seq(MessageTo)]  BY DEF IInv, TypeOK, MessageTo
  <2> HIDE DEF Current, MessageTo
  <2> QED  BY <1>1, <1>6, <2>1
<1>8. TypeOK'  BY <1>1, <1>7 DEF IInv, TypeOK, MessageTo
<1>9. WindowInv(w)'
  <2>1. WindowInv(w)  BY DEF IInv, WindowInv
  <2>2. WindowOK(w)'  BY <1>1, <2>1 DEF WindowInv, WindowOK, Protected
  <2>3. Subscribed(w)'  BY <1>1 DEF Subscribed
  <2>4. Heard(w)'  BY <1>1, <1>3, <1>5, <1>7 DEF Heard
  <2>5. Carried(w)'
    <3>1. submission[w] \in Slot \cup {None}  BY DEF IInv, TypeOK
    <3> QED  BY <1>1, <1>5, <1>7, <2>1, <3>1 DEF WindowInv, Carried, Own
  <2> QED  BY <2>2, <2>3, <2>4, <2>5 DEF WindowInv
<1>10. \A v \in Window \ {w} : WindowInv(v)'
  <2> TAKE v \in Window \ {w}
  <2>1. WindowInv(v) /\ down'[v] = down[v] /\ (v \in subscribers' <=> v \in subscribers)
    BY <1>1, <1>7 DEF IInv, WindowInv
  <2> QED
    BY <1>1, <1>3, <2>1 DEF WindowInv, WindowOK, Subscribed, Heard, Carried, Own, Protected
<1>11. \A v \in Window : Keeps(v)  BY <1>1 DEF Keeps
<1>12. LetsGo  BY <1>11, HeldStays
<1>13. OnePlace'  BY <1>1, <1>5, <1>7, PlaceStays
<1>14. \A v \in Window : WindowInv(v)'  BY <1>9, <1>10
<1> QED  BY <1>1, <1>4, <1>8, <1>12, <1>13, <1>14 DEF IInv, WindowInv

-----------------------------------------------------------------------------
(* Quitting *)

\* Every subscriber is asked to flush: no state, and no answer.
LEMMA BeginFlushOK == ASSUME IInv, BeginFlush PROVE IInv' /\ LetsGo
<1> DEFINE f == [type |-> "flush"]
<1>1. /\ phase' = "asking" /\ awaited' = subscribers
      /\ down' = [w \in Window |-> down[w] \o (IF w \in subscribers THEN <<f>> ELSE <<>>)]
      /\ UNCHANGED <<revision, stored, exists, subscribers, queue, other, seen, copy, gone, dirty, patches,
                     inflight, submission, behind, flush, made, drain>>
  BY DEF BeginFlush, authority, main, replica, edits
<1>2. f \in FlushRequest /\ f \in MessageTo  BY DEF FlushRequest, MessageTo
<1> HIDE DEF f
<1>3. Current' = Current  BY <1>1 DEF Current, State
<1>4. ASSUME NEW w \in Window
      PROVE  /\ down'[w] \in Seq(MessageTo) /\ MessagesOK(down'[w], Current)
             /\ NoState(down'[w]) => NoState(down[w])
             /\ w \notin subscribers => down'[w] = down[w]
             /\ \A s \in Slot : /\ NoReply(down[w], s) => NoReply(down'[w], s)
                                /\ Accepts(down'[w], s) => Accepts(down[w], s)
  <2>1. /\ down[w] \in Seq(MessageTo) /\ gone[w] \in BOOLEAN /\ MessagesOK(down[w], Current)
        /\ Current \in StateMessage
    BY CurrentType
  <2>2. CASE w \in subscribers
    <3>1. down'[w] = Append(down[w], f)  BY <1>1, <1>2, <2>1, <2>2, Concats
    <3>2. down'[w] \in Seq(MessageTo)  BY <1>2, <2>1, <3>1
    <3> HIDE DEF Current
    <3> QED  BY <1>2, <2>1, <2>2, <3>1, <3>2, AppendFlush
  <2>3. CASE w \notin subscribers
    <3>1. down'[w] = down[w]  BY <1>1, <1>2, <2>1, <2>3, Concats
    <3> QED  BY <2>1, <3>1
  <2> QED  BY <2>2, <2>3
<1>5. down' \in [Window -> Seq(MessageTo)]  BY <1>1, <1>4
<1>6. TypeOK'  BY <1>1, <1>5 DEF IInv, TypeOK, MessageTo
<1>7. \A w \in Window : Keeps(w)  BY <1>1 DEF Keeps
<1>8. \A w \in Window : WindowInv(w)'  BY <1>1, <1>3, <1>4, <1>7, WindowTold
<1>9. LetsGo  BY <1>7, HeldStays
<1>10. OnePlace'  BY <1>1, <1>4, PlaceStays
<1>11. ~exists' => stored' = {}  BY <1>1 DEF IInv
<1> QED  BY <1>6, <1>8, <1>9, <1>10, <1>11 DEF IInv, WindowInv

\* The Main Process stops waiting, or its queue is idle; or nothing happens.
LEMMA PhaseOK ==
    ASSUME IInv, UNCHANGED <<authority, main, down, replica, edits, flush, made, awaited>>,
           phase' \in {"running", "asking", "draining", "saved"}, drain' \in Nat
    PROVE  IInv' /\ LetsGo
<1>1. UNCHANGED <<revision, stored, exists, subscribers, queue, other, down, seen, copy, gone, dirty, patches,
                  inflight, submission, behind, flush, made, awaited>>
  BY DEF authority, main, replica, edits
<1>2. Current' = Current  BY <1>1 DEF Current, State
<1>3. TypeOK'  BY <1>1 DEF IInv, TypeOK
<1>4. \A w \in Window : WindowInv(w)'
  BY <1>1, <1>2 DEF IInv, WindowInv, WindowOK, Subscribed, Heard, Carried, Own, Protected
<1>5. OnePlace' /\ (~exists' => stored' = {})
  BY <1>1 DEF IInv, OnePlace
<1>6. \A w \in Window : Keeps(w)  BY <1>1 DEF Keeps
<1>7. LetsGo  BY <1>6, HeldStays
<1> QED  BY <1>3, <1>4, <1>5, <1>7 DEF IInv, WindowInv

LEMMA QuitOK == ASSUME IInv, Quit PROVE IInv' /\ LetsGo
<1>1. CASE BeginFlush  BY <1>1, BeginFlushOK
<1>2. ASSUME NEW due, Drain(due) PROVE IInv' /\ LetsGo
  <2>1. Len(queue) \in Nat  BY DEF IInv, TypeOK
  <2> QED  BY <1>2, <2>1, PhaseOK DEF Drain
<1>3. CASE Saved
  <2>1. drain \in Nat  BY DEF IInv, TypeOK
  <2> QED  BY <1>3, <2>1, PhaseOK DEF Saved
<1> QED  BY <1>1, <1>2, <1>3 DEF Quit, AllAnswered, FlushTimesOut

-----------------------------------------------------------------------------
(* Theorems *)

LEMMA InitOK == Init => IInv
<1> SUFFICES ASSUME Init PROVE IInv  OBVIOUS
<1>1. <<>> \in Seq(Command) /\ <<>> \in Seq(StateMessage \cup ReplyMessage \cup FlushRequest)
      /\ DOMAIN <<>> = {}
  OBVIOUS
<1>2. Idle \in Attempt  BY ReplicaConstants DEF Idle, Attempt
<1>3. 0 \in 0..MaxOther  BY ReplicaConstants
<1>4. TypeOK
  <2> HIDE DEF Idle
  <2> QED  BY <1>1, <1>2, <1>3 DEF Init, TypeOK, NotInFlight
<1>5. ASSUME NEW w \in Window PROVE WindowInv(w)
  <2>1. /\ down[w] = <<>> /\ copy[w] = {} /\ gone[w] = TRUE /\ dirty[w] = FALSE /\ patches[w] = {}
        /\ inflight[w] = NotInFlight /\ submission[w] = None /\ queue = <<>> /\ subscribers = {}
    BY DEF Init
  <2>2. MessagesOK(down[w], Current)  BY <2>1, NothingSent
  <2>3. WindowOK(w) /\ Subscribed(w) /\ Heard(w)
    BY <1>1, <2>1, <2>2 DEF WindowOK, Subscribed, Heard, Protected
  <2>4. Carried(w)  BY <1>1, <2>1 DEF Carried
  <2> QED  BY <2>3, <2>4 DEF WindowInv
<1>6. OnePlace
  <2>1. queue = <<>> /\ \A w \in Window : down[w] = <<>>  BY DEF Init
  <2> QED  BY <1>1, <2>1 DEF OnePlace, NoReply
<1>7. ~exists => stored = {}  BY DEF Init
<1> QED  BY <1>4, <1>5, <1>6, <1>7 DEF IInv, WindowInv

LEMMA NextOK == IInv /\ [Next]_vars => IInv' /\ LetsGo
<1> SUFFICES ASSUME IInv, [Next]_vars PROVE IInv' /\ LetsGo  OBVIOUS
<1>1. CASE Process  BY <1>1, ProcessOK
<1>2. CASE OtherCommand  BY <1>2, OtherCommandOK
<1>3. CASE DeleteThread  BY <1>3, DeleteThreadOK
<1>4. ASSUME NEW w \in Window, Subscribe(w) PROVE IInv' /\ LetsGo  BY <1>4, SubscribeOK
<1>5. ASSUME NEW w \in Window, WindowStep(w) PROVE IInv' /\ LetsGo
  BY <1>5, ApplyOK, SupersededOK, SettleOK, RetryOK, FlushRequestedOK DEF WindowStep
<1>6. ASSUME NEW w \in Window, NEW e \in Edit, Edits(w, e) PROVE IInv' /\ LetsGo  BY <1>6, EditsOK
<1>7. ASSUME NEW w \in Window, NEW s \in Slot, Flush(w, s) PROVE IInv' /\ LetsGo  BY <1>7, FlushOK
<1>8. CASE Quit  BY <1>8, QuitOK
<1>9. CASE UNCHANGED vars
  <2>1. UNCHANGED <<authority, main, down, replica, edits, flush, made, awaited>> /\ UNCHANGED <<phase, drain>>
    BY <1>9 DEF vars, quitting
  <2>2. phase \in {"running", "asking", "draining", "saved"} /\ drain \in Nat  BY DEF IInv, TypeOK
  <2> QED  BY <2>1, <2>2, PhaseOK
<1> QED  BY <1>1, <1>2, <1>3, <1>4, <1>5, <1>6, <1>7, <1>8, <1>9 DEF Next

\* The inductive invariant holds for every set of windows, edits and flushes.
THEOREM Invariance == Spec => []IInv
BY InitOK, NextOK, PTL DEF Spec

\* Every variable of the authority and of the windows' App State keeps its shape.
THEOREM TypeCorrect == Spec => []TypeOK
<1>1. IInv => TypeOK  BY DEF IInv
<1> QED  BY Invariance, <1>1, PTL

\* An edit of a message that a window shows and protects is let go of only once it is
\* stored or its submission was refused, however submissions, their retries and the
\* broadcasts interleave (flushPendingContent() and applyAuthorityState() of
\* AppStateContext.tsx).
THEOREM NoEditLost == Spec => EditsHeld
<1>1. LetsGo => \A e \in Message : Held(e) /\ exists' =>
                   \/ Held(e)' \/ e \in stored'
                   \/ \E w \in Window : GivesUp(w) /\ e \in copy[w]
  BY DEF LetsGo
<1> QED  BY Invariance, NextOK, <1>1, PTL DEF Spec, EditsHeld

\* Nothing that a window still had in flight brings a deleted Thread back: the authority
\* applies no content to it, and a window that has heard of the deletion keeps nothing.
THEOREM DeletedStaysDeleted == Spec => []NoResurrection
<1>1. IInv => NoResurrection
  <2> SUFFICES ASSUME IInv PROVE NoResurrection  OBVIOUS
  <2>1. \A w \in Window : WindowOK(w)  BY DEF IInv
  <2>2. \A w \in Window : gone[w] => copy[w] = {} /\ ~Protected(w) /\ patches[w] \subseteq Prune
    BY <2>1 DEF WindowOK, Protected
  <2> QED  BY <2>2 DEF IInv, NoResurrection
<1> QED  BY Invariance, <1>1, PTL

\* A subscriber that has read every message, protects nothing and gave nothing up since
\* the last state it took over shows what is stored: the reply to app-state:subscribe and
\* the change events leave no gap, and no other edit stays on screen.
THEOREM WindowsAgree == Spec => []UnprotectedAgrees
<1>1. IInv => UnprotectedAgrees
  <2> SUFFICES ASSUME IInv, NEW w \in subscribers, down[w] = <<>>, ~Protected(w), ~behind[w]
               PROVE  copy[w] = stored
    BY DEF UnprotectedAgrees
  <2>1. w \in Window  BY DEF IInv, TypeOK
  <2>2. NoState(down[w])  BY NothingSent
  <2> QED  BY <2>1, <2>2 DEF IInv, Heard
<1> QED  BY Invariance, <1>1, PTL
=============================================================================
