------------------------- MODULE MessageQueueProofs -------------------------
(***************************************************************************)
(* Proofs about MessageQueue.                                              *)
(***************************************************************************)
EXTENDS MessageQueue, SequenceTheorems, FiniteSetTheorems, TLAPS

(***************************************************************************)
(* Sequences.                                                              *)
(***************************************************************************)

\* Every nonempty set of natural numbers has a least one.
LEMMA LeastNumber ==
    ASSUME NEW T, T \subseteq Nat, T # {}
    PROVE  \E n \in T : \A m \in T : n <= m
<1> DEFINE U == {1..n : n \in T}
<1>1. U \subseteq FiniteSubsetsOf(Nat) /\ U # {}
  <2>1. \A n \in T : 1..n \subseteq Nat /\ IsFiniteSet(1..n)
    BY FS_Interval
  <2> QED BY <2>1 DEF FiniteSubsetsOf
<1>2. IsWellFoundedOn(StrictSubsetOrdering(Nat), FiniteSubsetsOf(Nat))
  BY FS_StrictSubsetOrderingWellFounded
<1>3. PICK x \in U : \A y \in U : <<y, x>> \notin StrictSubsetOrdering(Nat)
  <2> HIDE DEF U
  <2> QED BY <1>1, <1>2, WFMin
<1>4. PICK n \in T : x = 1..n
  OBVIOUS
<1>5. ASSUME NEW m \in T PROVE n <= m
  <2> SUFFICES ASSUME m < n PROVE FALSE
    OBVIOUS
  <2>1. 1..m \subseteq 1..n /\ n \in 1..n /\ n \notin 1..m
    OBVIOUS
  <2>2. <<1..m, 1..n>> \in StrictSubsetOrdering(Nat)
    BY <2>1 DEF StrictSubsetOrdering
  <2> QED BY <1>3, <1>4, <2>2
<1> QED BY <1>5

\* f lists what a filter has kept of each prefix of s, up to length k.
Filters(f, s, S, k) ==
    f = [n \in 0..k |->
            IF n = 0 THEN <<>> ELSE IF s[n] \in S THEN Append(f[n - 1], s[n]) ELSE f[n - 1]]

\* There is such a list for every prefix.
LEMMA FiltersExist ==
    ASSUME NEW T, NEW s \in Seq(T), NEW S
    PROVE  \E f : Filters(f, s, S, Len(s))
<1> DEFINE Listed(k) == \E f : Filters(f, s, S, k)
           Bad == {k \in Nat : ~Listed(k)}
<1>1. Listed(0)
  <2>1. Filters([n \in 0..0 |-> <<>>], s, S, 0)
    BY DEF Filters
  <2> QED BY <2>1
<1>2. ASSUME NEW k \in Nat, Listed(k)
      PROVE  Listed(k + 1)
  <2>1. PICK f : Filters(f, s, S, k)
    BY <1>2
  <2> DEFINE next == IF s[k + 1] \in S THEN Append(f[k], s[k + 1]) ELSE f[k]
             g == [n \in 0..(k + 1) |-> IF n = k + 1 THEN next ELSE f[n]]
             Wanted(n) == IF n = 0 THEN <<>> ELSE IF s[n] \in S THEN Append(g[n - 1], s[n]) ELSE g[n - 1]
  <2>2. ASSUME NEW n \in 0..(k + 1) PROVE g[n] = Wanted(n)
    <3>1. CASE n = k + 1
      <4>1. g[n] = next /\ g[n - 1] = f[k]
        BY <3>1
      <4> QED BY <4>1, <3>1
    <3>2. CASE n \in 0..k
      <4>1. g[n] = f[n] /\ (n # 0 => g[n - 1] = f[n - 1])
        BY <3>2
      <4>2. f[n] = IF n = 0 THEN <<>> ELSE IF s[n] \in S THEN Append(f[n - 1], s[n]) ELSE f[n - 1]
        BY <2>1, <3>2 DEF Filters
      <4> QED BY <4>1, <4>2
    <3> QED BY <3>1, <3>2
  <2>3. Filters(g, s, S, k + 1)
    <3>1. g = [n \in 0..(k + 1) |-> Wanted(n)]
      BY <2>2
    <3> QED BY <3>1 DEF Filters
  <2> QED BY <2>3
<1> HIDE DEF Listed
<1>3. Bad = {}
  <2> SUFFICES ASSUME Bad # {} PROVE FALSE
    OBVIOUS
  <2>1. PICK k \in Bad : \A m \in Bad : k <= m
    <3>1. Bad \subseteq Nat
      OBVIOUS
    <3> HIDE DEF Bad
    <3> QED BY <3>1, LeastNumber
  <2>2. k # 0 /\ k - 1 \in Nat /\ k - 1 \notin Bad
    BY <1>1, <2>1
  <2> QED BY <1>2, <2>1, <2>2
<1>4. \A k \in Nat : Listed(k)
  BY <1>3
<1>5. Listed(Len(s))
  BY <1>4
<1> QED BY <1>5 DEF Listed

\* What a filter keeps is what the sequence and the set have in common.
LEMMA OnlyKeeps ==
    ASSUME NEW T, NEW s \in Seq(T), NEW S
    PROVE  Only(s, S) \in Seq(T) /\ ToSet(Only(s, S)) = ToSet(s) \cap S
<1> DEFINE f == CHOOSE g : Filters(g, s, S, Len(s))
           Good(k) == f[k] \in Seq(T) /\ \A x : x \in ToSet(f[k]) <=> \E i \in 1..k : s[i] = x /\ x \in S
           Bad == {k \in 0..Len(s) : ~Good(k)}
<1>1. Filters(f, s, S, Len(s))
  <2>1. \E g : Filters(g, s, S, Len(s))
    BY FiltersExist
  <2> QED BY <2>1
<1>2. Only(s, S) = f[Len(s)]
  BY DEF Only, Filters
<1> HIDE DEF f
<1>3. ASSUME NEW k \in 0..Len(s)
      PROVE  f[k] = IF k = 0 THEN <<>> ELSE IF s[k] \in S THEN Append(f[k - 1], s[k]) ELSE f[k - 1]
  BY <1>1 DEF Filters
<1>4. Good(0)
  <2>1. f[0] = <<>>
    BY <1>3
  <2>2. ToSet(<<>>) = {}
    BY DEF ToSet
  <2> QED BY <2>1, <2>2
<1>5. ASSUME NEW k \in 1..Len(s), Good(k - 1)
      PROVE  Good(k)
  <2>1. s[k] \in T /\ k - 1 \in 0..Len(s) /\ k \in 0..Len(s) /\ k # 0
    OBVIOUS
  <2>2. \A x : (\E i \in 1..k : s[i] = x /\ x \in S) <=> ((\E i \in 1..(k - 1) : s[i] = x /\ x \in S) \/ (x = s[k] /\ x \in S))
    OBVIOUS
  <2>3. CASE s[k] \in S
    <3>0. f[k] = IF k = 0 THEN <<>> ELSE IF s[k] \in S THEN Append(f[k - 1], s[k]) ELSE f[k - 1]
      BY <1>3, <2>1
    <3>1. f[k] = Append(f[k - 1], s[k])
      BY <3>0, <2>1, <2>3
    <3> DEFINE p == f[k - 1]
    <3>2. p \in Seq(T)
      BY <1>5
    <3>3. Append(p, s[k]) \in Seq(T) /\ ToSet(Append(p, s[k])) = ToSet(p) \cup {s[k]}
      <4> HIDE DEF p
      <4>1. Append(p, s[k]) \in Seq(T) /\ Len(Append(p, s[k])) = Len(p) + 1
        BY <3>2, <2>1
      <4>2. \A i \in 1..Len(p) : Append(p, s[k])[i] = p[i]
        BY <3>2, <2>1
      <4>3. Append(p, s[k])[Len(p) + 1] = s[k]
        BY <3>2, <2>1
      <4>4. DOMAIN Append(p, s[k]) = 1..(Len(p) + 1) /\ DOMAIN p = 1..Len(p)
        BY <4>1, <3>2
      <4> HIDE <2>2
      <4> QED BY <4>1, <4>2, <4>3, <4>4, <3>2 DEF ToSet
    <3> QED BY <1>5, <2>2, <2>3, <3>1, <3>3
  <2>4. CASE s[k] \notin S
    <3>1. f[k] = f[k - 1]
      BY <1>3, <2>1, <2>4
    <3> QED BY <1>5, <2>2, <2>4, <3>1
  <2> QED BY <2>3, <2>4
<1>6. Bad = {}
  <2> SUFFICES ASSUME Bad # {} PROVE FALSE
    OBVIOUS
  <2>1. PICK k \in Bad : \A m \in Bad : k <= m
    <3>1. Bad \subseteq Nat
      OBVIOUS
    <3> HIDE DEF Bad
    <3> QED BY <3>1, LeastNumber
  <2> HIDE DEF Good
  <2>2. k \in 1..Len(s) /\ k - 1 \in 0..Len(s) /\ k - 1 \notin Bad
    BY <1>4, <2>1
  <2> QED BY <1>5, <2>1, <2>2
<1>7. Good(Len(s))
  <2> HIDE DEF Good
  <2>1. Len(s) \in 0..Len(s)
    OBVIOUS
  <2> QED BY <1>6, <2>1
<1>8. \A x : x \in ToSet(s) <=> \E i \in 1..Len(s) : s[i] = x
  BY DEF ToSet
<1> QED BY <1>2, <1>7, <1>8

\* The elements of a sequence that is extended or shortened at one end.
LEMMA SetOfAppend ==
    ASSUME NEW T, NEW s \in Seq(T), NEW e \in T
    PROVE  Append(s, e) \in Seq(T) /\ ToSet(Append(s, e)) = ToSet(s) \cup {e}
<1>1. Append(s, e) \in Seq(T) /\ Len(Append(s, e)) = Len(s) + 1
  OBVIOUS
<1>2. \A i \in 1..Len(s) : Append(s, e)[i] = s[i]
  OBVIOUS
<1>3. Append(s, e)[Len(s) + 1] = e
  OBVIOUS
<1>4. DOMAIN Append(s, e) = 1..(Len(s) + 1) /\ DOMAIN s = 1..Len(s)
  BY <1>1
<1> QED BY <1>1, <1>2, <1>3, <1>4 DEF ToSet

LEMMA SetOfTail ==
    ASSUME NEW T, NEW s \in Seq(T), s # <<>>
    PROVE  /\ Tail(s) \in Seq(T) /\ Head(s) \in T
           /\ ToSet(s) = ToSet(Tail(s)) \cup {Head(s)}
<1>1. Tail(s) \in Seq(T) /\ Len(Tail(s)) = Len(s) - 1 /\ Len(s) > 0 /\ Head(s) = s[1] /\ Head(s) \in T
  OBVIOUS
<1>2. \A i \in 1..Len(Tail(s)) : Tail(s)[i] = s[i + 1]
  OBVIOUS
<1>3. DOMAIN Tail(s) = 1..(Len(s) - 1) /\ DOMAIN s = 1..Len(s)
  BY <1>1
<1>4. ASSUME NEW x PROVE x \in ToSet(s) <=> x \in ToSet(Tail(s)) \cup {Head(s)}
  <2>1. ASSUME NEW i \in 1..Len(s) PROVE s[i] \in ToSet(Tail(s)) \cup {Head(s)}
    <3>1. CASE i = 1
      BY <1>1, <3>1
    <3>2. CASE i # 1
      <4>1. i - 1 \in 1..Len(Tail(s)) /\ s[i] = Tail(s)[i - 1]
        BY <1>1, <1>2, <3>2
      <4> QED BY <4>1, <1>1, <1>3 DEF ToSet
    <3> QED BY <3>1, <3>2
  <2>2. ASSUME NEW i \in 1..Len(Tail(s)) PROVE Tail(s)[i] \in ToSet(s)
    <3>1. i + 1 \in 1..Len(s) /\ Tail(s)[i] = s[i + 1]
      BY <1>1, <1>2
    <3> QED BY <3>1, <1>3 DEF ToSet
  <2>3. Head(s) \in ToSet(s)
    BY <1>1, <1>3 DEF ToSet
  <2> QED BY <2>1, <2>2, <2>3, <1>1, <1>3 DEF ToSet
<1> QED BY <1>1, <1>4

LEMMA SetOfCons ==
    ASSUME NEW T, NEW s \in Seq(T), NEW e \in T
    PROVE  <<e>> \o s \in Seq(T) /\ ToSet(<<e>> \o s) = ToSet(s) \cup {e}
<1>1. <<e>> \o s \in Seq(T) /\ Len(<<e>> \o s) = Len(s) + 1
  OBVIOUS
<1> DEFINE u == <<e>> \o s
<1>2. u # <<>> /\ Head(u) = e
  BY <1>1
<1>3. Tail(u) = s
  OBVIOUS
<1> QED BY <1>1, <1>2, <1>3, SetOfTail

-----------------------------------------------------------------------------
(***************************************************************************)
(* The queue.                                                              *)
(***************************************************************************)

\* The ids of a queue.
LEMMA IdsOfQueue ==
    ASSUME NEW q \in Seq(Items)
    PROVE  /\ Ids(q) \in Seq(Messages) /\ Len(Ids(q)) = Len(q)
           /\ \A i \in 1..Len(q) : Ids(q)[i] = q[i].msg
           /\ ToSet(Ids(q)) = {item.msg : item \in ToSet(q)}
<1>1. \A item \in Items : item.msg \in Messages
  BY DEF Items
<1>2. \A i \in 1..Len(q) : q[i] \in Items
  OBVIOUS
<1>3. Ids(q) = [i \in 1..Len(q) |-> q[i].msg]
  BY DEF Ids
<1>4. Ids(q) \in Seq(Messages) /\ Len(Ids(q)) = Len(q)
  BY <1>1, <1>2, <1>3
<1>5. DOMAIN q = 1..Len(q) /\ DOMAIN Ids(q) = 1..Len(q)
  BY <1>3
<1>6. \A i \in 1..Len(q) : Ids(q)[i] = q[i].msg
  BY <1>3
<1> QED BY <1>4, <1>5, <1>6 DEF ToSet

\* What a change of the queue does to the ids the window holds.
SameCopy(c, d) ==
    d.work = c.work /\ d.dirty = c.dirty /\ d.waiting = c.waiting /\ d.behind = c.behind

\* enqueueChatMessage().
LEMMA EnqueuedIds ==
    ASSUME NEW c \in Locals, NEW m \in Message
    PROVE  LET d == Enqueued(c, m) IN
           /\ d \in Locals /\ SameCopy(c, d)
           /\ ToSet(d.queue) = ToSet(c.queue) \cup {[msg |-> m, confirm |-> FALSE]}
           /\ d.live = c.live \cup {m} /\ d.spent = c.spent \ {m}
<1> DEFINE item == [msg |-> m, confirm |-> FALSE]
           d == Enqueued(c, m)
<1>1. item \in Items
  BY DEF Items, Messages
<1>2. c.queue \in Seq(Items)
  BY DEF Locals
<1>3. d.queue = Append(c.queue, item) /\ d.live = c.live \cup {m} /\ d.spent = c.spent \ {m}
      /\ SameCopy(c, d)
  BY DEF Locals, Enqueued, SameCopy
<1>4. Append(c.queue, item) \in Seq(Items) /\ ToSet(Append(c.queue, item)) = ToSet(c.queue) \cup {item}
  <2> HIDE DEF item
  <2> QED BY <1>1, <1>2, SetOfAppend
<1>5. d \in Locals
  BY <1>4 DEF Locals, Enqueued, Messages
<1> QED BY <1>3, <1>4, <1>5

\* removeQueuedChatMessage().
LEMMA RemovedIds ==
    ASSUME NEW c \in Locals, NEW m \in Messages
    PROVE  LET d == Removed(c, m) IN
           /\ d \in Locals /\ SameCopy(c, d)
           /\ ToSet(d.queue) = {item \in ToSet(c.queue) : item.msg # m}
           /\ d.live = c.live \ {m} /\ d.spent = c.spent \cup {m}
<1> DEFINE rest == {item \in ToSet(c.queue) : item.msg # m}
           d == Removed(c, m)
<1>1. c.queue \in Seq(Items)
  BY DEF Locals
<1>2. d.queue = Only(c.queue, rest) /\ d.live = c.live \ {m} /\ d.spent = c.spent \cup {m}
      /\ SameCopy(c, d)
  BY DEF Locals, Removed, SameCopy
<1>3. Only(c.queue, rest) \in Seq(Items) /\ ToSet(Only(c.queue, rest)) = ToSet(c.queue) \cap rest
  BY <1>1, OnlyKeeps
<1>4. d \in Locals
  BY <1>3 DEF Locals, Removed
<1> QED BY <1>2, <1>3, <1>4

\* shiftQueuedChatMessage().
LEMMA ShiftedIds ==
    ASSUME NEW c \in Locals, c.queue # <<>>
    PROVE  LET d == Shifted(c)
               m == Head(c.queue).msg
           IN /\ d \in Locals /\ SameCopy(c, d)
              /\ Head(c.queue) \in Items /\ Head(c.queue) \in ToSet(c.queue)
              /\ ToSet(c.queue) = ToSet(d.queue) \cup {Head(c.queue)}
              /\ d.live = c.live \ {m} /\ d.spent = c.spent \cup {m}
<1> DEFINE d == Shifted(c)
           m == Head(c.queue).msg
<1>1. c.queue \in Seq(Items)
  BY DEF Locals
<1>2. Tail(c.queue) \in Seq(Items) /\ Head(c.queue) \in Items
      /\ ToSet(c.queue) = ToSet(Tail(c.queue)) \cup {Head(c.queue)}
  BY <1>1, SetOfTail
<1>3. m \in Messages
  BY <1>2 DEF Items
<1>4. d.queue = Tail(c.queue) /\ d.live = c.live \ {m} /\ d.spent = c.spent \cup {m}
      /\ SameCopy(c, d)
  BY DEF Locals, Shifted, SameCopy
<1>5. d \in Locals
  BY <1>2, <1>3 DEF Locals, Shifted
<1> QED BY <1>2, <1>4, <1>5

\* unshiftQueuedChatMessage().
LEMMA UnshiftedIds ==
    ASSUME NEW c \in Locals, NEW item \in Items
    PROVE  LET d == Unshifted(c, item) IN
           /\ d \in Locals /\ SameCopy(c, d)
           /\ ToSet(d.queue) = ToSet(c.queue) \cup {item}
           /\ d.live = (IF item.confirm THEN c.live ELSE c.live \cup {item.msg})
           /\ d.spent = c.spent \ {item.msg}
<1> DEFINE d == Unshifted(c, item)
<1>1. c.queue \in Seq(Items) /\ item.confirm \in BOOLEAN /\ item.msg \in Messages
  BY DEF Locals, Items
<1>2. d.queue = <<item>> \o c.queue /\ d.spent = c.spent \ {item.msg} /\ SameCopy(c, d)
      /\ d.live = (IF item.confirm THEN c.live ELSE c.live \cup {item.msg})
  BY DEF Locals, Unshifted, SameCopy
<1>3. <<item>> \o c.queue \in Seq(Items) /\ ToSet(<<item>> \o c.queue) = ToSet(c.queue) \cup {item}
  BY <1>1, SetOfCons
<1>4. d \in Locals
  BY <1>1, <1>3 DEF Locals, Unshifted
<1> QED BY <1>2, <1>3, <1>4

\* The item of a message that is queued.
LEMMA ItemOfQueued ==
    ASSUME NEW c \in Locals, NEW m \in Queued(c)
    PROVE  /\ ItemOf(c, m) \in ToSet(c.queue) /\ ItemOf(c, m).msg = m
           /\ ItemOf(c, m) \in Items /\ m \in Messages
<1>1. c.queue \in Seq(Items) /\ DOMAIN c.queue = 1..Len(c.queue)
  BY DEF Locals
<1>2. PICK i \in DOMAIN c.queue : c.queue[i].msg = m
  <2>1. m \in ToSet(Ids(c.queue))
    BY DEF Queued
  <2>2. PICK item \in ToSet(c.queue) : item.msg = m
    BY <2>1, <1>1, IdsOfQueue
  <2> QED BY <2>2 DEF ToSet
<1> DEFINE j == CHOOSE k \in DOMAIN c.queue : c.queue[k].msg = m
<1>3. j \in DOMAIN c.queue /\ c.queue[j].msg = m
  BY <1>2
<1>4. ItemOf(c, m) = c.queue[j]
  BY DEF ItemOf
<1> HIDE DEF j
<1>5. c.queue[j] \in Items /\ c.queue[j] \in ToSet(c.queue)
  BY <1>1, <1>3 DEF ToSet
<1>6. m \in Messages
  BY <1>3, <1>5 DEF Items
<1> QED BY <1>3, <1>4, <1>5, <1>6

\* A message is queued if an item of the queue holds it.
LEMMA QueuedMsgs ==
    ASSUME NEW c \in Locals
    PROVE  Queued(c) = {item.msg : item \in ToSet(c.queue)}
<1>1. c.queue \in Seq(Items)
  BY DEF Locals
<1> QED BY <1>1, IdsOfQueue DEF Queued

\* d is c after comparisons with App State: what is new in the queue is to be confirmed
\* unless the window has queued it, and no spent id comes back.
ComparedFrom(c, d) ==
    /\ d.live = c.live /\ d.spent \subseteq c.spent
    /\ \A item \in ToSet(d.queue) : item \in ToSet(c.queue) \/ item.confirm \/ item.msg \in c.live
    /\ Queued(d) \cap d.spent \subseteq Queued(c) \cap c.spent

\* What a comparison may take out of the queue.
Leaves(c, d) == \A m \in Queued(c) : m \in Queued(d) \/ m \in c.spent \/ m \notin ToSet(c.work)

\* syncThreadWorkFromSnapshot().
LEMMA SyncedIds ==
    ASSUME NEW c \in Locals
    PROVE  LET d == Synced(c) IN
           d \in Locals /\ SameCopy(c, d) /\ ComparedFrom(c, d) /\ Leaves(c, d)
<1> DEFINE spent == c.spent \cap ToSet(c.work)
           kept == Only(c.work, ToSet(c.work) \ spent)
           queue == [i \in DOMAIN kept |-> Taken(c, kept[i])]
           d == [c EXCEPT !.spent = spent, !.queue = queue]
<1>1. c.work \in Seq(Messages) /\ c.queue \in Seq(Items) /\ c.spent \subseteq Messages
  BY DEF Locals
<1>2. CASE ~Differs(c)
  <2>1. Synced(c) = c
    BY <1>2 DEF Synced
  <2> QED BY <2>1 DEF SameCopy, ComparedFrom, Leaves
<1>3. CASE Differs(c)
  <2>1. Synced(c) = d
    BY <1>3 DEF Synced
  <2>2. kept \in Seq(Messages) /\ ToSet(kept) = ToSet(c.work) \ spent
    <3>1. kept \in Seq(Messages) /\ ToSet(kept) = ToSet(c.work) \cap (ToSet(c.work) \ spent)
      BY <1>1, OnlyKeeps
    <3> QED BY <3>1
  <2> HIDE DEF kept
  <2>3. ASSUME NEW m \in Messages
        PROVE  /\ Taken(c, m) \in Items /\ Taken(c, m).msg = m
               /\ Taken(c, m) \in ToSet(c.queue) \/ Taken(c, m).confirm \/ m \in c.live
    <3>1. CASE m \in Queued(c)
      <4>1. Taken(c, m) = ItemOf(c, m)
        BY <3>1 DEF Taken
      <4> QED BY <4>1, <3>1, ItemOfQueued
    <3>2. CASE m \notin Queued(c)
      <4> DEFINE b == m \notin c.live
      <4>1. Taken(c, m) = [msg |-> m, confirm |-> b]
        BY <3>2 DEF Taken
      <4>2. b \in BOOLEAN /\ (b \/ m \in c.live)
        OBVIOUS
      <4> HIDE DEF b
      <4>3. Taken(c, m) \in Items /\ Taken(c, m).msg = m /\ Taken(c, m).confirm = b
        BY <4>1, <4>2 DEF Items
      <4> QED BY <4>2, <4>3
    <3> QED BY <3>1, <3>2
  <2>4. DOMAIN kept = 1..Len(kept) /\ \A i \in 1..Len(kept) : kept[i] \in Messages
    BY <2>2
  <2>5. queue \in Seq(Items) /\ Len(queue) = Len(kept)
    <3>1. \A i \in 1..Len(kept) : Taken(c, kept[i]) \in Items
      BY <2>3, <2>4
    <3>2. queue = [i \in 1..Len(kept) |-> Taken(c, kept[i])] /\ Len(kept) \in Nat
      BY <2>2, <2>4
    <3> QED BY <3>1, <3>2
  <2>6. \A i \in 1..Len(kept) : queue[i] = Taken(c, kept[i])
    BY <2>4
  <2>7. DOMAIN queue = 1..Len(kept)
    BY <2>4
  <2> HIDE DEF queue
  <2>8. d.queue = queue /\ d.spent = spent /\ d.live = c.live /\ SameCopy(c, d) /\ d \in Locals
    <3>1. spent \subseteq Messages
      BY <1>1
    <3> HIDE DEF spent
    <3> QED BY <2>5, <3>1 DEF Locals, SameCopy
  <2>9. Queued(d) = ToSet(kept)
    <3>1. Queued(d) = {item.msg : item \in ToSet(queue)}
      BY <2>8, QueuedMsgs
    <3>2. \A i \in 1..Len(kept) : queue[i].msg = kept[i]
      BY <2>3, <2>4, <2>6
    <3> QED BY <3>1, <3>2, <2>4, <2>7 DEF ToSet
  <2>10. \A item \in ToSet(queue) : item \in ToSet(c.queue) \/ item.confirm \/ item.msg \in c.live
    <3>1. \A item \in ToSet(queue) : \E i \in 1..Len(kept) : item = Taken(c, kept[i])
      BY <2>6, <2>7 DEF ToSet
    <3> QED BY <3>1, <2>3, <2>4
  <2>11. ComparedFrom(c, d)
    BY <2>2, <2>8, <2>9, <2>10 DEF ComparedFrom
  <2>12. Leaves(c, d)
    BY <2>2, <2>8, <2>9 DEF Leaves
  <2> QED BY <2>1, <2>8, <2>11, <2>12
<1> QED BY <1>2, <1>3

\* updateThreadContent().
LEMMA PushedIds ==
    ASSUME NEW c \in Locals
    PROVE  LET d == Pushed(c) IN
           /\ d \in Locals
           /\ d.queue = c.queue /\ d.live = c.live /\ d.spent = c.spent
           /\ d.waiting = c.waiting /\ d.behind = c.behind
           /\ Ids(d.queue) = d.work
           /\ d.dirty \/ (d.work = c.work /\ d.dirty = c.dirty)
<1>1. c.queue \in Seq(Items) /\ Ids(c.queue) \in Seq(Messages)
  <2>1. c.queue \in Seq(Items)
    BY DEF Locals
  <2> QED BY <2>1, IdsOfQueue
<1> QED BY <1>1 DEF Pushed, Differs, Locals

\* What becomes of the window's queue when it changes to that of c.
Changes(c) ==
    /\ local' \in Locals /\ due' = FALSE
    /\ ComparedFrom(c, local')
    /\ \A m \in Queued(c) : m \in Queued(local') \/ m \in c.spent \/ (due /\ m \notin ToSet(c.work))
    /\ Ids(local'.queue) = local'.work /\ local'.waiting = c.waiting /\ local'.behind = c.behind
    /\ local'.dirty \/ (local'.work = c.work /\ local'.dirty = c.dirty)

LEMMA ChangeChanges ==
    ASSUME NEW c \in Locals, Change(c)
    PROVE  Changes(c)
<1> DEFINE d == IF due THEN Synced(c) ELSE c
<1>1. local' = Pushed(d) /\ due' = FALSE
  BY DEF Change
<1>2. d \in Locals /\ SameCopy(c, d) /\ ComparedFrom(c, d)
      /\ (\A m \in Queued(c) : m \in Queued(d) \/ m \in c.spent \/ (due /\ m \notin ToSet(c.work)))
  <2>1. CASE due
    BY <2>1, SyncedIds DEF Leaves
  <2>2. CASE ~due
    BY <2>2 DEF SameCopy, ComparedFrom
  <2> QED BY <2>1, <2>2
<1> HIDE DEF d
<1>3. /\ local' \in Locals
      /\ local'.queue = d.queue /\ local'.live = d.live /\ local'.spent = d.spent
      /\ local'.waiting = d.waiting /\ local'.behind = d.behind
      /\ Ids(local'.queue) = local'.work
      /\ local'.dirty \/ (local'.work = d.work /\ local'.dirty = d.dirty)
  BY <1>1, <1>2, PushedIds
<1>4. Queued(local') = Queued(d)
  BY <1>3 DEF Queued
<1> QED BY <1>1, <1>2, <1>3, <1>4 DEF Changes, ComparedFrom, SameCopy

-----------------------------------------------------------------------------
(***************************************************************************)
(* Type correctness.                                                       *)
(***************************************************************************)

\* What can be on its way to the window.
LEMMA OnTheWire ==
    /\ \A work \in Seq(Messages), answer \in BOOLEAN : [type |-> "state", work |-> work, answer |-> answer] \in Wire
    /\ Stale \in Wire /\ Refused \in Wire
    /\ \A r \in RunStates : Runs(r) \in Wire
    /\ \A ok \in BOOLEAN, r \in RunStates : Answer(ok, r) \in Wire
<1>1. \A work \in Seq(Messages), answer \in BOOLEAN :
         [type |-> "state", work |-> work, answer |-> answer] \in StateMessages
  BY DEF StateMessages
<1>2. \A r \in RunStates : Runs(r) \in RunMessages
  BY DEF Runs, RunMessages
<1>3. \A ok \in BOOLEAN, r \in RunStates : Answer(ok, r) \in SentMessages
  BY DEF Answer, SentMessages
<1> QED BY <1>1, <1>2, <1>3 DEF Wire

\* What the window makes of a message depends on its type.
LEMMA WireFields ==
    ASSUME NEW x \in Wire
    PROVE  /\ x.type \in {"state", "stale", "refused", "run", "sent"}
           /\ x.type = "state" => x.work \in Seq(Messages) /\ x.answer \in BOOLEAN
           /\ x.type = "run" => x.run \in RunStates
           /\ x.type = "sent" => x.ok \in BOOLEAN /\ x.run \in RunStates
<1>1. CASE x \in StateMessages
  BY <1>1 DEF StateMessages
<1>2. CASE x = Stale \/ x = Refused
  BY <1>2 DEF Stale, Refused
<1>3. CASE x \in RunMessages
  BY <1>3 DEF RunMessages
<1>4. CASE x \in SentMessages
  BY <1>4 DEF SentMessages
<1> QED BY <1>1, <1>2, <1>3, <1>4 DEF Wire

\* The parts of TypeOK that the queue and its copies are about, and the rest.
QueueTypeOK == local \in Locals /\ due \in BOOLEAN
SendTypeOK ==
    /\ composer \in [mounted : BOOLEAN, steer : Items \cup {None}, was : BOOLEAN, drain : BOOLEAN]
    /\ flying \subseteq Flights
    /\ request \in [pending : BOOLEAN, final : {"no", "drain", "plain"}, mine : BOOLEAN]
RunTypeOK ==
    /\ view \in RunStates /\ run \in RunStates /\ stopping \in BOOLEAN
    /\ left \in [{"send", "event", "elsewhere"} -> Nat]
StoreTypeOK == stored \in Seq(Messages) /\ older \in Seq(Messages)
WireTypeOK == down \in Seq(Wire)
HistoryTypeOK ==
    /\ written \in [Message -> {"never", "now", "before"}]
    /\ sent \subseteq Messages /\ promised \in BOOLEAN

LEMMA TypeParts ==
    TypeOK <=> QueueTypeOK /\ SendTypeOK /\ RunTypeOK /\ StoreTypeOK /\ WireTypeOK /\ HistoryTypeOK
BY DEF TypeOK, QueueTypeOK, SendTypeOK, RunTypeOK, StoreTypeOK, WireTypeOK, HistoryTypeOK

LEMMA HydratedTyped ==
    ASSUME NEW ids \in Seq(Messages)
    PROVE  /\ Hydrated(ids) \in Locals
           /\ Hydrated(ids).queue \in Seq(Items)
           /\ \A item \in ToSet(Hydrated(ids).queue) : item.confirm
           /\ Ids(Hydrated(ids).queue) = ids
           /\ Hydrated(ids).work = ids /\ Hydrated(ids).live = {} /\ Hydrated(ids).spent = {}
           /\ ~Hydrated(ids).dirty /\ ~Hydrated(ids).waiting
<1> DEFINE queue == [i \in DOMAIN ids |-> [msg |-> ids[i], confirm |-> TRUE]]
<1>1. DOMAIN ids = 1..Len(ids) /\ Len(ids) \in Nat /\ \A i \in 1..Len(ids) : ids[i] \in Messages
  OBVIOUS
<1>2. \A m \in Messages : [msg |-> m, confirm |-> TRUE] \in Items
  BY DEF Items
<1>3. queue \in Seq(Items) /\ Len(queue) = Len(ids) /\ DOMAIN queue = 1..Len(ids)
  <2>1. queue = [i \in 1..Len(ids) |-> [msg |-> ids[i], confirm |-> TRUE]]
    BY <1>1
  <2>2. \A i \in 1..Len(ids) : [msg |-> ids[i], confirm |-> TRUE] \in Items
    BY <1>1, <1>2
  <2> QED BY <1>1, <2>1, <2>2
<1>4. \A i \in 1..Len(ids) : queue[i].msg = ids[i] /\ queue[i].confirm
  BY <1>1
<1>5. Hydrated(ids) = [queue |-> queue, live |-> {}, spent |-> {}, work |-> ids, dirty |-> FALSE, waiting |-> FALSE,
                      behind |-> FALSE]
  BY DEF Hydrated
<1> HIDE DEF queue
<1>6. Ids(queue) = ids
  BY <1>1, <1>3, <1>4 DEF Ids
<1>7. \A item \in ToSet(queue) : item.confirm
  BY <1>3, <1>4 DEF ToSet
<1> QED BY <1>3, <1>5, <1>6, <1>7 DEF Locals

LEMMA InitTyped == Init => TypeOK
<1> SUFFICES ASSUME Init PROVE TypeOK
  OBVIOUS
<1>1. QueueTypeOK
  <2>1. <<>> \in Seq(Messages)
    OBVIOUS
  <2> QED BY <2>1, HydratedTyped DEF Init, QueueTypeOK
<1>2. SendTypeOK
  BY DEF Init, SendTypeOK, Here, Away, Quiet
<1>3. RunTypeOK
  <2>1. NoRun \in RunStates
    BY DEF NoRun, RunStates, Statuses
  <2>2. MaxSends \in Nat /\ MaxEvents \in Nat /\ MaxElsewhere \in Nat
    BY QueueConstants
  <2>3. left \in [{"send", "event", "elsewhere"} -> Nat]
    BY <2>2 DEF Init
  <2> QED BY <2>1, <2>3 DEF Init, RunTypeOK
<1>4. StoreTypeOK /\ WireTypeOK
  BY DEF Init, StoreTypeOK, WireTypeOK
<1>5. HistoryTypeOK
  BY DEF Init, HistoryTypeOK
<1> QED BY <1>1, <1>2, <1>3, <1>4, <1>5, TypeParts

\* The queue is typed wherever it changes.
LEMMA ChangeTyped ==
    ASSUME NEW c \in Locals, Change(c)
    PROVE  QueueTypeOK'
BY ChangeChanges DEF Changes, QueueTypeOK

\* A run that starts is the next one.
LEMMA StartRunTyped ==
    ASSUME RunTypeOK, NEW here \in BOOLEAN, StartRun(here)
    PROVE  /\ ~Live(run) /\ run' \in RunStates /\ stopping' \in BOOLEAN
           /\ run'.n = run.n + 1 /\ run'.here = here /\ Live(run')
<1>1. run.n \in Nat /\ "live" \in Statuses /\ stopping \in BOOLEAN
  BY DEF RunTypeOK, RunStates, Statuses
<1>2. ~Live(run) /\ run' = [n |-> run.n + 1, here |-> here, status |-> "live"] /\ stopping' = FALSE
  BY DEF StartRun
<1>3. run.n + 1 \in Nat
  BY <1>1
<1> QED BY <1>1, <1>2, <1>3 DEF RunStates, Live

\* The same flights, sent.
Sent(flights) == {[f EXCEPT !.sent = TRUE] : f \in flights}

LEMMA SentTyped ==
    ASSUME NEW flights \in SUBSET Flights
    PROVE  /\ Sent(flights) \subseteq Flights
           /\ \A g \in Sent(flights) : g.sent /\ \E f \in flights : g.item = f.item /\ g.how = f.how
           /\ \A f \in flights : \E g \in Sent(flights) : g.item = f.item
<1>1. ASSUME NEW f \in flights
      PROVE  LET g == [f EXCEPT !.sent = TRUE] IN g \in Flights /\ g.sent /\ g.item = f.item /\ g.how = f.how
  BY DEF Flights
<1> QED BY <1>1 DEF Sent

\* A send is made while nothing is sent and no run is live; it is accepted or refused.
Asks(flights, mounted) ==
    /\ ~request.pending /\ ~Live(view) /\ request.final = "no"
    /\ request'.pending /\ request'.final = "no" /\ request'.mine = mounted
    /\ flying' = (flying \ flights) \cup Sent(flights)
    /\ view' = view /\ stored' = stored /\ older' = older
    /\ written' = written /\ promised' = promised
    /\ \/ /\ StartRun(TRUE) /\ down' = Append(down, Answer(TRUE, run'))
          /\ sent' = sent \cup {f.item.msg : f \in flights}
       \/ run' = run /\ stopping' = stopping /\ down' = Append(down, Answer(FALSE, NoRun)) /\ sent' = sent

LEMMA BeginAsks ==
    ASSUME TypeOK, NEW flights \in SUBSET Flights, NEW mounted \in BOOLEAN, Begin(flights, mounted)
    PROVE  /\ Asks(flights, mounted)
           /\ request' \in [pending : BOOLEAN, final : {"no", "drain", "plain"}, mine : BOOLEAN]
           /\ flying' \subseteq Flights
           /\ RunTypeOK' /\ StoreTypeOK' /\ WireTypeOK' /\ HistoryTypeOK'
<1>1. QueueTypeOK /\ SendTypeOK /\ RunTypeOK /\ StoreTypeOK /\ WireTypeOK /\ HistoryTypeOK
  BY TypeParts
<1>2. flying' = (flying \ flights) \cup Sent(flights)
  BY DEF Begin, Sent
<1>3. flying' \subseteq Flights
  BY <1>1, <1>2, SentTyped DEF SendTypeOK
<1>4. /\ ~request.pending /\ ~Live(view) /\ request.final = "no"
      /\ view' = view /\ stored' = stored /\ older' = older
      /\ written' = written /\ promised' = promised
  BY DEF Begin, MayBegin, Sending, appState
<1>5. /\ request' \in [pending : BOOLEAN, final : {"no", "drain", "plain"}, mine : BOOLEAN]
      /\ request'.pending /\ request'.final = "no" /\ request'.mine = mounted
  <2>1. request' = [request EXCEPT !.pending = TRUE, !.mine = mounted]
    BY DEF Begin
  <2> QED BY <1>1, <1>4, <2>1 DEF SendTypeOK
<1>6. \/ /\ StartRun(TRUE) /\ down' = Append(down, Answer(TRUE, run'))
         /\ sent' = sent \cup {f.item.msg : f \in flights} /\ Spend("send")
      \/ /\ run' = run /\ stopping' = stopping /\ down' = Append(down, Answer(FALSE, NoRun)) /\ sent' = sent
         /\ left' = [left EXCEPT !.send = @ - 1, !.event = IF Live(run) THEN @ ELSE @ - 1]
         /\ Live(run) \/ left.event > 0
  BY DEF Begin, runs
<1>7. left.send > 0
  BY DEF Begin
<1>8. \A f \in flights : f.item.msg \in Messages
  BY DEF Flights, Items
<1>9. run' \in RunStates /\ stopping' \in BOOLEAN /\ down' \in Seq(Wire) /\ sent' \subseteq Messages
  <2>1. CASE StartRun(TRUE) /\ down' = Append(down, Answer(TRUE, run')) /\ sent' = sent \cup {f.item.msg : f \in flights}
    <3>1. run' \in RunStates /\ stopping' \in BOOLEAN
      BY <1>1, <2>1, StartRunTyped
    <3>2. Answer(TRUE, run') \in Wire
      BY <3>1, OnTheWire
    <3>3. down' \in Seq(Wire)
      BY <1>1, <2>1, <3>2, SetOfAppend DEF WireTypeOK
    <3>4. sent' \subseteq Messages
      BY <1>1, <1>8, <2>1 DEF HistoryTypeOK
    <3> QED BY <3>1, <3>3, <3>4
  <2>2. CASE run' = run /\ stopping' = stopping /\ down' = Append(down, Answer(FALSE, NoRun)) /\ sent' = sent
    <3>1. NoRun \in RunStates
      BY DEF NoRun, RunStates, Statuses
    <3>2. Answer(FALSE, NoRun) \in Wire
      BY <3>1, OnTheWire
    <3>3. down' \in Seq(Wire)
      BY <1>1, <2>2, <3>2, SetOfAppend DEF WireTypeOK
    <3>4. sent' \subseteq Messages /\ run' \in RunStates /\ stopping' \in BOOLEAN
      BY <1>1, <2>2 DEF HistoryTypeOK, RunTypeOK
    <3> QED BY <3>3, <3>4
  <2> QED BY <1>6, <2>1, <2>2
<1>10. left' \in [{"send", "event", "elsewhere"} -> Nat]
  <2>1. left \in [{"send", "event", "elsewhere"} -> Nat]
    BY <1>1 DEF RunTypeOK
  <2>2. left["send"] > 0
    BY <1>7
  <2>3. \A k \in {"send", "event", "elsewhere"} : left[k] \in Nat
    BY <2>1
  <2>4. CASE left' = [left EXCEPT !["send"] = @ - 1]
    <3>1. \A k \in {"send", "event", "elsewhere"} : left'[k] = IF k = "send" THEN left[k] - 1 ELSE left[k]
      BY <2>1, <2>4
    <3>2. left' = [k \in {"send", "event", "elsewhere"} |-> left'[k]]
      BY <2>1, <2>4
    <3>3. \A k \in {"send", "event", "elsewhere"} : left'[k] \in Nat
      BY <2>2, <2>3, <3>1
    <3> QED BY <3>2, <3>3
  <2>5. CASE left' = [left EXCEPT !["send"] = @ - 1, !["event"] = IF Live(run) THEN @ ELSE @ - 1]
             /\ (Live(run) \/ left["event"] > 0)
    <3>1. \A k \in {"send", "event", "elsewhere"} :
            left'[k] = IF k = "send" \/ (k = "event" /\ ~Live(run)) THEN left[k] - 1 ELSE left[k]
      BY <2>1, <2>5
    <3>2. left' = [k \in {"send", "event", "elsewhere"} |-> left'[k]]
      BY <2>1, <2>5
    <3>3. \A k \in {"send", "event", "elsewhere"} : left'[k] \in Nat
      <4>1. Live(run) \/ left["event"] > 0
        BY <2>5
      <4> QED BY <2>2, <2>3, <3>1, <4>1
    <3> QED BY <3>2, <3>3
  <2> QED BY <1>6, <2>4, <2>5 DEF Spend
<1>11. RunTypeOK' /\ StoreTypeOK' /\ WireTypeOK' /\ HistoryTypeOK'
  <2>1. RunTypeOK'
    BY <1>1, <1>4, <1>9, <1>10 DEF RunTypeOK
  <2>2. StoreTypeOK' /\ WireTypeOK'
    BY <1>1, <1>4, <1>9 DEF StoreTypeOK, WireTypeOK
  <2>3. HistoryTypeOK'
    BY <1>1, <1>4, <1>9 DEF HistoryTypeOK
  <2> QED BY <2>1, <2>2, <2>3
<1> QED BY <1>2, <1>3, <1>4, <1>5, <1>6, <1>11 DEF Asks

\* Every step keeps the types.
LEMMA SpendTyped ==
    ASSUME RunTypeOK, NEW what \in {"send", "event", "elsewhere"}, Spend(what)
    PROVE  left' \in [{"send", "event", "elsewhere"} -> Nat]
<1>1. left \in [{"send", "event", "elsewhere"} -> Nat] /\ left[what] > 0 /\ left' = [left EXCEPT ![what] = @ - 1]
  BY DEF RunTypeOK, Spend
<1>2. \A k \in {"send", "event", "elsewhere"} : left'[k] = IF k = what THEN left[k] - 1 ELSE left[k]
  BY <1>1
<1>3. left' = [k \in {"send", "event", "elsewhere"} |-> left'[k]]
  BY <1>1
<1>4. \A k \in {"send", "event", "elsewhere"} : left'[k] \in Nat
  BY <1>1, <1>2
<1> QED BY <1>3, <1>4

LEMMA NotBegunTyped ==
    ASSUME RunTypeOK, StoreTypeOK, WireTypeOK, HistoryTypeOK, NotBegun
    PROVE  /\ RunTypeOK' /\ StoreTypeOK' /\ WireTypeOK' /\ HistoryTypeOK'
           /\ UNCHANGED <<request, view, down, appState, runs, history>>
<1>1. UNCHANGED <<request, view, down, appState, runs, history>> /\ (UNCHANGED left \/ Spend("event"))
  BY DEF NotBegun
<1>2. left' \in [{"send", "event", "elsewhere"} -> Nat]
  BY <1>1, SpendTyped DEF RunTypeOK
<1> QED BY <1>1, <1>2 DEF RunTypeOK, StoreTypeOK, WireTypeOK, HistoryTypeOK, appState, runs, history

\* The queue after each of its operations.
LEMMA OperationsTyped ==
    ASSUME QueueTypeOK
    PROVE  /\ local \in Locals
           /\ \A m \in Message : Enqueued(local, m) \in Locals
           /\ \A m \in Messages : Removed(local, m) \in Locals
           /\ local.queue # <<>> => Shifted(local) \in Locals
           /\ \A item \in Items : Unshifted(local, item) \in Locals
           /\ \A m \in Messages, item \in Items : Unshifted(Removed(local, m), item) \in Locals
<1>1. local \in Locals
  BY DEF QueueTypeOK
<1>2. \A m \in Messages : Removed(local, m) \in Locals
  BY <1>1, RemovedIds
<1> QED BY <1>1, <1>2, EnqueuedIds, ShiftedIds, UnshiftedIds

\* A message that is queued is one of the messages, and its item one of the items.
LEMMA FlightTyped ==
    ASSUME NEW item \in Items, NEW how \in {"auto", "steer", "now"}
    PROVE  /\ Flight(item, how) \in Flights
           /\ Flight(item, how).item = item /\ Flight(item, how).how = how /\ ~Flight(item, how).sent
BY DEF Flight, Flights

LEMMA TypeStep == TypeOK /\ [Next]_vars => TypeOK'
<1> SUFFICES ASSUME TypeOK, [Next]_vars PROVE QueueTypeOK' /\ SendTypeOK' /\ RunTypeOK' /\ StoreTypeOK' /\ WireTypeOK' /\ HistoryTypeOK'
  BY TypeParts DEF TypeOK, QueueTypeOK, SendTypeOK, RunTypeOK, StoreTypeOK, WireTypeOK, HistoryTypeOK
<1> USE DEF copies, appState, runs, history
<1>a. QueueTypeOK /\ SendTypeOK /\ RunTypeOK /\ StoreTypeOK /\ WireTypeOK /\ HistoryTypeOK
  BY TypeParts
<1>b. /\ local \in Locals
      /\ \A m \in Message : Enqueued(local, m) \in Locals
      /\ \A m \in Messages : Removed(local, m) \in Locals
      /\ local.queue # <<>> => Shifted(local) \in Locals
      /\ \A item \in Items : Unshifted(local, item) \in Locals
      /\ \A m \in Messages, item \in Items : Unshifted(Removed(local, m), item) \in Locals
  BY <1>a, OperationsTyped
<1>c. composer \in [mounted : BOOLEAN, steer : Items \cup {None}, was : BOOLEAN, drain : BOOLEAN]
  BY <1>a DEF SendTypeOK
<1>1. CASE PassiveEffects
  <2>1. Change(local)
    BY <1>1 DEF PassiveEffects
  <2>2. QueueTypeOK'
    BY <1>b, <2>1, ChangeTyped
  <2>3. SendTypeOK' /\ RunTypeOK' /\ StoreTypeOK' /\ WireTypeOK' /\ HistoryTypeOK'
    BY <1>a, <1>1 DEF PassiveEffects, SendTypeOK, RunTypeOK, StoreTypeOK, WireTypeOK, HistoryTypeOK
  <2> QED BY <2>2, <2>3
<1>2. CASE Submit
  <2>1. QueueTypeOK'
    BY <1>a, <1>2 DEF Submit, QueueTypeOK, Locals
  <2>2. SendTypeOK' /\ RunTypeOK' /\ HistoryTypeOK'
    <3>1. UNCHANGED <<composer, flying, request, view, runs, history>> /\ (left' = left \/ Spend("event"))
      BY <1>2 DEF Submit
    <3>2. left' \in [{"send", "event", "elsewhere"} -> Nat]
      BY <1>a, <3>1, SpendTyped DEF RunTypeOK
    <3> QED BY <1>a, <3>1, <3>2 DEF SendTypeOK, RunTypeOK, HistoryTypeOK
  <2>3. local.work \in Seq(Messages)
    BY <1>b DEF Locals
  <2>4. CASE Store(local.work) /\ down' = Append(down, State(TRUE))
    <3>1. stored' \in Seq(Messages) /\ older' \in Seq(Messages)
      BY <1>a, <2>3, <2>4 DEF Store, StoreTypeOK
    <3>2. State(TRUE) \in Wire
      BY <3>1, OnTheWire DEF State
    <3> QED BY <1>a, <2>1, <2>2, <2>4, <3>1, <3>2, SetOfAppend DEF StoreTypeOK, WireTypeOK
  <2>5. ASSUME NEW x \in {Stale, Refused}, down' = Append(down, x), UNCHANGED appState
        PROVE  QueueTypeOK' /\ SendTypeOK' /\ RunTypeOK' /\ StoreTypeOK' /\ WireTypeOK' /\ HistoryTypeOK'
    <3>1. x \in Wire
      BY OnTheWire
    <3> QED BY <1>a, <2>1, <2>2, <2>5, <3>1, SetOfAppend DEF StoreTypeOK, WireTypeOK
  <2> QED BY <1>2, <2>4, <2>5 DEF Submit
<1>3. ASSUME NEW type, Arrives(type) PROVE Head(down) \in Wire /\ Head(down).type = type /\ WireTypeOK'
  <2>1. down \in Seq(Wire) /\ down # <<>> /\ down' = Tail(down) /\ Head(down).type = type
    BY <1>a, <1>3 DEF Arrives, WireTypeOK
  <2> QED BY <2>1, SetOfTail DEF WireTypeOK
<1>4. CASE ReceiveState
  <2>1. Arrives("state") /\ UNCHANGED <<composer, flying, request, view, appState, runs, left, history>>
    BY <1>4 DEF ReceiveState
  <2>2. WireTypeOK' /\ Head(down).work \in Seq(Messages) /\ Head(down).answer \in BOOLEAN
    BY <1>3, <2>1, WireFields
  <2>3. SendTypeOK' /\ RunTypeOK' /\ StoreTypeOK' /\ HistoryTypeOK'
    BY <1>a, <2>1 DEF SendTypeOK, RunTypeOK, StoreTypeOK, HistoryTypeOK
  <2>4. QueueTypeOK'
    <3> DEFINE kept == local.dirty \/ local.waiting
               late == due /\ Differs(local)
               before == IF late THEN Synced(local) ELSE local
               next == [before EXCEPT !.work = IF kept THEN @ ELSE Head(down).work,
                                      !.waiting = @ /\ ~Head(down).answer,
                                      !.behind = @ /\ kept]
    <3>1. local' = (IF late THEN Pushed(next) ELSE next) /\ due' = ~late
      BY <1>4 DEF ReceiveState
    <3>2. before \in Locals
      BY <1>b, SyncedIds
    <3>3. next \in Locals
      <4> HIDE DEF before, kept
      <4> QED BY <2>2, <3>2 DEF Locals
    <3> HIDE DEF next, late
    <3>4. local' \in Locals
      BY <3>1, <3>3, PushedIds
    <3>5. late \in BOOLEAN
      BY <1>a DEF late, Differs, QueueTypeOK
    <3> QED BY <3>1, <3>4, <3>5 DEF QueueTypeOK
  <2> QED BY <2>2, <2>3, <2>4
<1>5. CASE ReceiveStale \/ ReceiveRefused
  <2>1. /\ Arrives("stale") \/ Arrives("refused")
        /\ UNCHANGED <<due, composer, flying, request, view, appState, runs, left, history>>
    BY <1>5 DEF ReceiveStale, ReceiveRefused
  <2>2. QueueTypeOK'
    BY <1>a, <1>5 DEF ReceiveStale, ReceiveRefused, QueueTypeOK, Locals
  <2>3. SendTypeOK' /\ RunTypeOK' /\ StoreTypeOK' /\ HistoryTypeOK'
    BY <1>a, <2>1 DEF SendTypeOK, RunTypeOK, StoreTypeOK, HistoryTypeOK
  <2> QED BY <1>3, <2>1, <2>2, <2>3
<1>6. CASE ReceiveSent
  <2> DEFINE flights == {f \in flying : f.sent}
             item == (CHOOSE f \in flights : TRUE).item
             ok == Head(down).ok
  <2>1. /\ Arrives("sent") /\ UNCHANGED <<composer, appState, runs, left, history>>
        /\ view' = (IF ok THEN Head(down).run ELSE view)
        /\ request' = [request EXCEPT !.pending = @ /\ ok] /\ flying' = flying \ flights
    BY <1>6 DEF ReceiveSent
  <2>2. WireTypeOK' /\ ok \in BOOLEAN /\ Head(down).run \in RunStates
    BY <1>3, <2>1, WireFields
  <2>3. flying' \subseteq Flights /\ (flights # {} => item \in Items /\ item.msg \in Messages)
    BY <1>a, <2>1 DEF SendTypeOK, Flights, Items
  <2>4. RunTypeOK' /\ StoreTypeOK' /\ HistoryTypeOK'
    BY <1>a, <2>1, <2>2 DEF RunTypeOK, StoreTypeOK, HistoryTypeOK
  <2>5. SendTypeOK'
    <3>1. request' \in [pending : BOOLEAN, final : {"no", "drain", "plain"}, mine : BOOLEAN]
      <4> HIDE DEF ok
      <4> QED BY <1>a, <2>1, <2>2 DEF SendTypeOK
    <3> QED BY <1>c, <2>1, <2>3, <3>1 DEF SendTypeOK
  <2>6. QueueTypeOK'
    <3>1. \/ UNCHANGED copies
          \/ flights # {} /\ Change(IF ok THEN Removed(local, item.msg) ELSE Unshifted(local, item))
      BY <1>6 DEF ReceiveSent
    <3>2. CASE UNCHANGED copies
      BY <1>a, <3>2 DEF QueueTypeOK
    <3>3. CASE flights # {} /\ Change(IF ok THEN Removed(local, item.msg) ELSE Unshifted(local, item))
      <4>1. (IF ok THEN Removed(local, item.msg) ELSE Unshifted(local, item)) \in Locals
        BY <1>b, <2>3, <3>3
      <4> QED BY <3>3, <4>1, ChangeTyped
    <3> QED BY <3>1, <3>2, <3>3
  <2> QED BY <2>2, <2>4, <2>5, <2>6
<1>7. CASE ReceiveRun
  <2> DEFINE r == Head(down).run
             ends == ~Live(r) /\ request.pending /\ r.here
             drains == r.status = "completed" \/ (r.status = "cancelled" /\ request.mine /\ composer.steer # None)
             failed == ends /\ r.status = "failed"
  <2>1. /\ Arrives("run") /\ UNCHANGED <<flying, appState, runs, left, history>>
        /\ view' = r
        /\ request' = IF ~ends THEN request
                      ELSE [request EXCEPT !.pending = FALSE, !.final = IF drains THEN "drain" ELSE "plain"]
        /\ composer' = IF failed /\ request.mine THEN [composer EXCEPT !.drain = FALSE, !.steer = None] ELSE composer
    BY <1>7 DEF ReceiveRun
  <2>2. WireTypeOK' /\ r \in RunStates
    BY <1>3, <2>1, WireFields
  <2>3. RunTypeOK' /\ StoreTypeOK' /\ HistoryTypeOK'
    BY <1>a, <2>1, <2>2 DEF RunTypeOK, StoreTypeOK, HistoryTypeOK
  <2>4. SendTypeOK'
    <3> HIDE DEF ends, drains, failed
    <3> QED BY <1>a, <2>1 DEF SendTypeOK
  <2>5. QueueTypeOK'
    <3>1. \/ UNCHANGED copies
          \/ composer.steer # None /\ Change(Unshifted(local, composer.steer))
      BY <1>7 DEF ReceiveRun
    <3>2. composer.steer # None => composer.steer \in Items
      BY <1>c
    <3> QED BY <1>a, <1>b, <3>1, <3>2, ChangeTyped DEF QueueTypeOK
  <2> QED BY <2>2, <2>3, <2>4, <2>5
<1>8. CASE SendDirectly
  <2>1. Begin({}, TRUE) /\ UNCHANGED <<copies, composer>>
    BY <1>8 DEF SendDirectly
  <2>2. /\ request' \in [pending : BOOLEAN, final : {"no", "drain", "plain"}, mine : BOOLEAN]
        /\ flying' \subseteq Flights
        /\ RunTypeOK' /\ StoreTypeOK' /\ WireTypeOK' /\ HistoryTypeOK'
    <3>1. {} \in SUBSET Flights
      OBVIOUS
    <3> QED BY <2>1, <3>1, BeginAsks
  <2> QED BY <1>a, <2>1, <2>2 DEF QueueTypeOK, SendTypeOK
<1>9. CASE ComposerEffect
  <2>1. RunTypeOK' /\ StoreTypeOK' /\ WireTypeOK' /\ HistoryTypeOK' /\ request' = request
    BY <1>a, <1>9 DEF ComposerEffect, RunTypeOK, StoreTypeOK, WireTypeOK, HistoryTypeOK
  <2>2. composer' \in [mounted : BOOLEAN, steer : Items \cup {None}, was : BOOLEAN, drain : BOOLEAN]
    <3>1. \/ composer' = [composer EXCEPT !.was = TRUE]
          \/ composer' = [composer EXCEPT !.was = FALSE]
          \/ composer' = [composer EXCEPT !.was = FALSE, !.drain = FALSE, !.steer = None]
      BY <1>9 DEF ComposerEffect
    <3> QED BY <1>c, <3>1
  <2>3. \/ UNCHANGED <<copies, flying>>
        \/ /\ composer.steer # None /\ UNCHANGED copies
           /\ flying' = flying \cup {Flight(composer.steer, "steer")}
        \/ /\ Shiftable(local) /\ Change(Shifted(local))
           /\ flying' = flying \cup {Flight(Head(local.queue), "auto")}
    BY <1>9 DEF ComposerEffect
  <2>4. local.queue # <<>> => Head(local.queue) \in Items
    BY <1>b, ShiftedIds
  <2>5. flying' \subseteq Flights
    <3>1. flying \subseteq Flights
      BY <1>a DEF SendTypeOK
    <3>2. composer.steer # None => Flight(composer.steer, "steer") \in Flights
      BY <1>c, FlightTyped
    <3>3. Shiftable(local) => Flight(Head(local.queue), "auto") \in Flights
      BY <2>4, FlightTyped DEF Shiftable
    <3> QED BY <2>3, <3>1, <3>2, <3>3
  <2>6. QueueTypeOK'
    <3>1. Shiftable(local) => Shifted(local) \in Locals
      BY <1>b DEF Shiftable
    <3> QED BY <1>a, <2>3, <3>1, ChangeTyped DEF QueueTypeOK
  <2>7. SendTypeOK'
    BY <1>a, <2>1, <2>2, <2>5 DEF SendTypeOK
  <2> QED BY <2>1, <2>6, <2>7
<1>10. CASE HandleSend
  <2>1. PICK f \in flying : /\ ~f.sent
                            /\ \/ Begin({f}, f.mounted) /\ UNCHANGED copies
                               \/ NotBegun /\ flying' = flying \ {f} /\ Change(Unshifted(local, f.item))
    BY <1>10 DEF HandleSend
  <2>2. f \in Flights /\ {f} \in SUBSET Flights /\ f.mounted \in BOOLEAN /\ f.item \in Items /\ composer' = composer
    BY <1>a, <1>10, <2>1 DEF SendTypeOK, Flights, HandleSend
  <2>3. CASE Begin({f}, f.mounted) /\ UNCHANGED copies
    <3>1. /\ request' \in [pending : BOOLEAN, final : {"no", "drain", "plain"}, mine : BOOLEAN]
          /\ flying' \subseteq Flights
          /\ RunTypeOK' /\ StoreTypeOK' /\ WireTypeOK' /\ HistoryTypeOK'
      BY <2>2, <2>3, BeginAsks
    <3> QED BY <1>a, <2>2, <2>3, <3>1 DEF QueueTypeOK, SendTypeOK
  <2>4. CASE NotBegun /\ flying' = flying \ {f} /\ Change(Unshifted(local, f.item))
    <3>1. QueueTypeOK'
      BY <1>b, <2>2, <2>4, ChangeTyped
    <3>2. RunTypeOK' /\ StoreTypeOK' /\ WireTypeOK' /\ HistoryTypeOK' /\ request' = request
      BY <1>a, <2>4, NotBegunTyped
    <3> QED BY <1>a, <2>2, <2>4, <3>1, <3>2 DEF SendTypeOK
  <2> QED BY <2>1, <2>3, <2>4
<1>11. ASSUME NEW m \in Message, Compose(m) PROVE QueueTypeOK' /\ SendTypeOK' /\ RunTypeOK' /\ StoreTypeOK' /\ WireTypeOK' /\ HistoryTypeOK'
  <2>1. Change(Enqueued(local, m)) /\ written' = [written EXCEPT ![m] = "now"]
    BY <1>11 DEF Compose
  <2>2. QueueTypeOK'
    BY <1>b, <2>1, ChangeTyped
  <2>3. HistoryTypeOK'
    BY <1>a, <1>11, <2>1 DEF Compose, HistoryTypeOK
  <2>4. SendTypeOK' /\ RunTypeOK' /\ StoreTypeOK' /\ WireTypeOK'
    BY <1>a, <1>11 DEF Compose, SendTypeOK, RunTypeOK, StoreTypeOK, WireTypeOK
  <2> QED BY <2>2, <2>3, <2>4
<1>12. ASSUME NEW m \in Messages, Steer(m) PROVE QueueTypeOK' /\ SendTypeOK' /\ RunTypeOK' /\ StoreTypeOK' /\ WireTypeOK' /\ HistoryTypeOK'
  <2>1. Change(Removed(local, m)) /\ composer' = [composer EXCEPT !.steer = ItemOf(local, m)] /\ m \in Queued(local)
    BY <1>12 DEF Steer
  <2>2. ItemOf(local, m) \in Items
    BY <1>b, <2>1, ItemOfQueued
  <2>3. QueueTypeOK'
    BY <1>b, <2>1, ChangeTyped
  <2>4. SendTypeOK'
    BY <1>a, <1>12, <2>1, <2>2 DEF Steer, SendTypeOK
  <2>5. StoreTypeOK' /\ WireTypeOK'
    BY <1>a, <1>12 DEF Steer, StoreTypeOK, WireTypeOK
  <2>6. RunTypeOK'
    <3>1. /\ stopping' = (stopping \/ (Live(run) /\ view = run))
          /\ UNCHANGED <<view, run, left>>
      BY <1>12 DEF Steer
    <3>2. stopping' \in BOOLEAN
      BY <1>a, <3>1 DEF RunTypeOK
    <3> QED BY <1>a, <3>1, <3>2 DEF RunTypeOK
  <2>7. HistoryTypeOK'
    <3>1. /\ promised' = (request.pending /\ request.mine /\ Live(view) /\ view.here)
          /\ UNCHANGED <<written, sent>>
      BY <1>12 DEF Steer
    <3>2. promised' \in BOOLEAN
      BY <1>a, <3>1 DEF SendTypeOK
    <3> QED BY <1>a, <3>1, <3>2 DEF HistoryTypeOK
  <2> QED BY <2>3, <2>4, <2>5, <2>6, <2>7
<1>13. ASSUME NEW m \in Messages, SendNow(m) PROVE QueueTypeOK' /\ SendTypeOK' /\ RunTypeOK' /\ StoreTypeOK' /\ WireTypeOK' /\ HistoryTypeOK'
  <2> DEFINE item == ItemOf(local, m)
             c == Removed(local, m)
  <2>1. /\ m \in Queued(local) /\ composer' = composer
        /\ \/ Begin({Flight(item, "now")}, TRUE) /\ Change(c)
           \/ NotBegun /\ Change(Unshifted(c, item)) /\ UNCHANGED flying
    BY <1>13 DEF SendNow
  <2>2. item \in Items /\ c \in Locals /\ Unshifted(c, item) \in Locals
    BY <1>b, <2>1, ItemOfQueued
  <2> HIDE DEF item, c
  <2>3. QueueTypeOK'
    BY <2>1, <2>2, ChangeTyped
  <2>4. CASE Begin({Flight(item, "now")}, TRUE)
    <3>1. {Flight(item, "now")} \in SUBSET Flights
      BY <2>2, FlightTyped
    <3>2. /\ request' \in [pending : BOOLEAN, final : {"no", "drain", "plain"}, mine : BOOLEAN]
          /\ flying' \subseteq Flights
          /\ RunTypeOK' /\ StoreTypeOK' /\ WireTypeOK' /\ HistoryTypeOK'
      BY <2>4, <3>1, BeginAsks
    <3> QED BY <1>a, <2>1, <2>3, <3>2 DEF SendTypeOK
  <2>5. CASE NotBegun /\ UNCHANGED flying
    <3>1. RunTypeOK' /\ StoreTypeOK' /\ WireTypeOK' /\ HistoryTypeOK' /\ request' = request
      BY <1>a, <2>5, NotBegunTyped
    <3> QED BY <1>a, <2>1, <2>3, <2>5, <3>1 DEF SendTypeOK
  <2> QED BY <2>1, <2>4, <2>5
<1>14. ASSUME NEW m \in Messages, Delete(m) PROVE QueueTypeOK' /\ SendTypeOK' /\ RunTypeOK' /\ StoreTypeOK' /\ WireTypeOK' /\ HistoryTypeOK'
  <2>1. QueueTypeOK'
    BY <1>b, <1>14, ChangeTyped DEF Delete
  <2>2. SendTypeOK' /\ RunTypeOK' /\ StoreTypeOK' /\ WireTypeOK' /\ HistoryTypeOK'
    BY <1>a, <1>14 DEF Delete, SendTypeOK, RunTypeOK, StoreTypeOK, WireTypeOK, HistoryTypeOK
  <2> QED BY <2>1, <2>2
<1>15. CASE Stop \/ CaptureDone \/ Enter
  <2>1. QueueTypeOK' /\ StoreTypeOK' /\ WireTypeOK' /\ HistoryTypeOK'
    BY <1>a, <1>15 DEF Stop, CaptureDone, Enter, QueueTypeOK, StoreTypeOK, WireTypeOK, HistoryTypeOK
  <2>2. RunTypeOK'
    BY <1>a, <1>15 DEF Stop, CaptureDone, Enter, RunTypeOK
  <2>3. SendTypeOK'
    BY <1>a, <1>15 DEF Stop, CaptureDone, Enter, SendTypeOK, Here, Away
  <2> QED BY <2>1, <2>2, <2>3
<1>16. ASSUME NEW status \in {"completed", "failed", "cancelled"}, FinishRun(status)
       PROVE  QueueTypeOK' /\ SendTypeOK' /\ RunTypeOK' /\ StoreTypeOK' /\ WireTypeOK' /\ HistoryTypeOK'
  <2>1. run' = [run EXCEPT !.status = status] /\ stopping' = FALSE /\ down' = Append(down, Runs(run'))
        /\ UNCHANGED <<copies, composer, flying, request, view, appState, left, history>>
    BY <1>16 DEF FinishRun
  <2>2. run' \in RunStates
    BY <1>a, <2>1 DEF RunTypeOK, RunStates, Statuses
  <2>3. WireTypeOK'
    BY <1>a, <2>1, <2>2, OnTheWire, SetOfAppend DEF WireTypeOK
  <2>4. RunTypeOK'
    BY <1>a, <2>1, <2>2 DEF RunTypeOK
  <2> QED BY <1>a, <2>1, <2>3, <2>4 DEF QueueTypeOK, SendTypeOK, StoreTypeOK, HistoryTypeOK
<1>17. CASE RunElsewhere
  <2>1. Spend("send") /\ StartRun(FALSE) /\ down' = Append(down, Runs(run'))
        /\ UNCHANGED <<copies, composer, flying, request, view, appState, history>>
    BY <1>17 DEF RunElsewhere
  <2>2. run' \in RunStates /\ stopping' \in BOOLEAN
    BY <1>a, <2>1, StartRunTyped
  <2>3. WireTypeOK'
    BY <1>a, <2>1, <2>2, OnTheWire, SetOfAppend DEF WireTypeOK
  <2>4. RunTypeOK'
    BY <1>a, <2>1, <2>2, SpendTyped DEF RunTypeOK
  <2> QED BY <1>a, <2>1, <2>3, <2>4 DEF QueueTypeOK, SendTypeOK, StoreTypeOK, HistoryTypeOK
<1>18. CASE Leave
  <2>1. /\ composer' = Away /\ request' = [request EXCEPT !.mine = FALSE]
        /\ flying' = {[f EXCEPT !.mounted = FALSE] : f \in flying} /\ Spend("event")
        /\ UNCHANGED <<view, down, appState, runs, history>>
        /\ UNCHANGED copies \/ (composer.steer # None /\ Change(Unshifted(local, composer.steer)))
    BY <1>18 DEF Leave
  <2>2. QueueTypeOK'
    <3>1. composer.steer # None => composer.steer \in Items
      BY <1>c
    <3> QED BY <1>a, <1>b, <2>1, <3>1, ChangeTyped DEF QueueTypeOK
  <2>3. SendTypeOK'
    <3>1. \A f \in flying : [f EXCEPT !.mounted = FALSE] \in Flights
      BY <1>a DEF SendTypeOK, Flights
    <3>2. request' \in [pending : BOOLEAN, final : {"no", "drain", "plain"}, mine : BOOLEAN]
      BY <1>a, <2>1 DEF SendTypeOK
    <3>3. composer' \in [mounted : BOOLEAN, steer : Items \cup {None}, was : BOOLEAN, drain : BOOLEAN]
      BY <2>1 DEF Away
    <3> QED BY <2>1, <3>1, <3>2, <3>3 DEF SendTypeOK
  <2>4. RunTypeOK'
    BY <1>a, <2>1, SpendTyped DEF RunTypeOK
  <2> QED BY <1>a, <2>1, <2>2, <2>3, <2>4 DEF StoreTypeOK, WireTypeOK, HistoryTypeOK
<1>19. CASE Reopen
  <2>1. /\ Spend("event") /\ local' = Hydrated(stored) /\ due' = FALSE
        /\ composer' = Here /\ flying' = {} /\ request' = Quiet
        /\ view' = run /\ down' = <<>>
        /\ written' = [m \in Message |-> IF written[m] = "now" THEN "before" ELSE written[m]]
        /\ UNCHANGED <<appState, runs, sent, promised>>
    BY <1>19 DEF Reopen
  <2>2. QueueTypeOK'
    BY <1>a, <2>1, HydratedTyped DEF QueueTypeOK, StoreTypeOK
  <2>3. SendTypeOK'
    BY <2>1 DEF SendTypeOK, Here, Away, Quiet
  <2>4. RunTypeOK'
    BY <1>a, <2>1, SpendTyped DEF RunTypeOK
  <2>5. HistoryTypeOK'
    BY <1>a, <2>1 DEF HistoryTypeOK
  <2>6. StoreTypeOK' /\ WireTypeOK'
    BY <1>a, <2>1 DEF StoreTypeOK, WireTypeOK
  <2> QED BY <2>2, <2>3, <2>4, <2>5, <2>6
<1>20. CASE Elsewhere
  <2>1. Spend("elsewhere") /\ down' = Append(down, State(FALSE))
        /\ UNCHANGED <<copies, composer, flying, request, view, runs, history>>
    BY <1>20 DEF Elsewhere
  <2>2. StoreTypeOK'
    <3>1. \/ UNCHANGED appState
          \/ \E work \in {stored, older}, m \in Messages :
                Store(Append(work, m)) \/ Store(Only(work, ToSet(work) \ {m}))
      <4>1. stored \in Seq(Messages) /\ older \in Seq(Messages)
        BY <1>a DEF StoreTypeOK
      <4>2. \A work \in {stored, older} : ToSet(work) \subseteq Messages
        <5>1. \A work \in Seq(Messages) : ToSet(work) \subseteq Messages
          BY DEF ToSet
        <5> QED BY <4>1, <5>1
      <4>3. Foreign \subseteq Messages
        BY DEF Messages
      <4> QED BY <1>20, <4>2, <4>3 DEF Elsewhere
    <3>2. ASSUME NEW work \in {stored, older}, NEW m \in Messages,
                 Store(Append(work, m)) \/ Store(Only(work, ToSet(work) \ {m}))
          PROVE  StoreTypeOK'
      <4>1. work \in Seq(Messages)
        BY <1>a DEF StoreTypeOK
      <4>2. Append(work, m) \in Seq(Messages) /\ Only(work, ToSet(work) \ {m}) \in Seq(Messages)
        BY <4>1, OnlyKeeps
      <4> QED BY <1>a, <3>2, <4>2 DEF Store, StoreTypeOK
    <3> QED BY <1>a, <3>1, <3>2 DEF StoreTypeOK
  <2>3. WireTypeOK'
    <3>1. State(FALSE) \in Wire
      BY <2>2, OnTheWire DEF State, StoreTypeOK
    <3> QED BY <1>a, <2>1, <3>1, SetOfAppend DEF WireTypeOK
  <2>4. RunTypeOK'
    BY <1>a, <2>1, SpendTyped DEF RunTypeOK
  <2> QED BY <1>a, <2>1, <2>2, <2>3, <2>4 DEF QueueTypeOK, SendTypeOK, HistoryTypeOK
<1>21. CASE UNCHANGED vars
  BY <1>a, <1>21 DEF vars, QueueTypeOK, SendTypeOK, RunTypeOK, StoreTypeOK, WireTypeOK, HistoryTypeOK
<1> QED
  BY <1>1, <1>2, <1>4, <1>5, <1>6, <1>7, <1>8, <1>9, <1>10, <1>11, <1>12, <1>13, <1>14, <1>15, <1>16, <1>17,
     <1>18, <1>19, <1>20, <1>21 DEF Next, Receive, End, Messages

\* Every variable of the model has its type throughout.
THEOREM TypeCorrect == Spec => []TypeOK
<1>1. TypeOK /\ [Next]_vars => TypeOK'
  BY TypeStep
<1> QED BY InitTyped, <1>1, PTL DEF Spec

-----------------------------------------------------------------------------
(***************************************************************************)
(* What is sent without being asked.                                       *)
(***************************************************************************)

\* With w the history of what was written: an item that is not to be confirmed was written
\* in this window since it was loaded, and so was a message that is live.
Mine(w, m) == m \in Message /\ w[m] = "now"
Own(w, item) == item.confirm \/ Mine(w, item.msg)
QueueOwn(w, c) == (\A item \in ToSet(c.queue) : Own(w, item)) /\ \A m \in c.live : Mine(w, m)

\* The inductive invariant: so it is with every item in the window's hands.
OwnItems ==
    /\ QueueOwn(written, local)
    /\ composer.steer # None => Own(written, composer.steer)
    /\ \A f \in flying : Own(written, f.item) /\ (f.how = "auto" => ~f.item.confirm)

LEMMA OperationsOwn ==
    ASSUME NEW w, NEW c \in Locals, QueueOwn(w, c)
    PROVE  /\ \A m \in Messages : QueueOwn(w, Removed(c, m))
           /\ c.queue # <<>> => QueueOwn(w, Shifted(c)) /\ Own(w, Head(c.queue))
           /\ \A item \in Items : Own(w, item) => QueueOwn(w, Unshifted(c, item))
<1>1. ASSUME NEW m \in Messages PROVE QueueOwn(w, Removed(c, m))
  BY RemovedIds DEF QueueOwn
<1>2. ASSUME c.queue # <<>> PROVE QueueOwn(w, Shifted(c)) /\ Own(w, Head(c.queue))
  BY <1>2, ShiftedIds DEF QueueOwn
<1>3. ASSUME NEW item \in Items, Own(w, item) PROVE QueueOwn(w, Unshifted(c, item))
  <2>1. item.confirm \/ Mine(w, item.msg)
    BY <1>3 DEF Own
  <2> DEFINE d == Unshifted(c, item)
  <2>2. ToSet(d.queue) = ToSet(c.queue) \cup {item}
        /\ d.live = (IF item.confirm THEN c.live ELSE c.live \cup {item.msg})
    BY UnshiftedIds
  <2> HIDE DEF d
  <2>3. \A i \in ToSet(d.queue) : Own(w, i)
    BY <1>3, <2>2 DEF QueueOwn
  <2>4. \A m \in d.live : Mine(w, m)
    <3>1. CASE item.confirm
      BY <2>2, <3>1 DEF QueueOwn
    <3>2. CASE ~item.confirm
      BY <2>1, <2>2, <3>2 DEF QueueOwn
    <3> QED BY <3>1, <3>2
  <2> QED BY <2>3, <2>4 DEF d, QueueOwn
<1> QED BY <1>1, <1>2, <1>3

LEMMA ComparedOwn ==
    ASSUME NEW w, NEW c, NEW d, QueueOwn(w, c), ComparedFrom(c, d)
    PROVE  QueueOwn(w, d)
BY DEF QueueOwn, ComparedFrom, Own

LEMMA ChangeOwn ==
    ASSUME NEW w, NEW c \in Locals, Change(c), QueueOwn(w, c)
    PROVE  QueueOwn(w, local')
<1>1. ComparedFrom(c, local')
  BY ChangeChanges DEF Changes
<1> QED BY <1>1, ComparedOwn

LEMMA OwnStep == TypeOK /\ OwnItems /\ [Next]_vars => OwnItems'
<1> SUFFICES ASSUME TypeOK, OwnItems, [Next]_vars PROVE OwnItems'
  OBVIOUS
<1> USE DEF copies, appState, runs, history
<1>a. /\ local \in Locals /\ QueueOwn(written, local)
      /\ composer.steer # None => composer.steer \in Items /\ Own(written, composer.steer)
      /\ \A f \in flying : f \in Flights /\ f.item \in Items /\ Own(written, f.item) /\ (f.how = "auto" => ~f.item.confirm)
  BY DEF OwnItems, TypeOK, Flights
<1>b. /\ \A m \in Messages : Removed(local, m) \in Locals /\ QueueOwn(written, Removed(local, m))
      /\ local.queue # <<>> =>
            Shifted(local) \in Locals /\ QueueOwn(written, Shifted(local)) /\ Own(written, Head(local.queue))
      /\ \A item \in Items : Unshifted(local, item) \in Locals
      /\ \A item \in Items : Own(written, item) => QueueOwn(written, Unshifted(local, item))
      /\ \A m \in Messages, item \in Items : Unshifted(Removed(local, m), item) \in Locals
      /\ \A m \in Messages, item \in Items :
            Own(written, item) => QueueOwn(written, Unshifted(Removed(local, m), item))
  <2>1. QueueTypeOK
    BY <1>a DEF QueueTypeOK, TypeOK
  <2>2. \A m \in Messages : Removed(local, m) \in Locals /\ QueueOwn(written, Removed(local, m))
    BY <1>a, <2>1, OperationsTyped, OperationsOwn
  <2> QED BY <1>a, <2>1, <2>2, OperationsTyped, OperationsOwn
<1>c. ASSUME NEW flights \in SUBSET Flights, NEW mounted \in BOOLEAN, Begin(flights, mounted),
             \A f \in flights : Own(written, f.item) /\ (f.how = "auto" => ~f.item.confirm)
      PROVE  written' = written /\ \A f \in flying' : Own(written, f.item) /\ (f.how = "auto" => ~f.item.confirm)
  <2>1. flying' = (flying \ flights) \cup Sent(flights) /\ written' = written
    BY <1>c, BeginAsks DEF Asks
  <2>2. \A g \in Sent(flights) : \E f \in flights : g.item = f.item /\ g.how = f.how
    BY SentTyped
  <2> QED BY <1>a, <1>c, <2>1, <2>2
<1>1. CASE PassiveEffects
  <2>1. QueueOwn(written, local')
    BY <1>a, <1>1, ChangeOwn DEF PassiveEffects
  <2> QED BY <1>a, <1>1, <2>1 DEF PassiveEffects, OwnItems
<1>2. CASE Submit \/ ReceiveStale \/ ReceiveRefused
  <2>1. local'.queue = local.queue /\ local'.live = local.live
    BY <1>a, <1>2 DEF Submit, ReceiveStale, ReceiveRefused, Locals
  <2>2. QueueOwn(written, local')
    BY <1>a, <2>1 DEF QueueOwn
  <2> QED BY <1>a, <1>2, <2>2 DEF Submit, ReceiveStale, ReceiveRefused, OwnItems
<1>4. CASE ReceiveState
  <2> DEFINE kept == local.dirty \/ local.waiting
             late == due /\ Differs(local)
             before == IF late THEN Synced(local) ELSE local
             next == [before EXCEPT !.work = IF kept THEN @ ELSE Head(down).work,
                                    !.waiting = @ /\ ~Head(down).answer,
                                    !.behind = @ /\ kept]
  <2>1. local' = IF late THEN Pushed(next) ELSE next
    BY <1>4 DEF ReceiveState
  <2>2. before \in Locals /\ QueueOwn(written, before)
    BY <1>a, SyncedIds, ComparedOwn
  <2>3. next \in Locals /\ next.queue = before.queue /\ next.live = before.live
    <3>1. Head(down).work \in Seq(Messages) /\ Head(down).answer \in BOOLEAN
      <4>1. down \in Seq(Wire) /\ down # <<>> /\ Head(down).type = "state"
        BY <1>4 DEF ReceiveState, Arrives, TypeOK
      <4> QED BY <4>1, SetOfTail, WireFields
    <3> HIDE DEF before, kept
    <3> QED BY <2>2, <3>1 DEF Locals
  <2> HIDE DEF next, before
  <2>4. QueueOwn(written, next)
    BY <2>2, <2>3 DEF QueueOwn
  <2>5. local'.queue = next.queue /\ local'.live = next.live
    BY <2>1, <2>3, PushedIds
  <2>6. QueueOwn(written, local')
    BY <2>4, <2>5 DEF QueueOwn
  <2> QED BY <1>a, <1>4, <2>6 DEF ReceiveState, OwnItems
<1>6. CASE ReceiveSent
  <2> DEFINE flights == {f \in flying : f.sent}
             item == (CHOOSE f \in flights : TRUE).item
             ok == Head(down).ok
  <2>1. /\ UNCHANGED <<composer, history>> /\ flying' = flying \ flights
        /\ \/ UNCHANGED copies
           \/ flights # {} /\ Change(IF ok THEN Removed(local, item.msg) ELSE Unshifted(local, item))
    BY <1>6 DEF ReceiveSent
  <2>2. flights # {} => item \in Items /\ item.msg \in Messages /\ Own(written, item)
    BY <1>a DEF Items
  <2>3. QueueOwn(written, local')
    <3>1. CASE UNCHANGED copies
      BY <1>a, <3>1
    <3>2. CASE flights # {} /\ Change(IF ok THEN Removed(local, item.msg) ELSE Unshifted(local, item))
      <4> DEFINE c == IF ok THEN Removed(local, item.msg) ELSE Unshifted(local, item)
      <4>1. c \in Locals /\ QueueOwn(written, c)
        BY <1>b, <2>2, <3>2
      <4> HIDE DEF c
      <4>2. Change(c)
        BY <3>2 DEF c
      <4> QED BY <4>1, <4>2, ChangeOwn
    <3> QED BY <2>1, <3>1, <3>2
  <2> QED BY <1>a, <2>1, <2>3 DEF OwnItems
<1>7. CASE ReceiveRun
  <2>1. /\ UNCHANGED <<flying, history>>
        /\ composer' = [composer EXCEPT !.drain = FALSE, !.steer = None] \/ composer' = composer
        /\ \/ UNCHANGED copies
           \/ composer.steer # None /\ Change(Unshifted(local, composer.steer))
    BY <1>7 DEF ReceiveRun
  <2>2. QueueOwn(written, local')
    BY <1>a, <1>b, <2>1, ChangeOwn
  <2>3. composer'.steer = None \/ composer' = composer
    BY <2>1 DEF TypeOK
  <2> QED BY <1>a, <2>1, <2>2, <2>3 DEF OwnItems
<1>8. CASE SendDirectly
  <2>1. Begin({}, TRUE) /\ UNCHANGED <<local, composer>>
    BY <1>8 DEF SendDirectly
  <2>2. {} \in SUBSET Flights
    OBVIOUS
  <2>3. written' = written /\ \A f \in flying' : Own(written, f.item) /\ (f.how = "auto" => ~f.item.confirm)
    BY <1>c, <2>1, <2>2
  <2> QED BY <1>a, <2>1, <2>3 DEF OwnItems
<1>9. CASE ComposerEffect
  <2>1. /\ UNCHANGED history
        /\ \/ composer' = [composer EXCEPT !.was = TRUE]
           \/ composer' = [composer EXCEPT !.was = FALSE]
           \/ composer' = [composer EXCEPT !.was = FALSE, !.drain = FALSE, !.steer = None]
        /\ \/ UNCHANGED <<copies, flying>>
           \/ /\ composer.steer # None /\ UNCHANGED copies
              /\ flying' = flying \cup {Flight(composer.steer, "steer")}
           \/ /\ Shiftable(local) /\ Change(Shifted(local))
              /\ flying' = flying \cup {Flight(Head(local.queue), "auto")}
    BY <1>9 DEF ComposerEffect
  <2>2. composer'.steer # None => composer'.steer = composer.steer
    BY <2>1 DEF TypeOK
  <2>3. Shiftable(local) => local.queue # <<>> /\ ~Head(local.queue).confirm /\ Head(local.queue) \in Items
    BY <1>a, ShiftedIds DEF Shiftable
  <2>4. QueueOwn(written, local')
    BY <1>a, <1>b, <2>1, <2>3, ChangeOwn
  <2>5. \A f \in flying' : Own(written, f.item) /\ (f.how = "auto" => ~f.item.confirm)
    BY <1>a, <1>b, <2>1, <2>3, FlightTyped
  <2> QED BY <1>a, <2>1, <2>2, <2>4, <2>5 DEF OwnItems
<1>10. CASE HandleSend
  <2>1. PICK f \in flying : /\ ~f.sent
                            /\ \/ Begin({f}, f.mounted) /\ UNCHANGED copies
                               \/ NotBegun /\ flying' = flying \ {f} /\ Change(Unshifted(local, f.item))
    BY <1>10 DEF HandleSend
  <2>2. f \in Flights /\ {f} \in SUBSET Flights /\ f.mounted \in BOOLEAN /\ f.item \in Items /\ composer' = composer
    BY <1>a, <1>10, <2>1 DEF Flights, HandleSend
  <2>3. CASE Begin({f}, f.mounted) /\ UNCHANGED copies
    BY <1>a, <1>c, <2>2, <2>3 DEF OwnItems
  <2>4. CASE NotBegun /\ flying' = flying \ {f} /\ Change(Unshifted(local, f.item))
    <3>1. QueueOwn(written, local')
      BY <1>a, <1>b, <2>2, <2>4, ChangeOwn
    <3>2. written' = written
      BY <2>4 DEF NotBegun
    <3> QED BY <1>a, <2>2, <2>4, <3>1, <3>2 DEF OwnItems
  <2> QED BY <2>1, <2>3, <2>4
<1>11. ASSUME NEW m \in Message, Compose(m) PROVE OwnItems'
  <2>1. /\ Change(Enqueued(local, m)) /\ written' = [written EXCEPT ![m] = "now"]
        /\ UNCHANGED <<composer, flying>>
    BY <1>11 DEF Compose
  <2>2. Mine(written', m) /\ \A n : Mine(written, n) => Mine(written', n)
    BY <2>1 DEF Mine, TypeOK
  <2>3. \A item : Own(written, item) => Own(written', item)
    BY <2>2 DEF Own
  <2>4. Enqueued(local, m) \in Locals /\ QueueOwn(written', Enqueued(local, m))
    <3>1. \A item \in ToSet(Enqueued(local, m).queue) :
             item \in ToSet(local.queue) \/ item = [msg |-> m, confirm |-> FALSE]
      BY <1>a, EnqueuedIds
    <3>2. Own(written', [msg |-> m, confirm |-> FALSE])
      BY <2>2 DEF Own
    <3>3. \A n \in Enqueued(local, m).live : n = m \/ n \in local.live
      BY <1>a, EnqueuedIds
    <3> QED BY <1>a, <2>2, <2>3, <3>1, <3>2, <3>3, EnqueuedIds DEF QueueOwn
  <2>5. QueueOwn(written', local')
    BY <2>1, <2>4, ChangeOwn
  <2> QED BY <1>a, <2>1, <2>3, <2>5 DEF OwnItems
<1>12. ASSUME NEW m \in Messages, Steer(m) PROVE OwnItems'
  <2>1. /\ Change(Removed(local, m)) /\ composer' = [composer EXCEPT !.steer = ItemOf(local, m)]
        /\ m \in Queued(local) /\ UNCHANGED <<flying, written>>
    BY <1>12 DEF Steer
  <2>2. composer'.steer = ItemOf(local, m) /\ ItemOf(local, m) \in ToSet(local.queue)
    BY <1>a, <2>1, ItemOfQueued DEF TypeOK
  <2>3. QueueOwn(written, local')
    BY <1>b, <2>1, ChangeOwn
  <2> QED BY <1>a, <2>1, <2>2, <2>3 DEF OwnItems, QueueOwn
<1>13. ASSUME NEW m \in Messages, SendNow(m) PROVE OwnItems'
  <2> DEFINE item == ItemOf(local, m)
             c == Removed(local, m)
  <2>1. /\ m \in Queued(local) /\ composer' = composer
        /\ \/ Begin({Flight(item, "now")}, TRUE) /\ Change(c)
           \/ NotBegun /\ Change(Unshifted(c, item)) /\ UNCHANGED flying
    BY <1>13 DEF SendNow
  <2>2. item \in Items /\ Own(written, item)
    BY <1>a, <2>1, ItemOfQueued DEF QueueOwn
  <2>3. c \in Locals /\ QueueOwn(written, c) /\ Unshifted(c, item) \in Locals /\ QueueOwn(written, Unshifted(c, item))
    BY <1>b, <2>2
  <2> HIDE DEF item, c
  <2>4. QueueOwn(written, local')
    BY <2>1, <2>3, ChangeOwn
  <2>5. CASE Begin({Flight(item, "now")}, TRUE)
    <3>1. {Flight(item, "now")} \in SUBSET Flights /\ Flight(item, "now").item = item /\ Flight(item, "now").how = "now"
      BY <2>2, FlightTyped
    <3>2. written' = written /\ \A f \in flying' : Own(written, f.item) /\ (f.how = "auto" => ~f.item.confirm)
      BY <1>c, <2>2, <2>5, <3>1
    <3> QED BY <1>a, <2>1, <2>4, <3>2 DEF OwnItems
  <2>6. CASE NotBegun /\ UNCHANGED flying
    <3>1. written' = written
      BY <2>6 DEF NotBegun
    <3> QED BY <1>a, <2>1, <2>4, <2>6, <3>1 DEF OwnItems
  <2> QED BY <2>1, <2>5, <2>6
<1>14. ASSUME NEW m \in Messages, Delete(m) PROVE OwnItems'
  <2>1. QueueOwn(written, local')
    BY <1>b, <1>14, ChangeOwn DEF Delete
  <2> QED BY <1>a, <1>14, <2>1 DEF Delete, OwnItems
<1>15. CASE Stop \/ End \/ Elsewhere \/ RunElsewhere
  BY <1>a, <1>15 DEF Stop, End, FinishRun, Elsewhere, RunElsewhere, OwnItems
<1>16. CASE CaptureDone \/ Enter
  <2>1. composer'.steer # None => composer'.steer = composer.steer
    BY <1>16 DEF CaptureDone, Enter, TypeOK, Here, Away
  <2> QED BY <1>a, <1>16, <2>1 DEF CaptureDone, Enter, OwnItems
<1>18. CASE Leave
  <2>1. /\ composer' = Away /\ flying' = {[f EXCEPT !.mounted = FALSE] : f \in flying} /\ written' = written
        /\ UNCHANGED copies \/ (composer.steer # None /\ Change(Unshifted(local, composer.steer)))
    BY <1>18 DEF Leave
  <2>2. QueueOwn(written, local')
    BY <1>a, <1>b, <2>1, ChangeOwn
  <2>3. \A g \in flying' : Own(written, g.item) /\ (g.how = "auto" => ~g.item.confirm)
    <3>1. ASSUME NEW f \in flying, NEW g, g = [f EXCEPT !.mounted = FALSE]
          PROVE  g.item = f.item /\ g.how = f.how
      BY <1>a, <3>1 DEF Flights
    <3>2. ASSUME NEW g \in flying' PROVE \E f \in flying : g = [f EXCEPT !.mounted = FALSE]
      BY <2>1
    <3> QED BY <1>a, <3>1, <3>2
  <2> QED BY <2>1, <2>2, <2>3 DEF OwnItems, Away
<1>19. CASE Reopen
  <2>1. local' = Hydrated(stored) /\ composer' = Here /\ flying' = {}
    BY <1>19 DEF Reopen
  <2>2. stored \in Seq(Messages)
    BY DEF TypeOK
  <2>3. QueueOwn(written', local')
    BY <2>1, <2>2, HydratedTyped DEF QueueOwn, Own
  <2> QED BY <2>1, <2>3 DEF OwnItems, Here, Away
<1>21. CASE UNCHANGED vars
  BY <1>a, <1>21 DEF vars, OwnItems
<1> QED
  BY <1>1, <1>2, <1>4, <1>6, <1>7, <1>8, <1>9, <1>10, <1>11, <1>12, <1>13, <1>14, <1>15, <1>16,
     <1>18, <1>19, <1>21 DEF Next, Receive, Messages

\* What the end of a run sends without being asked is a message written in this window since
\* it was loaded, never one recovered from App State or taken over from another window.
THEOREM OnlyOwnMessagesAutoSent == Spec => []AutoSendsOwn
<1>1. Init => OwnItems
  <2> SUFFICES ASSUME Init PROVE OwnItems
    OBVIOUS
  <2>1. <<>> \in Seq(Messages)
    OBVIOUS
  <2> QED BY <2>1, HydratedTyped DEF Init, OwnItems, QueueOwn, Own, Here, Away
<1>2. TypeOK /\ OwnItems /\ [Next]_vars => TypeOK' /\ OwnItems'
  BY TypeStep, OwnStep
<1>3. OwnItems => AutoSendsOwn
  BY DEF OwnItems, AutoSendsOwn, Own, Mine
<1> QED BY InitTyped, <1>1, <1>2, <1>3, PTL DEF Spec

-----------------------------------------------------------------------------
(***************************************************************************)
(* The queue and its App State copy.                                       *)
(***************************************************************************)

\* Positions of a sequence that is extended or shortened.
LEMMA AppendAt ==
    ASSUME NEW T, NEW d \in Seq(T), NEW x \in T
    PROVE  /\ Append(d, x) \in Seq(T) /\ Len(Append(d, x)) = Len(d) + 1 /\ Len(d) \in Nat
           /\ \A i \in 1..Len(d) : Append(d, x)[i] = d[i]
           /\ Append(d, x)[Len(d) + 1] = x
<1>1. Append(d, x) \in Seq(T) /\ Len(Append(d, x)) = Len(d) + 1 /\ Len(d) \in Nat
  OBVIOUS
<1>2. \A i \in 1..Len(d) : Append(d, x)[i] = d[i]
  OBVIOUS
<1>3. Append(d, x)[Len(d) + 1] = x
  OBVIOUS
<1> QED BY <1>1, <1>2, <1>3

LEMMA TailAt ==
    ASSUME NEW T, NEW d \in Seq(T), d # <<>>
    PROVE  /\ Tail(d) \in Seq(T) /\ Len(Tail(d)) = Len(d) - 1 /\ Len(d) \in Nat /\ Len(d) > 0
           /\ \A i \in 1..(Len(d) - 1) : Tail(d)[i] = d[i + 1]
           /\ Head(d) = d[1]
<1>1. Tail(d) \in Seq(T) /\ Len(Tail(d)) = Len(d) - 1 /\ Len(d) \in Nat /\ Len(d) > 0 /\ Head(d) = d[1]
  OBVIOUS
<1>2. \A i \in 1..(Len(d) - 1) : Tail(d)[i] = d[i + 1]
  OBVIOUS
<1> QED BY <1>1, <1>2

\* With d what is on its way, s the queue App State holds, and c the window's copy:
\* a broadcast, a refused submission, and the answer to a submission.
IsState(x) == x.type = "state"
Refuses(x) == x.type \in {"stale", "refused"}
Answers(x) == Refuses(x) \/ (IsState(x) /\ x.answer)

\* The last broadcast carries the queue App State holds; at most one answer is on its way,
\* and only while the window waits; while it does and has nothing newer to submit, the
\* answer carries what the window submitted; and a window that has nothing to submit, waits
\* for no answer, has seen every broadcast and has given nothing up since the last it took
\* has the queue App State holds.
LastIsStored(d, s) == \A i \in 1..Len(d) :
    IsState(d[i]) => d[i].work = s \/ \E j \in 1..Len(d) : i < j /\ IsState(d[j])
OneAnswer(d) == \A i, j \in 1..Len(d) : Answers(d[i]) /\ Answers(d[j]) => i = j
AnswerAwaited(d, c) == \A i \in 1..Len(d) : Answers(d[i]) => c.waiting
AnswerEchoes(d, c) == \A i \in 1..Len(d) : IsState(d[i]) /\ d[i].answer /\ ~c.dirty => d[i].work = c.work
SeenIsStored(d, s, c) ==
    ~c.dirty /\ ~c.waiting /\ ~c.behind /\ (\A i \in 1..Len(d) : ~IsState(d[i])) => c.work = s

Mirror(d, s, c) ==
    /\ LastIsStored(d, s) /\ OneAnswer(d)
    /\ AnswerAwaited(d, c) /\ AnswerEchoes(d, c) /\ SeenIsStored(d, s, c)

\* The inductive invariant.
Mirrors ==
    /\ ~due => Ids(local.queue) = local.work
    /\ Mirror(down, stored, local)

LEMMA MirrorCopy ==
    ASSUME NEW d, NEW s, NEW c, NEW e, Mirror(d, s, c),
           e.waiting = c.waiting, e.behind = c.behind, e.dirty \/ (e.work = c.work /\ e.dirty = c.dirty)
    PROVE  Mirror(d, s, e)
BY DEF Mirror, AnswerAwaited, AnswerEchoes, SeenIsStored

LEMMA MirrorAppend ==
    ASSUME NEW d \in Seq(Wire), NEW s, NEW c, NEW x \in Wire, Mirror(d, s, c), ~IsState(x), ~Answers(x)
    PROVE  Mirror(Append(d, x), s, c)
<1> DEFINE e == Append(d, x)
<1>1. Len(e) = Len(d) + 1 /\ Len(d) \in Nat /\ (\A i \in 1..Len(d) : e[i] = d[i]) /\ e[Len(d) + 1] = x
  BY AppendAt
<1> HIDE DEF e
<1>2. \A i \in 1..Len(e) : IsState(e[i]) \/ Answers(e[i]) => i \in 1..Len(d)
  BY <1>1
<1>3. \A i \in 1..Len(d) : i \in 1..Len(e)
  BY <1>1
<1>4. LastIsStored(e, s)
  BY <1>1, <1>2, <1>3 DEF Mirror, LastIsStored
<1>5. OneAnswer(e)
  BY <1>1, <1>2 DEF Mirror, OneAnswer
<1>6. AnswerAwaited(e, c) /\ AnswerEchoes(e, c)
  BY <1>1, <1>2 DEF Mirror, AnswerAwaited, AnswerEchoes
<1>7. SeenIsStored(e, s, c)
  BY <1>1, <1>3 DEF Mirror, SeenIsStored
<1> QED BY <1>4, <1>5, <1>6, <1>7 DEF Mirror, e

\* A broadcast of the queue App State holds now, in answer to a submission or not.
LEMMA MirrorBroadcast ==
    ASSUME NEW d \in Seq(Wire), NEW s, NEW c, NEW x \in Wire, NEW t, NEW e,
           Mirror(d, s, c), IsState(x), x.work = t, x.answer \in BOOLEAN,
           \/ ~x.answer /\ e = c
           \/ x.answer /\ (\A i \in 1..Len(d) : ~Answers(d[i])) /\ e.waiting /\ e.work = t
    PROVE  Mirror(Append(d, x), t, e)
<1> DEFINE a == Append(d, x)
<1>1. Len(a) = Len(d) + 1 /\ Len(d) \in Nat /\ (\A i \in 1..Len(d) : a[i] = d[i]) /\ a[Len(d) + 1] = x
  BY AppendAt
<1> HIDE DEF a
<1>2. Len(d) + 1 \in 1..Len(a) /\ \A i \in 1..Len(a) : i \in 1..Len(d) \/ i = Len(d) + 1
  BY <1>1
<1>3. \A i \in 1..Len(d) : i < Len(d) + 1
  BY <1>1
<1>4. LastIsStored(a, t)
  BY <1>1, <1>2, <1>3 DEF LastIsStored
<1>5. Answers(x) <=> x.answer
  BY DEF Answers, Refuses, IsState
<1>6. OneAnswer(a)
  BY <1>1, <1>2, <1>5 DEF Mirror, OneAnswer, AnswerAwaited
<1>7. AnswerAwaited(a, e)
  BY <1>1, <1>2, <1>5 DEF Mirror, AnswerAwaited
<1>8. AnswerEchoes(a, e)
  <2> SUFFICES ASSUME NEW i \in 1..Len(a), IsState(a[i]), a[i].answer, ~e.dirty PROVE a[i].work = e.work
    BY DEF AnswerEchoes
  <2>1. CASE i = Len(d) + 1
    BY <1>1, <2>1
  <2>2. CASE i \in 1..Len(d)
    <3>1. Answers(d[i]) /\ IsState(d[i]) /\ d[i].answer /\ a[i] = d[i]
      BY <1>1, <2>2 DEF Answers
    <3>2. e = c
      BY <2>2, <3>1
    <3> QED BY <2>2, <3>1, <3>2 DEF Mirror, AnswerEchoes
  <2> QED BY <1>2, <2>1, <2>2
<1>9. SeenIsStored(a, t, e)
  BY <1>1, <1>2 DEF SeenIsStored
<1> QED BY <1>4, <1>6, <1>7, <1>8, <1>9 DEF Mirror, a

\* A submission is refused.
LEMMA MirrorRefused ==
    ASSUME NEW d \in Seq(Wire), NEW s, NEW c, NEW x \in Wire, NEW e,
           Mirror(d, s, c), Refuses(x), \A i \in 1..Len(d) : ~Answers(d[i]), e.waiting
    PROVE  Mirror(Append(d, x), s, e)
<1> DEFINE a == Append(d, x)
<1>1. Len(a) = Len(d) + 1 /\ Len(d) \in Nat /\ (\A i \in 1..Len(d) : a[i] = d[i]) /\ a[Len(d) + 1] = x
  BY AppendAt
<1> HIDE DEF a
<1>2. (\A i \in 1..Len(a) : i \in 1..Len(d) \/ i = Len(d) + 1) /\ \A i \in 1..Len(d) : i \in 1..Len(a)
  BY <1>1
<1>3. ~IsState(x)
  BY DEF IsState, Refuses
<1>4. LastIsStored(a, s)
  BY <1>1, <1>2, <1>3 DEF Mirror, LastIsStored
<1>5. OneAnswer(a)
  BY <1>1, <1>2 DEF OneAnswer
<1>6. AnswerAwaited(a, e) /\ SeenIsStored(a, s, e)
  BY DEF AnswerAwaited, SeenIsStored
<1>7. AnswerEchoes(a, e)
  <2> SUFFICES ASSUME NEW i \in 1..Len(a), IsState(a[i]), a[i].answer PROVE FALSE
    BY DEF AnswerEchoes
  <2>1. i \in 1..Len(d) /\ a[i] = d[i]
    BY <1>1, <1>2, <1>3
  <2> QED BY <2>1 DEF Answers
<1> QED BY <1>4, <1>5, <1>6, <1>7 DEF Mirror, a

\* A message of another kind arrives.
LEMMA MirrorTail ==
    ASSUME NEW d \in Seq(Wire), NEW s, NEW c, Mirror(d, s, c), d # <<>>, ~IsState(Head(d)), ~Answers(Head(d))
    PROVE  Mirror(Tail(d), s, c)
<1> DEFINE e == Tail(d)
<1>1. /\ Len(e) = Len(d) - 1 /\ Len(d) \in Nat /\ Len(d) > 0
      /\ (\A i \in 1..(Len(d) - 1) : e[i] = d[i + 1]) /\ Head(d) = d[1]
  BY TailAt
<1> HIDE DEF e
<1>2. \A i \in 1..Len(e) : i + 1 \in 1..Len(d) /\ e[i] = d[i + 1]
  BY <1>1
<1>3. \A j \in 1..Len(d) : IsState(d[j]) \/ Answers(d[j]) => j - 1 \in 1..Len(e) /\ e[j - 1] = d[j]
  BY <1>1
<1>4. LastIsStored(e, s)
  <2> SUFFICES ASSUME NEW i \in 1..Len(e), IsState(e[i]), e[i].work # s
               PROVE  \E j \in 1..Len(e) : i < j /\ IsState(e[j])
    BY DEF LastIsStored
  <2>1. PICK j \in 1..Len(d) : i + 1 < j /\ IsState(d[j])
    BY <1>2 DEF Mirror, LastIsStored
  <2>2. j - 1 \in 1..Len(e) /\ e[j - 1] = d[j] /\ i < j - 1
    BY <1>3, <2>1
  <2> QED BY <2>1, <2>2
<1>5. OneAnswer(e)
  <2> SUFFICES ASSUME NEW i \in 1..Len(e), NEW j \in 1..Len(e), Answers(e[i]), Answers(e[j]) PROVE i = j
    BY DEF OneAnswer
  <2>1. i + 1 = j + 1
    BY <1>2 DEF Mirror, OneAnswer
  <2> QED BY <2>1
<1>6. AnswerAwaited(e, c) /\ AnswerEchoes(e, c)
  BY <1>2 DEF Mirror, AnswerAwaited, AnswerEchoes
<1>7. SeenIsStored(e, s, c)
  <2> SUFFICES ASSUME ~c.dirty, ~c.waiting, ~c.behind, \A i \in 1..Len(e) : ~IsState(e[i]) PROVE c.work = s
    BY DEF SeenIsStored
  <2>1. \A j \in 1..Len(d) : ~IsState(d[j])
    BY <1>3
  <2> QED BY <2>1 DEF Mirror, SeenIsStored
<1> QED BY <1>4, <1>5, <1>6, <1>7 DEF Mirror, e

\* A broadcast or an answer arrives.
LEMMA MirrorReceive ==
    ASSUME NEW d \in Seq(Wire), NEW s, NEW c, NEW e, Mirror(d, s, c), d # <<>>,
           \/ /\ IsState(Head(d)) /\ Head(d).answer \in BOOLEAN /\ c.dirty \in BOOLEAN /\ c.waiting \in BOOLEAN
              /\ e.waiting = (c.waiting /\ ~Head(d).answer) /\ e.dirty = c.dirty
              /\ e.work = (IF c.dirty \/ c.waiting THEN c.work ELSE Head(d).work)
              /\ e.behind = (c.behind /\ (c.dirty \/ c.waiting))
           \/ Refuses(Head(d)) /\ e.waiting = FALSE /\ (e.dirty \/ e.behind)
    PROVE  Mirror(Tail(d), s, e)
<1> DEFINE t == Tail(d)
<1>1. /\ Len(t) = Len(d) - 1 /\ Len(d) \in Nat /\ Len(d) > 0
      /\ (\A i \in 1..(Len(d) - 1) : t[i] = d[i + 1]) /\ Head(d) = d[1]
  BY TailAt
<1> HIDE DEF t
<1>2. \A i \in 1..Len(t) : i + 1 \in 1..Len(d) /\ t[i] = d[i + 1] /\ i + 1 # 1
  BY <1>1
<1>3. \A j \in 1..Len(d) : j # 1 => j - 1 \in 1..Len(t) /\ t[j - 1] = d[j]
  BY <1>1
<1>4. LastIsStored(t, s)
  <2> SUFFICES ASSUME NEW i \in 1..Len(t), IsState(t[i]), t[i].work # s
               PROVE  \E j \in 1..Len(t) : i < j /\ IsState(t[j])
    BY DEF LastIsStored
  <2>1. PICK j \in 1..Len(d) : i + 1 < j /\ IsState(d[j])
    BY <1>2 DEF Mirror, LastIsStored
  <2>2. j - 1 \in 1..Len(t) /\ t[j - 1] = d[j] /\ i < j - 1
    BY <1>3, <2>1
  <2> QED BY <2>1, <2>2
<1>5. OneAnswer(t)
  <2> SUFFICES ASSUME NEW i \in 1..Len(t), NEW j \in 1..Len(t), Answers(t[i]), Answers(t[j]) PROVE i = j
    BY DEF OneAnswer
  <2>1. i + 1 = j + 1
    BY <1>2 DEF Mirror, OneAnswer
  <2> QED BY <2>1
<1>6. 1 \in 1..Len(d)
  BY <1>1
<1>7. Answers(Head(d)) => \A i \in 1..Len(t) : ~Answers(t[i])
  BY <1>1, <1>2, <1>6 DEF Mirror, OneAnswer
<1>8. CASE Refuses(Head(d)) /\ e.waiting = FALSE /\ (e.dirty \/ e.behind)
  <2>1. Answers(Head(d))
    BY <1>8 DEF Answers
  <2>2. AnswerAwaited(t, e) /\ AnswerEchoes(t, e)
    BY <1>7, <2>1 DEF AnswerAwaited, AnswerEchoes, Answers
  <2>3. SeenIsStored(t, s, e)
    BY <1>8 DEF SeenIsStored
  <2> QED BY <1>4, <1>5, <2>2, <2>3 DEF Mirror, t
<1>9. CASE /\ IsState(Head(d)) /\ Head(d).answer \in BOOLEAN /\ c.dirty \in BOOLEAN /\ c.waiting \in BOOLEAN
           /\ e.waiting = (c.waiting /\ ~Head(d).answer) /\ e.dirty = c.dirty
           /\ e.work = (IF c.dirty \/ c.waiting THEN c.work ELSE Head(d).work)
           /\ e.behind = (c.behind /\ (c.dirty \/ c.waiting))
  <2>1. Answers(Head(d)) <=> Head(d).answer
    BY <1>9 DEF Answers, Refuses, IsState
  <2>2. ASSUME NEW i \in 1..Len(t), Answers(t[i]) PROVE c.waiting /\ ~Head(d).answer
    <3>1. c.waiting
      BY <1>2, <2>2 DEF Mirror, AnswerAwaited
    <3>2. ~Head(d).answer
      BY <1>7, <2>1, <2>2
    <3> QED BY <3>1, <3>2
  <2>3. AnswerAwaited(t, e)
    BY <1>9, <2>2 DEF AnswerAwaited
  <2>4. AnswerEchoes(t, e)
    <3> SUFFICES ASSUME NEW i \in 1..Len(t), IsState(t[i]), t[i].answer, ~e.dirty PROVE t[i].work = e.work
      BY DEF AnswerEchoes
    <3>1. c.waiting
      BY <2>2 DEF Answers
    <3>2. t[i].work = c.work
      BY <1>2, <1>9 DEF Mirror, AnswerEchoes
    <3> QED BY <1>9, <3>1, <3>2
  <2>5. SeenIsStored(t, s, e)
    <3> SUFFICES ASSUME ~e.dirty, ~e.waiting, ~e.behind, \A i \in 1..Len(t) : ~IsState(t[i]) PROVE e.work = s
      BY DEF SeenIsStored
    <3>1. Head(d).work = s
      <4>1. \A j \in 1..Len(d) : 1 < j => ~IsState(d[j])
        BY <1>3
      <4> QED BY <1>1, <1>6, <1>9, <4>1 DEF Mirror, LastIsStored
    <3>2. CASE c.waiting
      <4>1. Head(d).answer
        BY <1>9, <3>2
      <4>2. Head(d).work = c.work
        BY <1>1, <1>6, <1>9, <4>1 DEF Mirror, AnswerEchoes
      <4> QED BY <1>9, <3>1, <3>2, <4>2
    <3>3. CASE ~c.waiting
      BY <1>9, <3>1, <3>3
    <3> QED BY <3>2, <3>3
  <2> QED BY <1>4, <1>5, <2>3, <2>4, <2>5 DEF Mirror, t
<1> QED BY <1>8, <1>9

\* The messages that are neither broadcasts nor answers to submissions.
LEMMA OtherMessages ==
    /\ \A r \in RunStates : Runs(r) \in Wire /\ ~IsState(Runs(r)) /\ ~Answers(Runs(r))
    /\ \A ok \in BOOLEAN, r \in RunStates :
          Answer(ok, r) \in Wire /\ ~IsState(Answer(ok, r)) /\ ~Answers(Answer(ok, r))
BY OnTheWire DEF Runs, Answer, IsState, Answers, Refuses

LEMMA ChangeMirrors ==
    ASSUME NEW c \in Locals, Change(c), SameCopy(local, c), NEW d, NEW s, Mirror(d, s, local)
    PROVE  (~due' => Ids(local'.queue) = local'.work) /\ Mirror(d, s, local')
<1>1. Ids(local'.queue) = local'.work /\ local'.waiting = local.waiting /\ local'.behind = local.behind
      /\ (local'.dirty \/ (local'.work = local.work /\ local'.dirty = local.dirty))
  BY ChangeChanges DEF Changes, SameCopy
<1> QED BY <1>1, MirrorCopy

\* Every operation on the queue leaves the App State copy to the comparison that follows.
LEMMA OperationsKeepCopy ==
    ASSUME QueueTypeOK
    PROVE  /\ \A m \in Message : SameCopy(local, Enqueued(local, m))
           /\ \A m \in Messages : SameCopy(local, Removed(local, m))
           /\ local.queue # <<>> => SameCopy(local, Shifted(local))
           /\ \A item \in Items : SameCopy(local, Unshifted(local, item))
           /\ \A m \in Messages, item \in Items : SameCopy(local, Unshifted(Removed(local, m), item))
           /\ SameCopy(local, local)
<1>1. local \in Locals
  BY DEF QueueTypeOK
<1>2. \A m \in Messages : Removed(local, m) \in Locals /\ SameCopy(local, Removed(local, m))
  BY <1>1, RemovedIds
<1>3. \A m \in Messages, item \in Items : SameCopy(Removed(local, m), Unshifted(Removed(local, m), item))
  BY <1>2, UnshiftedIds
<1>4. \A m \in Messages, item \in Items : SameCopy(local, Unshifted(Removed(local, m), item))
  BY <1>2, <1>3 DEF SameCopy
<1>5. /\ \A m \in Message : SameCopy(local, Enqueued(local, m))
      /\ local.queue # <<>> => SameCopy(local, Shifted(local))
      /\ \A item \in Items : SameCopy(local, Unshifted(local, item))
  BY <1>1, EnqueuedIds, ShiftedIds, UnshiftedIds
<1>6. SameCopy(local, local)
  BY DEF SameCopy
<1> QED BY <1>2, <1>4, <1>5, <1>6

LEMMA MirrorStep == TypeOK /\ Mirrors /\ [Next]_vars => Mirrors'
<1> SUFFICES ASSUME TypeOK, Mirrors, [Next]_vars PROVE Mirrors'
  OBVIOUS
<1> USE DEF copies, appState, runs, history
<1>a. local \in Locals /\ down \in Seq(Wire) /\ Mirror(down, stored, local) /\ QueueTypeOK /\ RunTypeOK
  BY TypeParts DEF Mirrors, TypeOK
<1>b. /\ \A m \in Message : Enqueued(local, m) \in Locals /\ SameCopy(local, Enqueued(local, m))
      /\ \A m \in Messages : Removed(local, m) \in Locals /\ SameCopy(local, Removed(local, m))
      /\ local.queue # <<>> => Shifted(local) \in Locals /\ SameCopy(local, Shifted(local))
      /\ \A item \in Items : Unshifted(local, item) \in Locals /\ SameCopy(local, Unshifted(local, item))
      /\ \A m \in Messages, item \in Items :
            Unshifted(Removed(local, m), item) \in Locals /\ SameCopy(local, Unshifted(Removed(local, m), item))
      /\ SameCopy(local, local)
  BY <1>a, OperationsTyped, OperationsKeepCopy
<1>c. ASSUME NEW c \in Locals, Change(c), SameCopy(local, c), UNCHANGED <<down, stored>>
      PROVE  Mirrors'
  BY <1>a, <1>c, ChangeMirrors DEF Mirrors
<1>d. ASSUME UNCHANGED <<copies, stored>>, NEW x \in Wire, ~IsState(x), ~Answers(x), down' = Append(down, x)
      PROVE  Mirrors'
  <2>1. Mirror(Append(down, x), stored, local)
    BY <1>a, <1>d, MirrorAppend
  <2> QED BY <1>d, <2>1 DEF Mirrors
<1>e. ASSUME NEW c \in Locals, SameCopy(local, c), Change(c) \/ UNCHANGED copies, stored' = stored,
             NEW x \in Wire, ~IsState(x), ~Answers(x), down' = Append(down, x)
      PROVE  Mirrors'
  <2>1. Mirror(Append(down, x), stored, local)
    BY <1>a, <1>e, MirrorAppend
  <2>2. CASE Change(c)
    BY <1>e, <2>1, <2>2, ChangeMirrors DEF Mirrors
  <2>3. CASE UNCHANGED copies
    BY <1>e, <2>1, <2>3 DEF Mirrors
  <2> QED BY <1>e, <2>2, <2>3
<1>f. ASSUME NEW c \in Locals, SameCopy(local, c), Change(c) \/ UNCHANGED copies, stored' = stored,
             Arrives("sent") \/ Arrives("run")
      PROVE  Mirrors'
  <2>1. down # <<>> /\ down' = Tail(down) /\ Head(down).type \in {"sent", "run"}
    BY <1>f DEF Arrives
  <2>2. Mirror(Tail(down), stored, local)
    BY <1>a, <2>1, MirrorTail DEF IsState, Answers, Refuses
  <2>3. CASE Change(c)
    BY <1>f, <2>1, <2>2, <2>3, ChangeMirrors DEF Mirrors
  <2>4. CASE UNCHANGED copies
    BY <1>f, <2>1, <2>2, <2>4 DEF Mirrors
  <2> QED BY <1>f, <2>3, <2>4
<1>g. ASSUME NEW flights \in SUBSET Flights, NEW mounted \in BOOLEAN, Begin(flights, mounted)
      PROVE  stored' = stored /\ \E x \in Wire : ~IsState(x) /\ ~Answers(x) /\ down' = Append(down, x)
  <2>1. Asks(flights, mounted)
    BY <1>g, BeginAsks
  <2>2. NoRun \in RunStates
    BY DEF NoRun, RunStates, Statuses
  <2>3. CASE StartRun(TRUE) /\ down' = Append(down, Answer(TRUE, run'))
    <3>1. run' \in RunStates
      BY <1>a, <2>3, StartRunTyped
    <3> QED BY <2>1, <2>3, <3>1, OtherMessages DEF Asks
  <2>4. CASE down' = Append(down, Answer(FALSE, NoRun))
    BY <2>1, <2>2, <2>4, OtherMessages DEF Asks
  <2> QED BY <2>1, <2>3, <2>4 DEF Asks
<1>1. CASE PassiveEffects
  BY <1>a, <1>b, <1>c, <1>1 DEF PassiveEffects
<1>2. CASE Submit
  <2>1. /\ local.dirty /\ ~local.waiting
        /\ \/ local' = [local EXCEPT !.dirty = FALSE, !.waiting = TRUE]
           \/ local' = [local EXCEPT !.dirty = FALSE, !.waiting = TRUE, !.behind = FALSE]
        /\ due' = due
        /\ \/ Store(local.work) /\ down' = Append(down, State(TRUE))
           \/ (down' = Append(down, Stale) \/ down' = Append(down, Refused)) /\ UNCHANGED appState
    BY <1>2 DEF Submit
  <2>2. local'.work = local.work /\ local'.queue = local.queue /\ local'.waiting
    BY <1>a, <2>1 DEF Locals
  <2>3. \A i \in 1..Len(down) : ~Answers(down[i])
    BY <1>a, <2>1 DEF Mirror, AnswerAwaited
  <2>4. CASE Store(local.work) /\ down' = Append(down, State(TRUE))
    <3> DEFINE x == [type |-> "state", work |-> local.work, answer |-> TRUE]
    <3>1. stored' = local.work /\ State(TRUE) = x
      BY <2>4 DEF Store, State
    <3>2. x \in Wire
      BY <1>a, OnTheWire DEF Locals
    <3>3. IsState(x) /\ x.work = local.work /\ x.answer = TRUE
      BY DEF IsState
    <3> HIDE DEF x
    <3>4. Mirror(Append(down, x), local.work, local')
      BY <1>a, <2>2, <2>3, <3>2, <3>3, MirrorBroadcast
    <3> QED BY <2>1, <2>2, <2>4, <3>1, <3>4 DEF Mirrors
  <2>5. ASSUME NEW x \in {Stale, Refused}, down' = Append(down, x), UNCHANGED appState PROVE Mirrors'
    <3>1. Refuses(x) /\ x \in Wire
      BY OnTheWire DEF Stale, Refused, Refuses
    <3>2. Mirror(Append(down, x), stored, local')
      BY <1>a, <2>2, <2>3, <3>1, MirrorRefused
    <3> QED BY <2>1, <2>2, <2>5, <3>2 DEF Mirrors
  <2> QED BY <2>1, <2>4, <2>5
<1>3. CASE ReceiveState
  <2> DEFINE kept == local.dirty \/ local.waiting
             late == due /\ Differs(local)
             before == IF late THEN Synced(local) ELSE local
             next == [before EXCEPT !.work = IF kept THEN @ ELSE Head(down).work,
                                    !.waiting = @ /\ ~Head(down).answer,
                                    !.behind = @ /\ kept]
  <2>1. /\ local' = (IF late THEN Pushed(next) ELSE next) /\ due' = ~late
        /\ Arrives("state") /\ UNCHANGED appState
    BY <1>3 DEF ReceiveState
  <2>2. before \in Locals /\ SameCopy(local, before)
    BY <1>a, SyncedIds DEF SameCopy
  <2>3. down # <<>> /\ down' = Tail(down) /\ IsState(Head(down)) /\ Head(down).work \in Seq(Messages)
        /\ Head(down).answer \in BOOLEAN
    <3>1. down # <<>> /\ down' = Tail(down) /\ Head(down).type = "state" /\ Head(down) \in Wire
      BY <1>a, <2>1, SetOfTail DEF Arrives
    <3> QED BY <3>1, WireFields DEF IsState
  <2>4. /\ next \in Locals /\ next.waiting = (before.waiting /\ ~Head(down).answer) /\ next.dirty = before.dirty
        /\ next.behind = (before.behind /\ kept)
        /\ next.work = IF kept THEN before.work ELSE Head(down).work
    <3> HIDE DEF before, kept
    <3> QED BY <2>2, <2>3 DEF Locals
  <2>5. local.dirty \in BOOLEAN /\ local.waiting \in BOOLEAN
    BY <1>a DEF Locals
  <2> HIDE DEF next, before, late
  <2>6. Mirror(Tail(down), stored, next)
    <3>1. next.waiting = (local.waiting /\ ~Head(down).answer) /\ next.dirty = local.dirty
          /\ next.behind = (local.behind /\ (local.dirty \/ local.waiting))
          /\ next.work = IF local.dirty \/ local.waiting THEN local.work ELSE Head(down).work
      BY <2>2, <2>4 DEF SameCopy
    <3> QED BY <1>a, <2>3, <2>5, <3>1, MirrorReceive
  <2>7. CASE late
    <3>1. local' = Pushed(next)
      BY <2>1, <2>7
    <3>2. Ids(local'.queue) = local'.work /\ local'.waiting = next.waiting /\ local'.behind = next.behind
          /\ (local'.dirty \/ (local'.work = next.work /\ local'.dirty = next.dirty))
      BY <2>4, <3>1, PushedIds
    <3>3. Mirror(Tail(down), stored, local')
      BY <2>6, <3>2, MirrorCopy
    <3> QED BY <2>1, <2>3, <3>2, <3>3 DEF Mirrors
  <2>8. CASE ~late
    BY <2>1, <2>3, <2>6, <2>8 DEF Mirrors
  <2> QED BY <2>7, <2>8
<1>4. CASE ReceiveStale \/ ReceiveRefused
  <2>1. /\ \/ local' = [local EXCEPT !.waiting = FALSE, !.dirty = TRUE]
           \/ local' = [local EXCEPT !.waiting = FALSE, !.behind = TRUE]
        /\ due' = due /\ stored' = stored
        /\ down # <<>> /\ down' = Tail(down) /\ Refuses(Head(down))
    BY <1>4 DEF ReceiveStale, ReceiveRefused, Arrives, Refuses
  <2>2. local'.work = local.work /\ local'.queue = local.queue /\ local'.waiting = FALSE
        /\ (local'.dirty \/ local'.behind)
    BY <1>a, <2>1 DEF Locals
  <2>3. Mirror(Tail(down), stored, local')
    BY <1>a, <2>1, <2>2, MirrorReceive
  <2> QED BY <2>1, <2>2, <2>3 DEF Mirrors
<1>6. CASE ReceiveSent
  <2> DEFINE flights == {f \in flying : f.sent}
             item == (CHOOSE f \in flights : TRUE).item
             c == IF Head(down).ok THEN Removed(local, item.msg) ELSE Unshifted(local, item)
  <2>1. /\ Arrives("sent") /\ UNCHANGED appState
        /\ UNCHANGED copies \/ (flights # {} /\ Change(c))
    BY <1>6 DEF ReceiveSent
  <2>2. flights # {} => item \in Items /\ item.msg \in Messages
    BY DEF TypeOK, Flights, Items
  <2>3. flights # {} => c \in Locals /\ SameCopy(local, c)
    BY <1>b, <2>2
  <2> HIDE DEF c
  <2>4. CASE UNCHANGED copies
    BY <1>a, <1>b, <1>f, <2>1, <2>4
  <2>5. CASE flights # {} /\ Change(c)
    BY <1>f, <2>1, <2>3, <2>5
  <2> QED BY <2>1, <2>4, <2>5
<1>7. CASE ReceiveRun
  <2>1. /\ Arrives("run") /\ UNCHANGED appState
        /\ UNCHANGED copies \/ (composer.steer # None /\ Change(Unshifted(local, composer.steer)))
    BY <1>7 DEF ReceiveRun
  <2>2. composer.steer # None => composer.steer \in Items
    BY DEF TypeOK
  <2> QED BY <1>a, <1>b, <1>f, <2>1, <2>2
<1>8. CASE SendDirectly
  <2>1. Begin({}, TRUE) /\ UNCHANGED copies /\ {} \in SUBSET Flights
    BY <1>8 DEF SendDirectly
  <2>2. stored' = stored /\ \E x \in Wire : ~IsState(x) /\ ~Answers(x) /\ down' = Append(down, x)
    BY <1>g, <2>1
  <2> QED BY <1>d, <2>1, <2>2
<1>9. CASE ComposerEffect
  <2>1. UNCHANGED <<down, appState>> /\ (UNCHANGED copies \/ (local.queue # <<>> /\ Change(Shifted(local))))
    BY <1>9 DEF ComposerEffect, Shiftable
  <2>2. CASE UNCHANGED copies
    BY <1>a, <2>1, <2>2 DEF Mirrors
  <2> QED BY <1>b, <1>c, <2>1, <2>2
<1>10. CASE HandleSend
  <2>1. PICK f \in flying : \/ Begin({f}, f.mounted) /\ UNCHANGED copies
                            \/ NotBegun /\ Change(Unshifted(local, f.item))
    BY <1>10 DEF HandleSend
  <2>2. {f} \in SUBSET Flights /\ f.mounted \in BOOLEAN /\ f.item \in Items
    BY DEF TypeOK, Flights
  <2>3. CASE Begin({f}, f.mounted) /\ UNCHANGED copies
    <3>1. stored' = stored /\ \E x \in Wire : ~IsState(x) /\ ~Answers(x) /\ down' = Append(down, x)
      BY <1>g, <2>2, <2>3
    <3> QED BY <1>d, <2>3, <3>1
  <2>4. CASE NotBegun /\ Change(Unshifted(local, f.item))
    BY <1>b, <1>c, <2>2, <2>4 DEF NotBegun
  <2> QED BY <2>1, <2>3, <2>4
<1>11. ASSUME NEW m \in Message, Compose(m) PROVE Mirrors'
  BY <1>b, <1>c, <1>11 DEF Compose
<1>12. ASSUME NEW m \in Messages, Steer(m) PROVE Mirrors'
  BY <1>b, <1>c, <1>12 DEF Steer
<1>13. ASSUME NEW m \in Messages, SendNow(m) PROVE Mirrors'
  <2> DEFINE item == ItemOf(local, m)
             c == Removed(local, m)
  <2>1. /\ m \in Queued(local)
        /\ \/ Begin({Flight(item, "now")}, TRUE) /\ Change(c)
           \/ NotBegun /\ Change(Unshifted(c, item))
    BY <1>13 DEF SendNow
  <2>2. item \in Items
    BY <1>a, <2>1, ItemOfQueued
  <2>3. c \in Locals /\ SameCopy(local, c) /\ Unshifted(c, item) \in Locals /\ SameCopy(local, Unshifted(c, item))
    BY <1>b, <2>2
  <2> HIDE DEF item, c
  <2>4. CASE Begin({Flight(item, "now")}, TRUE) /\ Change(c)
    <3>1. {Flight(item, "now")} \in SUBSET Flights
      BY <2>2, FlightTyped
    <3>2. stored' = stored /\ \E x \in Wire : ~IsState(x) /\ ~Answers(x) /\ down' = Append(down, x)
      BY <1>g, <2>4, <3>1
    <3> QED BY <1>e, <2>3, <2>4, <3>2
  <2>5. CASE NotBegun /\ Change(Unshifted(c, item))
    BY <1>c, <2>3, <2>5 DEF NotBegun
  <2> QED BY <2>1, <2>4, <2>5
<1>14. ASSUME NEW m \in Messages, Delete(m) PROVE Mirrors'
  BY <1>b, <1>c, <1>14 DEF Delete
<1>15. CASE Stop \/ CaptureDone \/ Enter \/ UNCHANGED vars
  BY <1>a, <1>15 DEF Stop, CaptureDone, Enter, vars, Mirrors
<1>16. ASSUME NEW status \in {"completed", "failed", "cancelled"}, FinishRun(status) PROVE Mirrors'
  <2>1. run' = [run EXCEPT !.status = status] /\ down' = Append(down, Runs(run')) /\ UNCHANGED <<copies, appState>>
    BY <1>16 DEF FinishRun
  <2>2. run' \in RunStates
    BY <2>1 DEF TypeOK, RunStates, Statuses
  <2> QED BY <1>d, <2>1, <2>2, OtherMessages
<1>17. CASE RunElsewhere
  <2>1. StartRun(FALSE) /\ down' = Append(down, Runs(run')) /\ UNCHANGED <<copies, appState>>
    BY <1>17 DEF RunElsewhere
  <2>2. run' \in RunStates
    BY <1>a, <2>1, StartRunTyped
  <2> QED BY <1>d, <2>1, <2>2, OtherMessages
<1>18. CASE Leave
  <2>1. UNCHANGED <<down, appState>>
        /\ (UNCHANGED copies \/ (composer.steer # None /\ Change(Unshifted(local, composer.steer))))
    BY <1>18 DEF Leave
  <2>2. composer.steer # None => composer.steer \in Items
    BY DEF TypeOK
  <2>3. CASE UNCHANGED copies
    BY <1>a, <2>1, <2>3 DEF Mirrors
  <2> QED BY <1>b, <1>c, <2>1, <2>2, <2>3
<1>19. CASE Reopen
  <2>1. local' = Hydrated(stored) /\ down' = <<>> /\ stored' = stored /\ stored \in Seq(Messages)
    BY <1>19 DEF Reopen, TypeOK
  <2>2. Ids(local'.queue) = local'.work /\ local'.work = stored
    BY <2>1, HydratedTyped
  <2>3. Mirror(<<>>, stored, local')
    BY <2>2 DEF Mirror, LastIsStored, OneAnswer, AnswerAwaited, AnswerEchoes, SeenIsStored
  <2> QED BY <2>1, <2>2, <2>3 DEF Mirrors
<1>20. CASE Elsewhere
  <2> DEFINE x == [type |-> "state", work |-> stored', answer |-> FALSE]
  <2>1. down' = Append(down, x) /\ UNCHANGED copies
    BY <1>20 DEF Elsewhere, State
  <2>2. x \in Wire
    <3>1. stored' \in Seq(Messages)
      BY TypeStep DEF TypeOK
    <3> QED BY <3>1, OnTheWire
  <2>3. IsState(x) /\ x.work = stored' /\ x.answer = FALSE
    BY DEF IsState
  <2> HIDE DEF x
  <2>4. Mirror(Append(down, x), stored', local)
    BY <1>a, <2>2, <2>3, MirrorBroadcast
  <2> QED BY <1>a, <2>1, <2>4 DEF Mirrors
<1> QED
  BY <1>1, <1>2, <1>3, <1>4, <1>6, <1>7, <1>8, <1>9, <1>10, <1>11, <1>12, <1>13, <1>14, <1>15, <1>16, <1>17,
     <1>18, <1>19, <1>20 DEF Next, Receive, End, Messages

\* At rest, the queue the user sees is the queue App State holds, unless the window's last
\* submission was given up and no broadcast has replaced its copy since.
THEOREM QueueReconciled == Spec => []Reconciled
<1>1. Init => Mirrors
  <2> SUFFICES ASSUME Init PROVE Mirrors
    OBVIOUS
  <2>1. local = Hydrated(<<>>) /\ <<>> \in Seq(Messages) /\ down = <<>> /\ stored = <<>>
    BY DEF Init
  <2>2. Ids(local.queue) = local.work /\ local.work = stored
    BY <2>1, HydratedTyped
  <2> QED BY <2>1, <2>2 DEF Mirrors, Mirror, LastIsStored, OneAnswer, AnswerAwaited, AnswerEchoes, SeenIsStored
<1>2. TypeOK /\ Mirrors /\ [Next]_vars => TypeOK' /\ Mirrors'
  BY TypeStep, MirrorStep
<1>3. Mirrors => Reconciled
  <2> SUFFICES ASSUME Mirrors, AtRest, ~local.behind PROVE Ids(local.queue) = stored
    BY DEF Reconciled
  <2>1. down = <<>> /\ ~due /\ ~local.dirty /\ ~local.waiting
    BY DEF AtRest
  <2> QED BY <2>1 DEF Mirrors, Mirror, SeenIsStored
<1> QED BY InitTyped, <1>1, <1>2, <1>3, PTL DEF Spec

-----------------------------------------------------------------------------
(***************************************************************************)
(* The runs the window hears of.                                           *)
(***************************************************************************)

\* A message that tells the window of a change of the Thread's run.
IsSent(x) == x.type = "sent"
IsRun(x) == x.type = "run"
Carries(x) == IsRun(x) \/ (IsSent(x) /\ x.ok)

\* The place of a change in the history of the Thread's runs, and the change after it: the
\* end of a live run, or the next run.
Rank(r) == IF Live(r) THEN 2 * r.n ELSE 2 * r.n + 1
Follows(r, s) ==
    IF Live(r) THEN ~Live(s) /\ r.n = s.n + 1 ELSE Live(s) /\ r.n = s.n /\ r.here = s.here

\* With d what is on its way, v the run the window shows and r the run there is: the window
\* hears of every change, in order, up to the current one.
InOrder(d, v, r) ==
    /\ \A i \in 1..Len(d) : Carries(d[i]) => Rank(v) < Rank(d[i].run) /\ Rank(d[i].run) <= Rank(r)
    /\ \A i, j \in 1..Len(d) : Carries(d[i]) /\ Carries(d[j]) /\ i < j => Rank(d[i].run) < Rank(d[j].run)
NoneMissing(d, v) == \A i \in 1..Len(d) : Carries(d[i]) =>
    \/ Follows(d[i].run, v)
    \/ \E k \in 1..Len(d) : k < i /\ Carries(d[k]) /\ Follows(d[i].run, d[k].run)
UpToNow(d, v, r) == r = v \/ \E i \in 1..Len(d) : Carries(d[i]) /\ d[i].run = r

\* It hears of the start of a run of its own by the answer to its send, of the start of
\* another one by a broadcast, and of every end by a broadcast.
ByAnswer(d) == \A i \in 1..Len(d) :
    /\ IsRun(d[i]) /\ Live(d[i].run) => ~d[i].run.here
    /\ IsSent(d[i]) /\ d[i].ok => Live(d[i].run) /\ d[i].run.here
    /\ IsRun(d[i]) => d[i].run.status # "none"

Track(d, v, r) == InOrder(d, v, r) /\ NoneMissing(d, v) /\ UpToNow(d, v, r) /\ ByAnswer(d)

LEMMA FollowsRank ==
    ASSUME NEW r \in RunStates, NEW s \in RunStates, Follows(r, s)
    PROVE  Rank(r) = Rank(s) + 1
BY DEF RunStates, Follows, Rank

LEMMA RankTyped ==
    ASSUME NEW r \in RunStates
    PROVE  Rank(r) \in Nat
BY DEF RunStates, Rank

LEMMA CarriesTyped ==
    ASSUME NEW x \in Wire, Carries(x)
    PROVE  x.run \in RunStates
BY WireFields DEF Carries, IsRun, IsSent

LEMMA TrackOther ==
    ASSUME NEW d \in Seq(Wire), NEW v, NEW r, Track(d, v, r), NEW x \in Wire, ~Carries(x), ~IsRun(x)
    PROVE  Track(Append(d, x), v, r)
<1> DEFINE e == Append(d, x)
<1>1. Len(e) = Len(d) + 1 /\ Len(d) \in Nat /\ (\A i \in 1..Len(d) : e[i] = d[i]) /\ e[Len(d) + 1] = x
  BY AppendAt
<1> HIDE DEF e
<1>2. \A i \in 1..Len(e) : Carries(e[i]) \/ IsRun(e[i]) => i \in 1..Len(d) /\ e[i] = d[i]
  BY <1>1
<1>3. \A i \in 1..Len(d) : i \in 1..Len(e) /\ e[i] = d[i]
  BY <1>1
<1>4. InOrder(e, v, r)
  BY <1>2 DEF Track, InOrder
<1>5. NoneMissing(e, v)
  BY <1>2, <1>3 DEF Track, NoneMissing
<1>6. UpToNow(e, v, r)
  BY <1>3 DEF Track, UpToNow
<1>7. ByAnswer(e)
  BY <1>2 DEF Track, ByAnswer, Carries
<1> QED BY <1>4, <1>5, <1>6, <1>7 DEF Track, e

LEMMA TrackNext ==
    ASSUME NEW d \in Seq(Wire), NEW v \in RunStates, NEW r \in RunStates, Track(d, v, r),
           NEW x \in Wire, Carries(x), Follows(x.run, r),
           IsRun(x) /\ Live(x.run) => ~x.run.here,
           IsSent(x) => Live(x.run) /\ x.run.here,
           x.run.status # "none"
    PROVE  Track(Append(d, x), v, x.run)
<1> DEFINE e == Append(d, x)
           last == Len(d) + 1
<1>1. Len(e) = last /\ Len(d) \in Nat /\ (\A i \in 1..Len(d) : e[i] = d[i]) /\ e[last] = x
  BY AppendAt
<1> HIDE DEF e
<1>2. \A i \in 1..Len(e) : (i \in 1..Len(d) /\ e[i] = d[i] /\ i < last) \/ i = last
  BY <1>1
<1>3. (\A i \in 1..Len(d) : i \in 1..Len(e) /\ e[i] = d[i] /\ i < last) /\ last \in 1..Len(e)
  BY <1>1
<1>4. Rank(x.run) = Rank(r) + 1 /\ Rank(r) \in Nat /\ Rank(v) \in Nat
      /\ \A i \in 1..Len(d) : Carries(d[i]) => Rank(d[i].run) \in Nat
  BY FollowsRank, RankTyped, CarriesTyped
<1>5. Rank(v) <= Rank(r)
  BY <1>4 DEF Track, InOrder, UpToNow
<1>6. InOrder(e, v, x.run)
  <2>1. ASSUME NEW i \in 1..Len(e), Carries(e[i])
        PROVE  Rank(v) < Rank(e[i].run) /\ Rank(e[i].run) <= Rank(x.run)
    <3>1. CASE i = last
      BY <1>1, <1>4, <1>5, <3>1
    <3>2. CASE i \in 1..Len(d) /\ e[i] = d[i]
      <4>1. Rank(v) < Rank(d[i].run) /\ Rank(d[i].run) <= Rank(r) /\ Rank(d[i].run) \in Nat
        BY <1>4, <2>1, <3>2 DEF Track, InOrder
      <4> QED BY <1>4, <3>2, <4>1
    <3> QED BY <1>2, <3>1, <3>2
  <2>2. ASSUME NEW i \in 1..Len(e), NEW j \in 1..Len(e), Carries(e[i]), Carries(e[j]), i < j
        PROVE  Rank(e[i].run) < Rank(e[j].run)
    <3>1. i \in 1..Len(d) /\ e[i] = d[i]
      BY <1>1, <2>2
    <3>2. CASE j = last
      <4>1. Rank(d[i].run) <= Rank(r) /\ Rank(d[i].run) \in Nat
        BY <1>4, <2>2, <3>1 DEF Track, InOrder
      <4> QED BY <1>1, <1>4, <3>1, <3>2, <4>1
    <3>3. CASE j \in 1..Len(d) /\ e[j] = d[j]
      BY <2>2, <3>1, <3>3 DEF Track, InOrder
    <3> QED BY <1>2, <3>2, <3>3
  <2> QED BY <2>1, <2>2 DEF InOrder
<1>7. NoneMissing(e, v)
  <2> SUFFICES ASSUME NEW i \in 1..Len(e), Carries(e[i]), ~Follows(e[i].run, v)
               PROVE  \E k \in 1..Len(e) : k < i /\ Carries(e[k]) /\ Follows(e[i].run, e[k].run)
    BY DEF NoneMissing
  <2>1. CASE i = last
    <3>1. r # v
      BY <1>1, <2>1
    <3>2. PICK k \in 1..Len(d) : Carries(d[k]) /\ d[k].run = r
      BY <3>1 DEF Track, UpToNow
    <3> QED BY <1>1, <1>3, <2>1, <3>2
  <2>2. CASE i \in 1..Len(d) /\ e[i] = d[i]
    <3>1. PICK k \in 1..Len(d) : k < i /\ Carries(d[k]) /\ Follows(d[i].run, d[k].run)
      BY <2>2 DEF Track, NoneMissing
    <3> QED BY <1>3, <2>2, <3>1
  <2> QED BY <1>2, <2>1, <2>2
<1>8. UpToNow(e, v, x.run)
  BY <1>1, <1>3 DEF UpToNow
<1>9. ByAnswer(e)
  BY <1>1, <1>2 DEF Track, ByAnswer
<1> QED BY <1>6, <1>7, <1>8, <1>9 DEF Track, e

LEMMA TrackTail ==
    ASSUME NEW d \in Seq(Wire), NEW v \in RunStates, NEW r \in RunStates, Track(d, v, r), d # <<>>
    PROVE  Track(Tail(d), IF Carries(Head(d)) THEN Head(d).run ELSE v, r)
<1> DEFINE e == Tail(d)
           w == IF Carries(Head(d)) THEN Head(d).run ELSE v
<1>1. /\ Len(e) = Len(d) - 1 /\ Len(d) \in Nat /\ Len(d) > 0
      /\ (\A i \in 1..(Len(d) - 1) : e[i] = d[i + 1]) /\ Head(d) = d[1]
  BY TailAt
<1> HIDE DEF e
<1>2. \A i \in 1..Len(e) : i + 1 \in 1..Len(d) /\ e[i] = d[i + 1] /\ 1 < i + 1
  BY <1>1
<1>3. \A j \in 1..Len(d) : j # 1 => j - 1 \in 1..Len(e) /\ e[j - 1] = d[j]
  BY <1>1
<1>4. 1 \in 1..Len(d) /\ \A i \in 1..Len(d) : d[i] \in Wire
  BY <1>1
<1>5. Rank(v) \in Nat /\ Rank(r) \in Nat /\ \A i \in 1..Len(d) : Carries(d[i]) => d[i].run \in RunStates /\ Rank(d[i].run) \in Nat
  BY <1>4, RankTyped, CarriesTyped
<1>6. InOrder(e, w, r)
  <2>1. ASSUME NEW i \in 1..Len(e), Carries(e[i]) PROVE Rank(w) < Rank(e[i].run) /\ Rank(e[i].run) <= Rank(r)
    BY <1>1, <1>2, <1>4, <2>1 DEF Track, InOrder
  <2>2. ASSUME NEW i \in 1..Len(e), NEW j \in 1..Len(e), Carries(e[i]), Carries(e[j]), i < j
        PROVE  Rank(e[i].run) < Rank(e[j].run)
    <3>1. i + 1 < j + 1 /\ i + 1 \in 1..Len(d) /\ j + 1 \in 1..Len(d) /\ Carries(d[i + 1]) /\ Carries(d[j + 1])
      BY <1>2, <2>2
    <3>2. Rank(d[i + 1].run) < Rank(d[j + 1].run)
      BY <3>1 DEF Track, InOrder
    <3> QED BY <1>2, <3>2
  <2> QED BY <2>1, <2>2 DEF InOrder
<1>7. NoneMissing(e, w)
  <2> SUFFICES ASSUME NEW i \in 1..Len(e), Carries(e[i]), ~Follows(e[i].run, w)
               PROVE  \E k \in 1..Len(e) : k < i /\ Carries(e[k]) /\ Follows(e[i].run, e[k].run)
    BY DEF NoneMissing
  <2>1. i + 1 \in 1..Len(d) /\ e[i] = d[i + 1] /\ 1 < i + 1
    BY <1>2
  <2>2. Carries(Head(d)) => ~Follows(d[i + 1].run, v)
    <3> SUFFICES ASSUME Carries(d[1]), Follows(d[i + 1].run, v) PROVE FALSE
      BY <1>1
    <3>1. Rank(d[i + 1].run) = Rank(v) + 1
      BY <1>5, <2>1, FollowsRank
    <3>2. Rank(v) < Rank(d[1].run) /\ Rank(d[1].run) < Rank(d[i + 1].run)
      BY <1>4, <2>1 DEF Track, InOrder
    <3> QED BY <1>4, <1>5, <3>1, <3>2
  <2>3. PICK k \in 1..Len(d) : k < i + 1 /\ Carries(d[k]) /\ Follows(d[i + 1].run, d[k].run)
    BY <2>1, <2>2 DEF Track, NoneMissing
  <2>4. k # 1
    BY <1>1, <2>1, <2>3
  <2>5. k - 1 \in 1..Len(e) /\ e[k - 1] = d[k] /\ k - 1 < i
    BY <1>3, <2>3, <2>4
  <2> QED BY <2>1, <2>3, <2>5
<1>8. UpToNow(e, w, r)
  <2>1. CASE Carries(d[1])
    <3>1. Rank(v) < Rank(d[1].run) /\ Rank(d[1].run) <= Rank(r)
      BY <1>4, <2>1 DEF Track, InOrder
    <3>2. r # v
      BY <1>4, <1>5, <2>1, <3>1
    <3>3. PICK i \in 1..Len(d) : Carries(d[i]) /\ d[i].run = r
      BY <3>2 DEF Track, UpToNow
    <3> QED BY <1>1, <1>3, <2>1, <3>3 DEF UpToNow
  <2>2. CASE ~Carries(d[1])
    <3>1. w = v
      BY <1>1, <2>2
    <3>2. CASE r = v
      BY <3>1, <3>2 DEF UpToNow
    <3>3. CASE r # v
      <4>1. PICK i \in 1..Len(d) : Carries(d[i]) /\ d[i].run = r
        BY <3>3 DEF Track, UpToNow
      <4> QED BY <1>3, <2>2, <4>1 DEF UpToNow
    <3> QED BY <3>2, <3>3
  <2> QED BY <2>1, <2>2
<1>9. ByAnswer(e)
  BY <1>2 DEF Track, ByAnswer
<1> QED BY <1>6, <1>7, <1>8, <1>9 DEF Track, e

\* What the window hears of next follows what it shows.
LEMMA NextFollows ==
    ASSUME NEW d \in Seq(Wire), NEW v, NEW r, Track(d, v, r), d # <<>>, Carries(Head(d))
    PROVE  Follows(Head(d).run, v)
<1>1. Head(d) = d[1] /\ 1 \in 1..Len(d) /\ \A k \in 1..Len(d) : ~(k < 1)
  OBVIOUS
<1> QED BY <1>1 DEF Track, NoneMissing

\* No end of a run of this window is on its way if none is live here and none has been
\* accepted.
LEMMA NoEndHere ==
    ASSUME NEW d \in Seq(Wire), NEW v, NEW r, Track(d, v, r), ~Live(v), \A i \in 1..Len(d) : ~IsSent(d[i])
    PROVE  \A i \in 1..Len(d) : IsRun(d[i]) => ~d[i].run.here
<1> SUFFICES ASSUME NEW i \in 1..Len(d), IsRun(d[i]), d[i].run.here PROVE FALSE
  OBVIOUS
<1>1. ~Live(d[i].run) /\ Carries(d[i])
  BY DEF Track, ByAnswer, Carries
<1>2. PICK k \in 1..Len(d) : Carries(d[k]) /\ Follows(d[i].run, d[k].run)
  BY <1>1 DEF Track, NoneMissing, Follows
<1>3. IsRun(d[k]) /\ Live(d[k].run) /\ d[k].run.here
  BY <1>1, <1>2 DEF Carries, Follows
<1> QED BY <1>3 DEF Track, ByAnswer

\* With p whether a request is pending: at most one answer to a send is on its way, and only
\* while the request is pending; until it comes no run of this window is live in the window,
\* and none ends.
Expected(d, v, p) ==
    /\ \A i \in 1..Len(d) : IsSent(d[i]) =>
          /\ p /\ ~(Live(v) /\ v.here)
          /\ \A j \in 1..Len(d) : j < i /\ IsRun(d[j]) => ~d[j].run.here
    /\ \A i, j \in 1..Len(d) : IsSent(d[i]) /\ IsSent(d[j]) => i = j

\* The inductive invariant.
Heard ==
    /\ Track(down, view, run) /\ Expected(down, view, request.pending)
    /\ request.pending => request.final = "no"

LEMMA ExpectedAppend ==
    ASSUME NEW d \in Seq(Wire), NEW v, NEW p, Expected(d, v, p), NEW x \in Wire, ~IsSent(x)
    PROVE  Expected(Append(d, x), v, p)
<1> DEFINE e == Append(d, x)
<1>1. Len(e) = Len(d) + 1 /\ Len(d) \in Nat /\ (\A i \in 1..Len(d) : e[i] = d[i]) /\ e[Len(d) + 1] = x
  BY AppendAt
<1> HIDE DEF e
<1>2. \A i \in 1..Len(e) : IsSent(e[i]) => i \in 1..Len(d) /\ e[i] = d[i]
  BY <1>1
<1>3. \A i \in 1..Len(d) : \A j \in 1..Len(e) : j < i => j \in 1..Len(d) /\ e[j] = d[j]
  BY <1>1
<1> QED BY <1>2, <1>3 DEF Expected, e

LEMMA ExpectedAsk ==
    ASSUME NEW d \in Seq(Wire), NEW v, NEW p, \A i \in 1..Len(d) : ~IsSent(d[i]),
           ~Live(v), \A i \in 1..Len(d) : IsRun(d[i]) => ~d[i].run.here,
           p, NEW x \in Wire
    PROVE  Expected(Append(d, x), v, p)
<1> DEFINE e == Append(d, x)
<1>1. Len(e) = Len(d) + 1 /\ Len(d) \in Nat /\ (\A i \in 1..Len(d) : e[i] = d[i]) /\ e[Len(d) + 1] = x
  BY AppendAt
<1> HIDE DEF e
<1>2. \A i \in 1..Len(e) : IsSent(e[i]) => i = Len(d) + 1
  BY <1>1
<1>3. \A j \in 1..Len(e) : j < Len(d) + 1 => j \in 1..Len(d) /\ e[j] = d[j]
  BY <1>1
<1> QED BY <1>2, <1>3 DEF Expected, e

LEMMA ExpectedTail ==
    ASSUME NEW d \in Seq(Wire), NEW v, NEW w, NEW p, NEW q, Expected(d, v, p), d # <<>>,
           IsSent(Head(d)) \/ (p => q),
           w = v \/ IsSent(Head(d)) \/ (IsRun(Head(d)) /\ w = Head(d).run)
    PROVE  Expected(Tail(d), w, q)
<1> DEFINE e == Tail(d)
<1>1. /\ Len(e) = Len(d) - 1 /\ Len(d) \in Nat /\ Len(d) > 0
      /\ (\A i \in 1..(Len(d) - 1) : e[i] = d[i + 1]) /\ Head(d) = d[1]
  BY TailAt
<1> HIDE DEF e
<1>2. \A i \in 1..Len(e) : i + 1 \in 1..Len(d) /\ e[i] = d[i + 1] /\ 1 < i + 1 /\ i + 1 # 1
  BY <1>1
<1>3. 1 \in 1..Len(d)
  BY <1>1
<1>4. ASSUME NEW i \in 1..Len(e), IsSent(e[i])
      PROVE  /\ q /\ ~(Live(w) /\ w.here)
             /\ \A j \in 1..Len(e) : j < i /\ IsRun(e[j]) => ~e[j].run.here
  <2>1. i + 1 \in 1..Len(d) /\ IsSent(d[i + 1]) /\ 1 < i + 1
    BY <1>2, <1>4
  <2>2. ~IsSent(Head(d))
    BY <1>1, <1>2, <1>3, <2>1 DEF Expected
  <2>3. q
    BY <2>1, <2>2 DEF Expected
  <2>4. ~(Live(w) /\ w.here)
    BY <1>1, <1>3, <2>1, <2>2 DEF Expected
  <2>5. ASSUME NEW j \in 1..Len(e), j < i, IsRun(e[j]) PROVE ~e[j].run.here
    <3>1. j + 1 < i + 1 /\ j + 1 \in 1..Len(d) /\ e[j] = d[j + 1]
      BY <1>2, <2>5
    <3> QED BY <2>1, <2>5, <3>1 DEF Expected
  <2> QED BY <2>3, <2>4, <2>5
<1>5. ASSUME NEW i \in 1..Len(e), NEW j \in 1..Len(e), IsSent(e[i]), IsSent(e[j]) PROVE i = j
  <2>1. i + 1 = j + 1
    BY <1>2, <1>5 DEF Expected
  <2> QED BY <2>1
<1> QED BY <1>4, <1>5 DEF Expected, e

\* The messages that do not tell of a run.
LEMMA StateMessagesKind ==
    ASSUME NEW x, x.type \in {"state", "stale", "refused"}
    PROVE  ~Carries(x) /\ ~IsRun(x) /\ ~IsSent(x)
BY DEF Carries, IsRun, IsSent

LEMMA HeardStep == TypeOK /\ Heard /\ [Next]_vars => Heard'
<1> SUFFICES ASSUME TypeOK, Heard, [Next]_vars PROVE Heard'
  OBVIOUS
<1> USE DEF copies, appState, runs, history
<1>a. /\ down \in Seq(Wire) /\ view \in RunStates /\ run \in RunStates /\ RunTypeOK
      /\ request \in [pending : BOOLEAN, final : {"no", "drain", "plain"}, mine : BOOLEAN]
      /\ Track(down, view, run) /\ Expected(down, view, request.pending)
      /\ request.pending => request.final = "no"
  BY TypeParts DEF TypeOK, Heard
<1>b. ASSUME UNCHANGED <<down, view, run>>, request'.pending = request.pending,
             request'.pending => request'.final = "no"
      PROVE  Heard'
  BY <1>a, <1>b DEF Heard
<1>c. ASSUME UNCHANGED <<view, run, request>>, NEW x \in Wire, x.type \in {"state", "stale", "refused"},
             down' = Append(down, x)
      PROVE  Heard'
  <2>1. ~Carries(x) /\ ~IsRun(x) /\ ~IsSent(x)
    BY <1>c, StateMessagesKind
  <2>2. Track(Append(down, x), view, run) /\ Expected(Append(down, x), view, request.pending)
    BY <1>a, <2>1, TrackOther, ExpectedAppend
  <2> QED BY <1>a, <1>c, <2>2 DEF Heard
<1>d. ASSUME UNCHANGED <<view, run, request>>, Arrives("state") \/ Arrives("stale") \/ Arrives("refused")
      PROVE  Heard'
  <2>1. down # <<>> /\ down' = Tail(down) /\ Head(down).type \in {"state", "stale", "refused"}
    BY <1>d DEF Arrives
  <2>2. ~Carries(Head(down))
    BY <2>1, StateMessagesKind
  <2>3. Track(Tail(down), view, run)
    BY <1>a, <2>1, <2>2, TrackTail
  <2>4. Expected(Tail(down), view, request.pending)
    BY <1>a, <2>1, ExpectedTail
  <2> QED BY <1>a, <1>d, <2>1, <2>3, <2>4 DEF Heard
<1>e. ASSUME NEW flights \in SUBSET Flights, NEW mounted \in BOOLEAN, Begin(flights, mounted)
      PROVE  Heard'
  <2>1. Asks(flights, mounted)
    BY <1>e, BeginAsks
  <2>2. ~request.pending /\ ~Live(view) /\ request'.pending /\ request'.final = "no" /\ view' = view
    BY <2>1 DEF Asks
  <2>3. \A i \in 1..Len(down) : ~IsSent(down[i])
    BY <1>a, <2>2 DEF Expected
  <2>4. \A i \in 1..Len(down) : IsRun(down[i]) => ~down[i].run.here
    BY <1>a, <2>2, <2>3, NoEndHere
  <2>5. CASE StartRun(TRUE) /\ down' = Append(down, Answer(TRUE, run'))
    <3>1. /\ ~Live(run) /\ run' \in RunStates /\ run'.n = run.n + 1 /\ run'.here = TRUE /\ Live(run')
      BY <1>a, <2>5, StartRunTyped
    <3> DEFINE x == Answer(TRUE, run')
    <3>2. x \in Wire /\ IsSent(x) /\ Carries(x) /\ ~IsRun(x) /\ x.run = run'
      BY <3>1, OnTheWire DEF Answer, IsSent, Carries, IsRun
    <3> HIDE DEF x
    <3>3. Follows(x.run, run) /\ x.run.status # "none"
      BY <3>1, <3>2 DEF Follows, Live
    <3>4. Track(Append(down, x), view, run')
      BY <1>a, <3>1, <3>2, <3>3, TrackNext
    <3>5. Expected(Append(down, x), view, request'.pending)
      BY <1>a, <2>2, <2>3, <2>4, <3>2, ExpectedAsk
    <3> QED BY <2>2, <2>5, <3>4, <3>5 DEF Heard, x
  <2>6. CASE run' = run /\ down' = Append(down, Answer(FALSE, NoRun))
    <3> DEFINE x == Answer(FALSE, NoRun)
    <3>1. NoRun \in RunStates
      BY DEF NoRun, RunStates, Statuses
    <3>2. x \in Wire /\ IsSent(x) /\ ~Carries(x) /\ ~IsRun(x)
      BY <3>1, OnTheWire DEF Answer, IsSent, Carries, IsRun
    <3> HIDE DEF x
    <3>3. Track(Append(down, x), view, run)
      BY <1>a, <3>2, TrackOther
    <3>4. Expected(Append(down, x), view, request'.pending)
      BY <1>a, <2>2, <2>3, <2>4, <3>2, ExpectedAsk
    <3> QED BY <2>2, <2>6, <3>3, <3>4 DEF Heard, x
  <2> QED BY <2>1, <2>5, <2>6 DEF Asks
<1>f. ASSUME down' = Append(down, Runs(run')), run' \in RunStates, Follows(run', run), Live(run') => ~run'.here,
             run'.status # "none", UNCHANGED <<view, request>>
      PROVE  Heard'
  <2> DEFINE x == Runs(run')
  <2>1. x \in Wire /\ IsRun(x) /\ Carries(x) /\ ~IsSent(x) /\ x.run = run'
    BY <1>f, OnTheWire DEF Runs, IsSent, Carries, IsRun
  <2> HIDE DEF x
  <2>2. Track(Append(down, x), view, run')
    BY <1>a, <1>f, <2>1, TrackNext
  <2>3. Expected(Append(down, x), view, request.pending)
    BY <1>a, <2>1, ExpectedAppend
  <2> QED BY <1>a, <1>f, <2>2, <2>3 DEF Heard, x
<1>1. CASE PassiveEffects \/ ComposerEffect \/ Stop \/ Enter \/ UNCHANGED vars
  BY <1>a, <1>b, <1>1 DEF PassiveEffects, ComposerEffect, Stop, Enter, vars
<1>2. CASE CaptureDone \/ Leave
  <2>1. UNCHANGED <<down, view, run>>
        /\ (request' = [request EXCEPT !.final = "no"] \/ request' = [request EXCEPT !.mine = FALSE])
    BY <1>2 DEF CaptureDone, Leave
  <2>2. request'.pending = request.pending /\ (request'.final = "no" \/ request'.final = request.final)
    BY <1>a, <2>1
  <2> QED BY <1>a, <1>b, <2>1, <2>2
<1>3. CASE Submit
  <2>1. UNCHANGED <<view, run, request>>
        /\ \E x \in {State(TRUE), Stale, Refused} : down' = Append(down, x)
    BY <1>3 DEF Submit
  <2>2. State(TRUE) \in Wire /\ Stale \in Wire /\ Refused \in Wire
    <3>1. stored' \in Seq(Messages)
      BY TypeStep DEF TypeOK
    <3> QED BY <3>1, OnTheWire DEF State
  <2>3. State(TRUE).type = "state" /\ Stale.type = "stale" /\ Refused.type = "refused"
    BY DEF State, Stale, Refused
  <2> QED BY <1>c, <2>1, <2>2, <2>3
<1>4. CASE Elsewhere
  <2>1. UNCHANGED <<view, run, request>> /\ down' = Append(down, State(FALSE))
    BY <1>4 DEF Elsewhere
  <2>2. State(FALSE) \in Wire
    <3>1. stored' \in Seq(Messages)
      BY TypeStep DEF TypeOK
    <3> QED BY <3>1, OnTheWire DEF State
  <2>3. State(FALSE).type = "state"
    BY DEF State
  <2> QED BY <1>c, <2>1, <2>2, <2>3
<1>5. CASE ReceiveState \/ ReceiveStale \/ ReceiveRefused
  BY <1>d, <1>5 DEF ReceiveState, ReceiveStale, ReceiveRefused
<1>6. CASE ReceiveSent
  <2>1. /\ down # <<>> /\ down' = Tail(down) /\ Head(down).type = "sent" /\ run' = run
        /\ view' = (IF Head(down).ok THEN Head(down).run ELSE view)
        /\ request' = [request EXCEPT !.pending = @ /\ Head(down).ok]
    BY <1>6 DEF ReceiveSent, Arrives
  <2>2. IsSent(Head(down)) /\ (Carries(Head(down)) <=> Head(down).ok)
    BY <2>1 DEF IsSent, Carries, IsRun
  <2>3. Track(Tail(down), view', run)
    <3>1. view' = IF Carries(Head(down)) THEN Head(down).run ELSE view
      BY <2>1, <2>2
    <3> QED BY <1>a, <2>1, <3>1, TrackTail
  <2>4. Expected(Tail(down), view', request'.pending)
    BY <1>a, <2>1, <2>2, ExpectedTail
  <2>5. request'.final = request.final /\ (request'.pending => request.pending)
    <3>1. Head(down).ok \in BOOLEAN
      BY <1>a, <2>1, SetOfTail, WireFields
    <3> DEFINE ok == Head(down).ok
    <3>2. ok \in BOOLEAN /\ request' = [request EXCEPT !.pending = @ /\ ok]
      BY <2>1, <3>1
    <3> HIDE DEF ok
    <3> QED BY <1>a, <3>2
  <2> QED BY <1>a, <2>1, <2>3, <2>4, <2>5 DEF Heard
<1>7. CASE ReceiveRun
  <2> DEFINE r == Head(down).run
             ends == ~Live(r) /\ request.pending /\ r.here
             drains == r.status = "completed" \/ (r.status = "cancelled" /\ request.mine /\ composer.steer # None)
  <2>1. /\ down # <<>> /\ down' = Tail(down) /\ Head(down).type = "run" /\ run' = run
        /\ view' = r
        /\ request' = IF ~ends THEN request
                      ELSE [request EXCEPT !.pending = FALSE, !.final = IF drains THEN "drain" ELSE "plain"]
    BY <1>7 DEF ReceiveRun, Arrives
  <2>2. IsRun(Head(down)) /\ Carries(Head(down)) /\ ~IsSent(Head(down))
    BY <2>1 DEF IsRun, Carries, IsSent
  <2>3. Track(Tail(down), r, run)
    BY <1>a, <2>1, <2>2, TrackTail
  <2>4. CASE ~ends
    <3>1. request' = request
      BY <2>1, <2>4
    <3>2. Expected(Tail(down), r, request.pending)
      BY <1>a, <2>1, <2>2, ExpectedTail
    <3> QED BY <1>a, <2>1, <2>3, <3>1, <3>2 DEF Heard
  <2>5. CASE ends
    <3>1. request'.pending = FALSE
      <4> HIDE DEF drains, ends
      <4> QED BY <1>a, <2>1, <2>5
    <3>2. \A i \in 1..Len(down) : ~IsSent(down[i])
      <4> SUFFICES ASSUME NEW i \in 1..Len(down), IsSent(down[i]) PROVE FALSE
        OBVIOUS
      <4>1. 1 \in 1..Len(down) /\ Head(down) = down[1] /\ i # 1
        BY <1>a, <2>1, <2>2
      <4>2. 1 < i
        BY <4>1
      <4> QED BY <1>a, <2>2, <2>5, <4>1, <4>2 DEF Expected
    <3>3. \A i \in 1..Len(Tail(down)) : ~IsSent(Tail(down)[i])
      <4>1. \A i \in 1..Len(Tail(down)) : i + 1 \in 1..Len(down) /\ Tail(down)[i] = down[i + 1]
        BY <1>a, <2>1, TailAt
      <4> QED BY <3>2, <4>1
    <3>4. Expected(Tail(down), r, FALSE)
      BY <3>3 DEF Expected
    <3> QED BY <2>1, <2>3, <3>1, <3>4 DEF Heard
  <2> QED BY <2>4, <2>5
<1>8. CASE SendDirectly
  BY <1>e, <1>8 DEF SendDirectly
<1>10. CASE HandleSend
  <2>1. PICK f \in flying : Begin({f}, f.mounted) \/ NotBegun
    BY <1>10 DEF HandleSend
  <2>2. {f} \in SUBSET Flights /\ f.mounted \in BOOLEAN
    BY DEF TypeOK, Flights
  <2> QED BY <1>a, <1>b, <1>e, <2>1, <2>2 DEF NotBegun
<1>11. ASSUME NEW m \in Message, Compose(m) PROVE Heard'
  BY <1>a, <1>b, <1>11 DEF Compose
<1>12. ASSUME NEW m \in Messages, Steer(m) PROVE Heard'
  BY <1>a, <1>b, <1>12 DEF Steer
<1>13. ASSUME NEW m \in Messages, SendNow(m) PROVE Heard'
  <2>1. m \in Queued(local) /\ (Begin({Flight(ItemOf(local, m), "now")}, TRUE) \/ NotBegun)
    BY <1>13 DEF SendNow
  <2>2. {Flight(ItemOf(local, m), "now")} \in SUBSET Flights
    BY <2>1, ItemOfQueued, FlightTyped DEF TypeOK
  <2> QED BY <1>a, <1>b, <1>e, <2>1, <2>2 DEF NotBegun
<1>14. ASSUME NEW m \in Messages, Delete(m) PROVE Heard'
  BY <1>a, <1>b, <1>14 DEF Delete
<1>16. ASSUME NEW status \in {"completed", "failed", "cancelled"}, FinishRun(status) PROVE Heard'
  <2>1. Live(run) /\ run' = [run EXCEPT !.status = status] /\ down' = Append(down, Runs(run'))
        /\ UNCHANGED <<view, request>>
    BY <1>16 DEF FinishRun
  <2>2. run' \in RunStates /\ run'.n = run.n /\ run'.here = run.here /\ ~Live(run')
      /\ run'.status # "none"
    BY <1>a, <2>1 DEF RunStates, Statuses, Live
  <2>3. Follows(run', run)
    BY <2>1, <2>2 DEF Follows
  <2> QED BY <1>f, <2>1, <2>2, <2>3
<1>17. CASE RunElsewhere
  <2>1. StartRun(FALSE) /\ down' = Append(down, Runs(run')) /\ UNCHANGED <<view, request>>
    BY <1>17 DEF RunElsewhere
  <2>2. ~Live(run) /\ run' \in RunStates /\ run'.n = run.n + 1 /\ run'.here = FALSE /\ Live(run')
    BY <1>a, <2>1, StartRunTyped
  <2>3. Follows(run', run) /\ run'.status # "none"
    BY <2>2 DEF Follows, Live
  <2> QED BY <1>f, <2>1, <2>2, <2>3
<1>19. CASE Reopen
  <2>1. request' = Quiet /\ view' = run /\ down' = <<>> /\ run' = run
    BY <1>19 DEF Reopen
  <2>2. Track(<<>>, run, run) /\ Expected(<<>>, run, FALSE)
    BY DEF Track, InOrder, NoneMissing, UpToNow, ByAnswer, Expected
  <2> QED BY <2>1, <2>2 DEF Heard, Quiet
<1> QED
  BY <1>1, <1>2, <1>3, <1>4, <1>5, <1>6, <1>7, <1>8, <1>10, <1>11, <1>12, <1>13, <1>14, <1>16, <1>17,
     <1>19 DEF Next, Receive, End, Messages

-----------------------------------------------------------------------------
(***************************************************************************)
(* The steered message.                                                    *)
(***************************************************************************)

\* The inductive invariant: a message steered into a run this Composer has sent waits for
\* the end of that run, for the workspace diff, or for the drain that follows it.
Promise ==
    \/ request.pending /\ request.mine /\ Live(view) /\ view.here
    \/ request.mine /\ request.final = "drain"
    \/ composer.drain
PromiseKept == promised /\ composer.steer # None => Promise

LEMMA PromiseStep == TypeOK /\ Heard /\ PromiseKept /\ [Next]_vars => PromiseKept'
<1> SUFFICES ASSUME TypeOK, Heard, PromiseKept, [Next]_vars PROVE PromiseKept'
  OBVIOUS
<1> USE DEF copies, appState, runs, history
<1>a. /\ composer \in [mounted : BOOLEAN, steer : Items \cup {None}, was : BOOLEAN, drain : BOOLEAN]
      /\ request \in [pending : BOOLEAN, final : {"no", "drain", "plain"}, mine : BOOLEAN]
      /\ down \in Seq(Wire)
      /\ Track(down, view, run) /\ Expected(down, view, request.pending)
      /\ request.pending => request.final = "no"
  BY DEF TypeOK, Heard
<1>b. ASSUME UNCHANGED <<request, view, promised>>,
             composer'.steer # None => composer'.steer = composer.steer /\ composer'.drain = composer.drain
      PROVE  PromiseKept'
  BY <1>b DEF PromiseKept, Promise
<1>c. ASSUME NEW flights \in SUBSET Flights, NEW mounted \in BOOLEAN, Begin(flights, mounted), composer' = composer
      PROVE  PromiseKept'
  <2>1. ~request.pending /\ request.final = "no" /\ promised' = promised
    BY <1>c, BeginAsks DEF Asks
  <2>2. promised' /\ composer'.steer # None => composer'.drain
    BY <1>c, <2>1 DEF PromiseKept, Promise
  <2> QED BY <2>2 DEF PromiseKept, Promise
<1>1. CASE \/ PassiveEffects \/ Submit \/ ReceiveState \/ ReceiveStale \/ ReceiveRefused
           \/ Stop \/ Elsewhere \/ RunElsewhere \/ UNCHANGED vars
  BY <1>b, <1>1 DEF PassiveEffects, Submit, ReceiveState, ReceiveStale, ReceiveRefused, Stop, Elsewhere, RunElsewhere, vars
<1>2. CASE ComposerEffect
  <2>1. /\ UNCHANGED <<request, view, promised>>
        /\ \/ composer' = [composer EXCEPT !.was = TRUE]
           \/ composer' = [composer EXCEPT !.was = FALSE]
           \/ composer' = [composer EXCEPT !.was = FALSE, !.drain = FALSE, !.steer = None]
    BY <1>2 DEF ComposerEffect
  <2>2. composer'.steer # None => composer'.steer = composer.steer /\ composer'.drain = composer.drain
    BY <1>a, <2>1
  <2> QED BY <1>b, <2>1, <2>2
<1>3. CASE Enter \/ Leave \/ Reopen
  <2>1. composer' = Here \/ composer' = Away
    BY <1>3 DEF Enter, Leave, Reopen
  <2>2. composer'.steer = None
    BY <2>1 DEF Here, Away
  <2> QED BY <2>2 DEF PromiseKept
<1>4. CASE CaptureDone
  <2>1. request.final # "no" /\ request' = [request EXCEPT !.final = "no"] /\ UNCHANGED <<view, promised>>
        /\ composer' = [composer EXCEPT !.drain = @ \/ (request.final = "drain" /\ request.mine)]
    BY <1>4 DEF CaptureDone
  <2>2. ~request.pending
    BY <1>a, <2>1
  <2> DEFINE drain == composer.drain \/ (request.final = "drain" /\ request.mine)
  <2>3. composer'.steer = composer.steer /\ composer'.drain = drain
    <3>1. composer' = [composer EXCEPT !.drain = drain]
      BY <1>a, <2>1
    <3> HIDE DEF drain
    <3> QED BY <1>a, <3>1
  <2>4. promised' /\ composer'.steer # None => composer'.drain
    BY <2>1, <2>2, <2>3 DEF PromiseKept, Promise
  <2> QED BY <2>4 DEF PromiseKept, Promise
<1>5. CASE SendDirectly
  <2>1. {} \in SUBSET Flights
    OBVIOUS
  <2> QED BY <1>c, <1>5, <2>1 DEF SendDirectly
<1>6. CASE HandleSend
  <2>1. PICK f \in flying : Begin({f}, f.mounted) \/ NotBegun
    BY <1>6 DEF HandleSend
  <2>2. {f} \in SUBSET Flights /\ f.mounted \in BOOLEAN /\ composer' = composer
    BY <1>6 DEF TypeOK, Flights, HandleSend
  <2> QED BY <1>b, <1>c, <2>1, <2>2 DEF NotBegun
<1>7. ASSUME NEW m \in Message, Compose(m) PROVE PromiseKept'
  BY <1>b, <1>7 DEF Compose
<1>8. ASSUME NEW m \in Messages, Steer(m) PROVE PromiseKept'
  <2>1. promised' = (request.pending /\ request.mine /\ Live(view) /\ view.here) /\ UNCHANGED <<request, view>>
    BY <1>8 DEF Steer
  <2> QED BY <2>1 DEF PromiseKept, Promise
<1>9. ASSUME NEW m \in Messages, SendNow(m) PROVE PromiseKept'
  <2>1. m \in Queued(local) /\ (Begin({Flight(ItemOf(local, m), "now")}, TRUE) \/ NotBegun) /\ composer' = composer
    BY <1>9 DEF SendNow
  <2>2. {Flight(ItemOf(local, m), "now")} \in SUBSET Flights
    BY <2>1, ItemOfQueued, FlightTyped DEF TypeOK
  <2> QED BY <1>b, <1>c, <2>1, <2>2 DEF NotBegun
<1>10. ASSUME NEW m \in Messages, Delete(m) PROVE PromiseKept'
  BY <1>b, <1>10 DEF Delete
<1>11. ASSUME NEW status \in {"completed", "failed", "cancelled"}, FinishRun(status) PROVE PromiseKept'
  BY <1>b, <1>11 DEF FinishRun
<1>12. CASE ReceiveSent
  <2>1. /\ down # <<>> /\ Head(down).type = "sent" /\ UNCHANGED <<composer, promised>>
        /\ request' = [request EXCEPT !.pending = @ /\ Head(down).ok]
    BY <1>12 DEF ReceiveSent, Arrives
  <2>2. ~(Live(view) /\ view.here)
    <3>1. 1 \in 1..Len(down) /\ Head(down) = down[1]
      BY <1>a, <2>1
    <3> QED BY <1>a, <2>1, <3>1 DEF Expected, IsSent
  <2>3. request'.mine = request.mine /\ request'.final = request.final
    <3>1. Head(down).ok \in BOOLEAN
      BY <1>a, <2>1, SetOfTail, WireFields
    <3> DEFINE ok == Head(down).ok
    <3>2. ok \in BOOLEAN /\ request' = [request EXCEPT !.pending = @ /\ ok]
      BY <2>1, <3>1
    <3> HIDE DEF ok
    <3> QED BY <1>a, <3>2
  <2> QED BY <2>1, <2>2, <2>3 DEF PromiseKept, Promise
<1>13. CASE ReceiveRun
  <2> DEFINE r == Head(down).run
             ends == ~Live(r) /\ request.pending /\ r.here
             steered == request.mine /\ composer.steer # None
             drains == r.status = "completed" \/ (r.status = "cancelled" /\ steered)
             failed == ends /\ r.status = "failed"
  <2>1. /\ down # <<>> /\ Head(down).type = "run" /\ promised' = promised
        /\ view' = r
        /\ request' = (IF ~ends THEN request
                       ELSE [request EXCEPT !.pending = FALSE, !.final = IF drains THEN "drain" ELSE "plain"])
        /\ composer' = (IF failed /\ request.mine THEN [composer EXCEPT !.drain = FALSE, !.steer = None] ELSE composer)
    BY <1>13 DEF ReceiveRun, Arrives
  <2>2. Follows(r, view) /\ r \in RunStates /\ r.status # "none"
    <3>1. Carries(Head(down)) /\ IsRun(Head(down)) /\ Head(down) \in Wire
      BY <1>a, <2>1, SetOfTail DEF Carries, IsRun
    <3>2. 1 \in 1..Len(down) /\ Head(down) = down[1]
      BY <1>a, <2>1
    <3>3. r.status # "none"
      BY <1>a, <3>1, <3>2 DEF Track, ByAnswer
    <3> QED BY <1>a, <2>1, <3>1, <3>3, NextFollows, CarriesTyped
  <2> SUFFICES ASSUME promised', composer'.steer # None PROVE Promise'
    BY DEF PromiseKept
  <2>3. composer' = composer /\ ~(failed /\ request.mine)
    <3>1. CASE failed /\ request.mine
      <4> HIDE DEF failed
      <4>1. composer'.steer = None
        BY <1>a, <2>1, <3>1
      <4> QED BY <4>1
    <3> QED BY <2>1, <3>1
  <2>4. Promise
    BY <2>1, <2>3 DEF PromiseKept
  <2>5. CASE composer.drain
    BY <2>3, <2>5 DEF Promise
  <2>6. CASE request.mine /\ request.final = "drain"
    <3>1. ~ends
      BY <1>a, <2>6
    <3> QED BY <2>1, <2>6, <3>1 DEF Promise
  <2>7. CASE request.pending /\ request.mine /\ Live(view) /\ view.here
    <3>1. ends /\ steered
      BY <2>2, <2>3, <2>7 DEF Follows
    <3>2. r.status # "failed" /\ r.status # "live"
      <4>1. ~Live(r)
        BY <3>1
      <4>2. r.status # "failed"
        BY <2>3, <2>7, <3>1
      <4> QED BY <4>1, <4>2 DEF Live
    <3>3. r.status = "completed" \/ r.status = "cancelled"
      BY <2>2, <3>2 DEF RunStates, Statuses
    <3>4. drains
      BY <3>1, <3>3
    <3>5. request' = [request EXCEPT !.pending = FALSE, !.final = "drain"]
      <4>1. request' = [request EXCEPT !.pending = FALSE, !.final = IF drains THEN "drain" ELSE "plain"]
        BY <2>1, <3>1
      <4>2. (IF drains THEN "drain" ELSE "plain") = "drain"
        BY <3>4
      <4> HIDE DEF drains, ends
      <4> QED BY <4>1, <4>2
    <3>6. request'.mine = request.mine /\ request'.final = "drain"
      BY <1>a, <3>5
    <3> QED BY <2>7, <3>6 DEF Promise
  <2> QED BY <2>4, <2>5, <2>6, <2>7 DEF Promise
<1> QED
  BY <1>1, <1>2, <1>3, <1>4, <1>5, <1>6, <1>7, <1>8, <1>9, <1>10, <1>11, <1>12, <1>13 DEF Next, Receive, End, Messages

\* The inductive invariant holds when the window has been opened.
LEMMA HeardInit == Init => Heard /\ PromiseKept
<1> SUFFICES ASSUME Init PROVE Heard /\ PromiseKept
  OBVIOUS
<1>1. Track(<<>>, NoRun, NoRun) /\ Expected(<<>>, NoRun, FALSE)
  BY DEF Track, InOrder, NoneMissing, UpToNow, ByAnswer, Expected
<1>2. down = <<>> /\ view = NoRun /\ run = NoRun /\ request.pending = FALSE /\ ~promised
  BY DEF Init, Quiet
<1> QED BY <1>1, <1>2 DEF Heard, PromiseKept

\* A message steered into a run this Composer has sent does not stay behind, neither in the
\* queue nor sent: handleSteerQueuedMessage() keeps it for the end of the run, and whatever
\* that end is, onComplete, onError, onStop or the unmounting takes it from there.
THEOREM SteeredNotLeftBehind == Spec => []SteerKept
<1>1. TypeOK /\ Heard /\ PromiseKept /\ [Next]_vars => TypeOK' /\ Heard' /\ PromiseKept'
  BY TypeStep, HeardStep, PromiseStep
<1>2. PromiseKept => SteerKept
  <2> SUFFICES ASSUME PromiseKept, AtRest, promised PROVE composer.steer = None
    BY DEF SteerKept
  <2>1. ~request.pending /\ request.final = "no" /\ ~composer.drain
    BY DEF AtRest, Sending
  <2> QED BY <2>1 DEF PromiseKept, Promise
<1> QED BY InitTyped, HeardInit, <1>1, <1>2, PTL DEF Spec

-----------------------------------------------------------------------------
(***************************************************************************)
(* What the window holds.                                                  *)
(***************************************************************************)

\* With F the flights, d what is on its way and S the messages that were sent: at most one
\* flight is sent, its answer is on its way, and it is of those sent if the send is accepted.
OneAsked(F) == \A f, g \in F : f.sent /\ g.sent => f = g
AnswerComes(F, d) == \A f \in F : f.sent => \E i \in 1..Len(d) : IsSent(d[i])
AnswerTells(F, d, S) ==
    \A f \in F, i \in 1..Len(d) : f.sent /\ IsSent(d[i]) /\ d[i].ok => f.item.msg \in S
Awaits(F, d, S) == OneAsked(F) /\ AnswerComes(F, d) /\ AnswerTells(F, d, S)

\* A Composer that is not mounted holds no steered message.
Unmounted == ~composer.mounted => composer.steer = None

LEMMA AwaitsAppend ==
    ASSUME NEW F, NEW d \in Seq(Wire), NEW S, Awaits(F, d, S), NEW x \in Wire, ~IsSent(x)
    PROVE  Awaits(F, Append(d, x), S)
<1> DEFINE e == Append(d, x)
<1>1. Len(e) = Len(d) + 1 /\ Len(d) \in Nat /\ (\A i \in 1..Len(d) : e[i] = d[i]) /\ e[Len(d) + 1] = x
  BY AppendAt
<1> HIDE DEF e
<1>2. \A i \in 1..Len(d) : i \in 1..Len(e) /\ e[i] = d[i]
  BY <1>1
<1>3. \A i \in 1..Len(e) : IsSent(e[i]) => i \in 1..Len(d) /\ e[i] = d[i]
  BY <1>1
<1> QED BY <1>2, <1>3 DEF Awaits, AnswerComes, AnswerTells, e

LEMMA AwaitsTail ==
    ASSUME NEW F, NEW d \in Seq(Wire), NEW S, Awaits(F, d, S), d # <<>>, ~IsSent(Head(d))
    PROVE  Awaits(F, Tail(d), S)
<1> DEFINE e == Tail(d)
<1>1. /\ Len(e) = Len(d) - 1 /\ Len(d) \in Nat /\ Len(d) > 0
      /\ (\A i \in 1..(Len(d) - 1) : e[i] = d[i + 1]) /\ Head(d) = d[1]
  BY TailAt
<1> HIDE DEF e
<1>2. \A i \in 1..Len(e) : i + 1 \in 1..Len(d) /\ e[i] = d[i + 1]
  BY <1>1
<1>3. \A i \in 1..Len(d) : IsSent(d[i]) => i - 1 \in 1..Len(e) /\ e[i - 1] = d[i]
  BY <1>1
<1> QED BY <1>2, <1>3 DEF Awaits, AnswerComes, AnswerTells, e

\* A send: with A the flights that are sent, at most one, and no answer on its way before.
LEMMA AwaitsAsk ==
    ASSUME NEW F \in SUBSET Flights, NEW d \in Seq(Wire), NEW S, Awaits(F, d, S),
           \A i \in 1..Len(d) : ~IsSent(d[i]),
           NEW A \in SUBSET Flights, \A f, g \in A : f = g,
           NEW x \in Wire, IsSent(x), NEW T, S \subseteq T, x.ok => \A f \in A : f.item.msg \in T
    PROVE  Awaits((F \ A) \cup Sent(A), Append(d, x), T)
<1> DEFINE e == Append(d, x)
           G == (F \ A) \cup Sent(A)
<1>1. Len(e) = Len(d) + 1 /\ Len(d) \in Nat /\ (\A i \in 1..Len(d) : e[i] = d[i]) /\ e[Len(d) + 1] = x
  BY AppendAt
<1> HIDE DEF e
<1>2. \A f \in F : ~f.sent
  BY DEF Awaits, AnswerComes
<1>3. \A g \in G : g.sent => \E f \in A : g = [f EXCEPT !.sent = TRUE] /\ g.item = f.item
  BY <1>2 DEF Sent, Flights
<1> HIDE DEF G
<1>4. \A i \in 1..Len(e) : IsSent(e[i]) => e[i] = x
  BY <1>1
<1>5. Len(d) + 1 \in 1..Len(e)
  BY <1>1
<1>6. OneAsked(G)
  BY <1>3 DEF OneAsked
<1>7. AnswerComes(G, e)
  BY <1>1, <1>5 DEF AnswerComes
<1>8. AnswerTells(G, e, T)
  BY <1>3, <1>4 DEF AnswerTells
<1> QED BY <1>6, <1>7, <1>8 DEF Awaits, G, e

\* Fewer flights, and flights that have not been sent.
LEMMA AwaitsOthers ==
    ASSUME NEW F, NEW d, NEW S, Awaits(F, d, S), NEW G, \A g \in G : g \in F \/ ~g.sent
    PROVE  Awaits(G, d, S)
BY DEF Awaits, OneAsked, AnswerComes, AnswerTells

Awaiting == Unmounted /\ Awaits(flying, down, sent)

LEMMA AwaitingStep == TypeOK /\ Heard /\ Awaiting /\ [Next]_vars => Awaiting'
<1> SUFFICES ASSUME TypeOK, Heard, Awaiting, [Next]_vars PROVE Awaiting'
  OBVIOUS
<1> USE DEF copies, appState, runs, history
<1>a. /\ composer \in [mounted : BOOLEAN, steer : Items \cup {None}, was : BOOLEAN, drain : BOOLEAN]
      /\ flying \in SUBSET Flights /\ down \in Seq(Wire) /\ local \in Locals
      /\ Awaits(flying, down, sent) /\ Unmounted
  BY DEF TypeOK, Awaiting
<1>b. ASSUME UNCHANGED <<down, sent>>, \A g \in flying' : g \in flying \/ ~g.sent, Unmounted'
      PROVE  Awaiting'
  BY <1>a, <1>b, AwaitsOthers DEF Awaiting
<1>c. ASSUME UNCHANGED <<flying, sent, composer>>, NEW x \in Wire, ~IsSent(x), down' = Append(down, x)
      PROVE  Awaiting'
  BY <1>a, <1>c, AwaitsAppend DEF Awaiting, Unmounted
<1>d. ASSUME UNCHANGED <<flying, sent>>, down # <<>>, down' = Tail(down), Head(down).type # "sent", Unmounted'
      PROVE  Awaiting'
  BY <1>a, <1>d, AwaitsTail DEF Awaiting, IsSent
<1>e. ASSUME NEW flights \in SUBSET Flights, NEW mounted \in BOOLEAN, Begin(flights, mounted),
             \A f, g \in flights : f = g, composer' = composer
      PROVE  Awaiting'
  <2>1. Asks(flights, mounted)
    BY <1>e, BeginAsks
  <2>2. \A i \in 1..Len(down) : ~IsSent(down[i])
    BY <2>1 DEF Asks, Heard, Expected
  <2>3. flying' = (flying \ flights) \cup Sent(flights)
    BY <2>1 DEF Asks
  <2>4. CASE StartRun(TRUE) /\ down' = Append(down, Answer(TRUE, run')) /\ sent' = sent \cup {f.item.msg : f \in flights}
    <3>1. run' \in RunStates
      BY <2>4, StartRunTyped, TypeParts
    <3> DEFINE x == Answer(TRUE, run')
    <3>2. x \in Wire /\ IsSent(x)
      BY <3>1, OnTheWire DEF Answer, IsSent
    <3>3. sent \subseteq sent' /\ \A f \in flights : f.item.msg \in sent'
      BY <2>4
    <3>4. down' = Append(down, x)
      BY <2>4
    <3> HIDE DEF x
    <3> QED BY <1>a, <1>e, <2>2, <2>3, <3>2, <3>3, <3>4, AwaitsAsk DEF Awaiting, Unmounted
  <2>5. CASE down' = Append(down, Answer(FALSE, NoRun)) /\ sent' = sent
    <3> DEFINE x == Answer(FALSE, NoRun)
    <3>1. NoRun \in RunStates
      BY DEF NoRun, RunStates, Statuses
    <3>2. x \in Wire /\ IsSent(x) /\ ~x.ok
      BY <3>1, OnTheWire DEF Answer, IsSent
    <3>3. down' = Append(down, x)
      BY <2>5
    <3> HIDE DEF x
    <3>4. sent \subseteq sent' /\ (x.ok => \A f \in flights : f.item.msg \in sent')
      BY <2>5, <3>2
    <3>5. Awaits((flying \ flights) \cup Sent(flights), Append(down, x), sent')
      BY <1>a, <1>e, <2>2, <3>2, <3>4, AwaitsAsk
    <3> QED BY <1>a, <1>e, <2>3, <3>3, <3>5 DEF Awaiting, Unmounted
  <2> QED BY <2>1, <2>4, <2>5 DEF Asks
<1>1. CASE PassiveEffects \/ Stop \/ Enter \/ UNCHANGED vars
  BY <1>a, <1>b, <1>1 DEF PassiveEffects, Stop, Enter, vars, Unmounted, Here, Away
<1>2. CASE CaptureDone
  <2>1. composer'.mounted = composer.mounted /\ composer'.steer = composer.steer
    BY <1>a, <1>2 DEF CaptureDone
  <2> QED BY <1>a, <1>b, <1>2, <2>1 DEF CaptureDone, Unmounted
<1>3. CASE Submit
  <2>1. UNCHANGED <<flying, sent, composer>>
        /\ \E x \in {State(TRUE), Stale, Refused} : down' = Append(down, x)
    BY <1>3 DEF Submit
  <2>2. \A x \in {State(TRUE), Stale, Refused} : x \in Wire /\ ~IsSent(x)
    <3>1. stored' \in Seq(Messages)
      BY TypeStep DEF TypeOK
    <3>2. State(TRUE) \in Wire /\ Stale \in Wire /\ Refused \in Wire
      BY <3>1, OnTheWire DEF State
    <3>3. ~IsSent(State(TRUE)) /\ ~IsSent(Stale) /\ ~IsSent(Refused)
      BY DEF State, Stale, Refused, IsSent
    <3> QED BY <3>2, <3>3
  <2> QED BY <1>c, <2>1, <2>2
<1>4. CASE Elsewhere
  <2>1. UNCHANGED <<flying, sent, composer>> /\ down' = Append(down, State(FALSE))
    BY <1>4 DEF Elsewhere
  <2>2. State(FALSE) \in Wire /\ ~IsSent(State(FALSE))
    <3>1. stored' \in Seq(Messages)
      BY TypeStep DEF TypeOK
    <3> QED BY <3>1, OnTheWire DEF State, IsSent
  <2> QED BY <1>c, <2>1, <2>2
<1>5. CASE ReceiveState \/ ReceiveStale \/ ReceiveRefused
  BY <1>a, <1>d, <1>5 DEF ReceiveState, ReceiveStale, ReceiveRefused, Arrives, Unmounted
<1>6. CASE ReceiveSent
  <2>1. \A g \in flying' : g \in flying /\ ~g.sent
    BY <1>6 DEF ReceiveSent
  <2> QED BY <1>a, <1>6, <2>1 DEF ReceiveSent, Awaiting, Awaits, OneAsked, AnswerComes, AnswerTells, Unmounted
<1>7. CASE ReceiveRun
  <2>1. composer' = [composer EXCEPT !.drain = FALSE, !.steer = None] \/ composer' = composer
    BY <1>7 DEF ReceiveRun
  <2>2. Unmounted'
    BY <1>a, <2>1 DEF Unmounted
  <2> QED BY <1>d, <1>7, <2>2 DEF ReceiveRun, Arrives
<1>8. CASE SendDirectly
  <2>1. Begin({}, TRUE) /\ composer' = composer
    BY <1>8 DEF SendDirectly
  <2>2. {} \in SUBSET Flights
    OBVIOUS
  <2> QED BY <1>e, <2>1, <2>2
<1>9. CASE ComposerEffect
  <2>1. /\ UNCHANGED <<down, sent>>
        /\ \/ composer' = [composer EXCEPT !.was = TRUE]
           \/ composer' = [composer EXCEPT !.was = FALSE]
           \/ composer' = [composer EXCEPT !.was = FALSE, !.drain = FALSE, !.steer = None]
        /\ \/ UNCHANGED flying
           \/ flying' = flying \cup {Flight(composer.steer, "steer")}
           \/ flying' = flying \cup {Flight(Head(local.queue), "auto")}
    BY <1>9 DEF ComposerEffect
  <2>2. Unmounted'
    BY <1>a, <2>1 DEF Unmounted
  <2>3. \A g \in flying' : g \in flying \/ ~g.sent
    BY <2>1 DEF Flight
  <2> QED BY <1>b, <2>1, <2>2, <2>3
<1>10. CASE HandleSend
  <2>1. PICK f \in flying : Begin({f}, f.mounted) \/ (NotBegun /\ flying' = flying \ {f})
    BY <1>10 DEF HandleSend
  <2>2. {f} \in SUBSET Flights /\ f.mounted \in BOOLEAN /\ composer' = composer
    BY <1>a, <1>10 DEF Flights, HandleSend
  <2>3. CASE Begin({f}, f.mounted)
    BY <1>e, <2>2, <2>3
  <2>4. CASE NotBegun /\ flying' = flying \ {f}
    BY <1>a, <1>b, <2>2, <2>4 DEF NotBegun, Unmounted
  <2> QED BY <2>1, <2>3, <2>4
<1>11. ASSUME NEW m \in Message, Compose(m) PROVE Awaiting'
  BY <1>a, <1>b, <1>11 DEF Compose, Unmounted
<1>12. ASSUME NEW m \in Messages, Steer(m) PROVE Awaiting'
  <2>1. composer.mounted /\ composer' = [composer EXCEPT !.steer = ItemOf(local, m)] /\ UNCHANGED <<down, sent, flying>>
    BY <1>12 DEF Steer, AtKeyboard
  <2>2. Unmounted'
    BY <1>a, <2>1 DEF Unmounted
  <2> QED BY <1>b, <2>1, <2>2
<1>13. ASSUME NEW m \in Messages, SendNow(m) PROVE Awaiting'
  <2>1. /\ m \in Queued(local) /\ composer' = composer
        /\ Begin({Flight(ItemOf(local, m), "now")}, TRUE) \/ (NotBegun /\ UNCHANGED flying)
    BY <1>13 DEF SendNow
  <2>2. {Flight(ItemOf(local, m), "now")} \in SUBSET Flights
    BY <1>a, <2>1, ItemOfQueued, FlightTyped
  <2>3. CASE Begin({Flight(ItemOf(local, m), "now")}, TRUE)
    BY <1>e, <2>1, <2>2, <2>3
  <2>4. CASE NotBegun /\ UNCHANGED flying
    BY <1>a, <1>b, <2>1, <2>4 DEF NotBegun, Unmounted
  <2> QED BY <2>1, <2>3, <2>4
<1>14. ASSUME NEW m \in Messages, Delete(m) PROVE Awaiting'
  BY <1>a, <1>b, <1>14 DEF Delete, Unmounted
<1>15. CASE End \/ RunElsewhere
  <2>1. UNCHANGED <<flying, sent, composer>> /\ down' = Append(down, Runs(run'))
    BY <1>15 DEF End, FinishRun, RunElsewhere
  <2>2. Runs(run') \in Wire /\ ~IsSent(Runs(run'))
    <3>1. run' \in RunStates
      BY TypeStep DEF TypeOK
    <3> QED BY <3>1, OnTheWire DEF Runs, IsSent
  <2> QED BY <1>c, <2>1, <2>2
<1>16. CASE Leave
  <2>1. composer' = Away /\ flying' = {[f EXCEPT !.mounted = FALSE] : f \in flying} /\ UNCHANGED <<down, sent>>
    BY <1>16 DEF Leave
  <2>2. \A g \in flying' : \E f \in flying : g = [f EXCEPT !.mounted = FALSE]
    BY <2>1
  <2>3. \A f \in flying : \A g : g = [f EXCEPT !.mounted = FALSE] => g.sent = f.sent /\ g.item = f.item
    BY <1>a DEF Flights
  <2>4. \A g \in flying' : g.sent => \E f \in flying : f.sent /\ g = [f EXCEPT !.mounted = FALSE] /\ g.item = f.item
    BY <2>2, <2>3
  <2>5. OneAsked(flying') /\ AnswerComes(flying', down) /\ AnswerTells(flying', down, sent)
    <3>1. OneAsked(flying')
      BY <1>a, <2>4 DEF Awaits, OneAsked
    <3>2. AnswerComes(flying', down)
      BY <1>a, <2>4 DEF Awaits, AnswerComes
    <3>3. AnswerTells(flying', down, sent)
      BY <1>a, <2>4 DEF Awaits, AnswerTells
    <3> QED BY <3>1, <3>2, <3>3
  <2> QED BY <2>1, <2>5 DEF Awaiting, Awaits, Unmounted, Away
<1>17. CASE Reopen
  BY <1>17 DEF Reopen, Awaiting, Awaits, OneAsked, AnswerComes, AnswerTells, Unmounted, Here, Away
<1> QED
  BY <1>1, <1>2, <1>3, <1>4, <1>5, <1>6, <1>7, <1>8, <1>9, <1>10, <1>11, <1>12, <1>13, <1>14, <1>15, <1>16,
     <1>17 DEF Next, Receive, Messages

\* A message of the queue that the window has also spent is in flight, or was sent.
Tombstones == \A m \in Queued(local) \cap local.spent :
    m \in sent \/ \E f \in flying : f.item.msg = m

\* The same of a step: what the window holds stays with it, as NothingDropped says.
NothingLost == \A m \in Message : Held(m) =>
    \/ Held(m)' \/ m \in sent' \/ Delete(m)
    \/ Reopen
    \/ due /\ ~due' /\ m \notin ToSet(local.work)

\* The queue changes to that of c: nothing the window held is missing from c, unless it is
\* in flight, steered or sent afterwards.
WillFly(m) == \E f \in flying' : f.item.msg = m
Handed(c) ==
    /\ \A f \in flying : WillFly(f.item.msg) \/ f.item.msg \in sent' \/ f.item.msg \in Queued(c) \ c.spent
    /\ composer.steer # None =>
          \/ composer'.steer = composer.steer
          \/ WillFly(composer.steer.msg)
          \/ composer.steer.msg \in Queued(c) \ c.spent
    /\ \A m \in Queued(local) :
          \/ m \in Queued(c) \/ WillFly(m) \/ m \in sent' \/ Delete(m)
          \/ composer'.steer # None /\ composer'.steer.msg = m
    /\ \A m \in Queued(c) \cap c.spent : m \in Queued(local) \cap local.spent \/ WillFly(m)
    /\ sent \subseteq sent'

LEMMA HandedOn ==
    ASSUME Tombstones, NEW c, Handed(c),
           Queued(local') \cap local'.spent \subseteq Queued(c) \cap c.spent,
           \A m \in Queued(c) :
              m \in Queued(local') \/ m \in c.spent \/ (due /\ ~due' /\ m \notin ToSet(local.work))
    PROVE  Tombstones' /\ NothingLost
<1>1. ASSUME NEW m \in Queued(c) \cap c.spent PROVE m \in sent' \/ WillFly(m)
  <2>1. CASE m \in Queued(local) \cap local.spent
    <3>1. m \in sent \/ \E f \in flying : f.item.msg = m
      BY <2>1 DEF Tombstones
    <3> QED BY <1>1, <3>1 DEF Handed
  <2> QED BY <1>1, <2>1 DEF Handed
<1>2. Tombstones'
  <2> SUFFICES ASSUME NEW m \in Queued(local') \cap local'.spent
               PROVE  m \in sent' \/ \E f \in flying' : f.item.msg = m
    BY DEF Tombstones
  <2>1. m \in Queued(c) \cap c.spent
    OBVIOUS
  <2> QED BY <1>1, <2>1 DEF WillFly
<1>3. NothingLost
  <2> SUFFICES ASSUME NEW m \in Message, Held(m), ~Held(m)', m \notin sent', ~Delete(m),
                      ~(due /\ ~due' /\ m \notin ToSet(local.work))
               PROVE  FALSE
    BY DEF NothingLost
  <2>1. ~WillFly(m) /\ m \notin Queued(local') /\ ~(composer'.steer # None /\ composer'.steer.msg = m)
    BY DEF Held, WillFly
  <2>2. m \notin Queued(c)
    BY <1>1, <2>1
  <2>3. m \notin Queued(local)
    BY <2>1, <2>2 DEF Handed
  <2>4. ~(composer.steer # None /\ composer.steer.msg = m)
    BY <2>1, <2>2 DEF Handed
  <2>5. ~\E f \in flying : f.item.msg = m
    BY <2>1, <2>2 DEF Handed
  <2> QED BY <2>3, <2>4, <2>5 DEF Held
<1> QED BY <1>2, <1>3

\* By effects, or because the queue does not change.
LEMMA HandedByChange ==
    ASSUME Tombstones, NEW c \in Locals, c.work = local.work, Handed(c), Change(c)
    PROVE  Tombstones' /\ NothingLost
<1>1. Changes(c)
  BY ChangeChanges
<1> QED BY <1>1, HandedOn DEF Changes, ComparedFrom

LEMMA HandedAsItIs ==
    ASSUME Tombstones, Handed(local), Queued(local') = Queued(local), local'.spent = local.spent
    PROVE  Tombstones' /\ NothingLost
BY HandedOn

\* The ids of the queue after an operation.
LEMMA OperationsQueue ==
    ASSUME QueueTypeOK
    PROVE  /\ \A m \in Message : LET d == Enqueued(local, m) IN
                 d.work = local.work /\ Queued(d) = Queued(local) \cup {m} /\ d.spent = local.spent \ {m}
           /\ \A m \in Messages : LET d == Removed(local, m) IN
                 d.work = local.work /\ Queued(d) = Queued(local) \ {m} /\ d.spent = local.spent \cup {m}
           /\ local.queue # <<>> => LET d == Shifted(local) m == Head(local.queue).msg IN
                 d.work = local.work /\ Queued(local) = Queued(d) \cup {m} /\ d.spent = local.spent \cup {m}
           /\ \A item \in Items : LET d == Unshifted(local, item) IN
                 /\ d.work = local.work /\ Queued(d) = Queued(local) \cup {item.msg}
                 /\ d.spent = local.spent \ {item.msg}
           /\ \A m \in Messages, item \in Items : LET d == Unshifted(Removed(local, m), item) IN
                 /\ d.work = local.work /\ Queued(d) = (Queued(local) \ {m}) \cup {item.msg}
                 /\ d.spent = (local.spent \cup {m}) \ {item.msg}
<1>0. local \in Locals
  BY OperationsTyped
<1>1. ASSUME NEW m \in Message
      PROVE  LET d == Enqueued(local, m) IN
             d.work = local.work /\ Queued(d) = Queued(local) \cup {m} /\ d.spent = local.spent \ {m}
  <2> DEFINE d == Enqueued(local, m)
             x == [msg |-> m, confirm |-> FALSE]
  <2>1. /\ d \in Locals /\ SameCopy(local, d) /\ d.spent = local.spent \ {m}
        /\ ToSet(d.queue) = ToSet(local.queue) \cup {x} /\ x.msg = m
    BY <1>0, EnqueuedIds
  <2> HIDE DEF d, x
  <2>2. Queued(d) = {item.msg : item \in ToSet(d.queue)} /\ Queued(local) = {item.msg : item \in ToSet(local.queue)}
    BY <1>0, <2>1, QueuedMsgs
  <2>3. Queued(d) = Queued(local) \cup {m}
    BY <2>1, <2>2
  <2> QED BY <2>1, <2>3 DEF SameCopy, d
<1>2. ASSUME NEW c \in Locals, NEW m \in Messages
      PROVE  LET d == Removed(c, m) IN
             /\ d \in Locals /\ d.work = c.work
             /\ Queued(d) = Queued(c) \ {m} /\ d.spent = c.spent \cup {m}
  <2> DEFINE d == Removed(c, m)
  <2>1. /\ d \in Locals /\ SameCopy(c, d) /\ d.spent = c.spent \cup {m}
        /\ ToSet(d.queue) = {item \in ToSet(c.queue) : item.msg # m}
    BY RemovedIds
  <2> HIDE DEF d
  <2>2. Queued(d) = {item.msg : item \in ToSet(d.queue)} /\ Queued(c) = {item.msg : item \in ToSet(c.queue)}
    BY <2>1, QueuedMsgs
  <2>3. Queued(d) = Queued(c) \ {m}
    BY <2>1, <2>2
  <2> QED BY <2>1, <2>3 DEF SameCopy, d
<1>3. ASSUME local.queue # <<>>
      PROVE  LET d == Shifted(local) m == Head(local.queue).msg IN
             d.work = local.work /\ Queued(local) = Queued(d) \cup {m} /\ d.spent = local.spent \cup {m}
  <2> DEFINE d == Shifted(local)
             item == Head(local.queue)
  <2>1. /\ d \in Locals /\ SameCopy(local, d) /\ d.spent = local.spent \cup {item.msg}
        /\ ToSet(local.queue) = ToSet(d.queue) \cup {item}
    BY <1>0, <1>3, ShiftedIds
  <2> HIDE DEF d, item
  <2>2. Queued(d) = {x.msg : x \in ToSet(d.queue)} /\ Queued(local) = {x.msg : x \in ToSet(local.queue)}
    BY <1>0, <2>1, QueuedMsgs
  <2>3. Queued(local) = Queued(d) \cup {item.msg}
    BY <2>1, <2>2
  <2> QED BY <2>1, <2>3 DEF SameCopy, d, item
<1>4. ASSUME NEW c \in Locals, NEW item \in Items
      PROVE  LET d == Unshifted(c, item) IN
             /\ d.work = c.work /\ Queued(d) = Queued(c) \cup {item.msg}
             /\ d.spent = c.spent \ {item.msg}
  <2> DEFINE d == Unshifted(c, item)
  <2>1. /\ d \in Locals /\ SameCopy(c, d) /\ d.spent = c.spent \ {item.msg}
        /\ ToSet(d.queue) = ToSet(c.queue) \cup {item}
    BY UnshiftedIds
  <2> HIDE DEF d
  <2>2. Queued(d) = {x.msg : x \in ToSet(d.queue)} /\ Queued(c) = {x.msg : x \in ToSet(c.queue)}
    BY <2>1, QueuedMsgs
  <2>3. Queued(d) = Queued(c) \cup {item.msg}
    BY <2>1, <2>2
  <2> QED BY <2>1, <2>3 DEF SameCopy, d
<1>5. ASSUME NEW m \in Messages, NEW item \in Items
      PROVE  LET d == Unshifted(Removed(local, m), item) IN
             /\ d.work = local.work /\ Queued(d) = (Queued(local) \ {m}) \cup {item.msg}
             /\ d.spent = (local.spent \cup {m}) \ {item.msg}
  <2> DEFINE c == Removed(local, m)
  <2>1. c \in Locals /\ c.work = local.work /\ Queued(c) = Queued(local) \ {m} /\ c.spent = local.spent \cup {m}
    BY <1>0, <1>2
  <2> HIDE DEF c
  <2>2. LET d == Unshifted(c, item) IN
        d.work = c.work /\ Queued(d) = Queued(c) \cup {item.msg} /\ d.spent = c.spent \ {item.msg}
    BY <1>4, <2>1
  <2> QED BY <2>1, <2>2 DEF c
<1> QED BY <1>0, <1>1, <1>2, <1>3, <1>4, <1>5

LEMMA KeepStep ==
    TypeOK /\ Heard /\ Awaiting /\ Tombstones /\ [Next]_vars => Tombstones' /\ NothingLost
<1> SUFFICES ASSUME TypeOK, Heard, Awaiting, Tombstones, [Next]_vars PROVE Tombstones' /\ NothingLost
  OBVIOUS
<1> USE DEF copies, appState, runs, history
<1>a. /\ local \in Locals /\ QueueTypeOK /\ Tombstones /\ down \in Seq(Wire)
      /\ composer \in [mounted : BOOLEAN, steer : Items \cup {None}, was : BOOLEAN, drain : BOOLEAN]
      /\ flying \in SUBSET Flights
      /\ \A f \in flying : f.item \in Items
      /\ \A item \in Items : item.msg \in Messages
      /\ OneAsked(flying) /\ AnswerTells(flying, down, sent) /\ Unmounted
  BY TypeParts DEF TypeOK, Awaiting, Awaits, Flights, Items
<1>b. /\ \A m \in Messages : LET d == Removed(local, m) IN
            d \in Locals /\ d.work = local.work /\ Queued(d) = Queued(local) \ {m} /\ d.spent = local.spent \cup {m}
      /\ \A item \in Items : LET d == Unshifted(local, item) IN
            /\ d \in Locals /\ d.work = local.work
            /\ Queued(d) = Queued(local) \cup {item.msg} /\ d.spent = local.spent \ {item.msg}
  BY <1>a, OperationsTyped, OperationsQueue
<1>c. ASSUME flying' = flying, composer'.steer = composer.steer, sent' = sent
      PROVE  Handed(local)
  BY <1>c DEF Handed, WillFly
<1>d. ASSUME flying' = flying, composer'.steer = composer.steer, sent' = sent,
             local'.queue = local.queue, local'.spent = local.spent
      PROVE  Tombstones' /\ NothingLost
  BY <1>a, <1>c, <1>d, HandedAsItIs DEF Queued
<1>e. ASSUME NEW flights \in SUBSET Flights, NEW mounted \in BOOLEAN, Begin(flights, mounted)
      PROVE  /\ \A f \in flying \cup flights : WillFly(f.item.msg)
             /\ sent \subseteq sent'
  <2>1. Asks(flights, mounted)
    BY <1>e, BeginAsks
  <2>2. flying' = (flying \ flights) \cup Sent(flights) /\ sent \subseteq sent'
    BY <2>1 DEF Asks
  <2>3. \A f \in flights : \E g \in Sent(flights) : g.item = f.item
    BY SentTyped
  <2> QED BY <2>2, <2>3 DEF WillFly
<1>1. CASE PassiveEffects
  BY <1>a, <1>c, <1>1, HandedByChange DEF PassiveEffects
<1>2. CASE Submit \/ ReceiveStale \/ ReceiveRefused
  <2>1. local'.queue = local.queue /\ local'.spent = local.spent
    BY <1>a, <1>2 DEF Submit, ReceiveStale, ReceiveRefused, Locals
  <2> QED BY <1>d, <1>2, <2>1 DEF Submit, ReceiveStale, ReceiveRefused
<1>3. CASE Stop \/ End \/ Elsewhere \/ RunElsewhere \/ UNCHANGED vars
  BY <1>d, <1>3 DEF Stop, End, FinishRun, Elsewhere, RunElsewhere, vars
<1>4. CASE CaptureDone \/ Enter
  <2>1. composer'.steer = composer.steer
    BY <1>a, <1>4 DEF CaptureDone, Enter, Here, Away, Unmounted
  <2> QED BY <1>d, <1>4, <2>1 DEF CaptureDone, Enter
<1>5. CASE ReceiveState
  <2> DEFINE kept == local.dirty \/ local.waiting
             late == due /\ Differs(local)
             before == IF late THEN Synced(local) ELSE local
             next == [before EXCEPT !.work = IF kept THEN @ ELSE Head(down).work,
                                    !.waiting = @ /\ ~Head(down).answer,
                                    !.behind = @ /\ kept]
  <2>1. local' = (IF late THEN Pushed(next) ELSE next) /\ due' = ~late
        /\ UNCHANGED <<composer, flying, sent>>
    BY <1>5 DEF ReceiveState
  <2>2. before \in Locals
    BY <1>a, SyncedIds
  <2>3. next \in Locals /\ next.queue = before.queue /\ next.spent = before.spent
    <3>1. Head(down).work \in Seq(Messages) /\ Head(down).answer \in BOOLEAN
      <4>1. down \in Seq(Wire) /\ down # <<>> /\ Head(down).type = "state"
        BY <1>5 DEF ReceiveState, Arrives, TypeOK
      <4> QED BY <4>1, SetOfTail, WireFields
    <3> HIDE DEF before, kept
    <3> QED BY <2>2, <3>1 DEF Locals
  <2>4. Handed(local)
    BY <1>c, <2>1
  <2>5. CASE late
    <3>1. before = Synced(local)
      BY <2>5
    <3> HIDE DEF next, before
    <3>2. local'.queue = before.queue /\ local'.spent = before.spent /\ ~due'
      BY <2>1, <2>3, <2>5, PushedIds
    <3>3. ComparedFrom(local, before) /\ Leaves(local, before)
      BY <1>a, <3>1, SyncedIds
    <3>4. Queued(local') = Queued(before)
      BY <3>2 DEF Queued
    <3>5. Queued(local') \cap local'.spent \subseteq Queued(local) \cap local.spent
      BY <3>2, <3>3, <3>4 DEF ComparedFrom
    <3>6. \A m \in Queued(local) :
             m \in Queued(local') \/ m \in local.spent \/ (due /\ ~due' /\ m \notin ToSet(local.work))
      BY <2>5, <3>2, <3>3, <3>4 DEF Leaves
    <3> QED BY <2>4, <3>5, <3>6, HandedOn
  <2>6. CASE ~late
    <3>1. before = local /\ local' = next
      BY <2>1, <2>6
    <3> HIDE DEF next, before
    <3> QED BY <1>d, <2>1, <2>3, <3>1
  <2> QED BY <2>5, <2>6
<1>6. CASE ReceiveSent
  <2> DEFINE flights == {f \in flying : f.sent}
             flight == CHOOSE f \in flights : TRUE
             item == flight.item
             ok == Head(down).ok
             back == item.msg \in Queued(local) /\ flight.how # "now"
  <2>1. /\ UNCHANGED <<composer, sent>> /\ flying' = flying \ flights
        /\ IF flights = {} \/ (ok /\ ~back) THEN UNCHANGED copies
           ELSE Change(IF ok THEN Removed(local, item.msg) ELSE Unshifted(local, item))
        /\ down # <<>> /\ Head(down).type = "sent"
    BY <1>6 DEF ReceiveSent, Arrives
  <2>2. CASE flights = {}
    BY <1>d, <2>1, <2>2
  <2>3. CASE flights # {}
    <3>1. flight \in flying /\ flight.sent
      BY <2>3
    <3>2. \A f \in flying : f = flight \/ f \in flying'
      BY <1>a, <2>1, <3>1 DEF OneAsked
    <3>3. item \in Items /\ item.msg \in Messages
      BY <1>a, <3>1
    <3>4. ok => item.msg \in sent'
      <4>1. 1 \in 1..Len(down) /\ Head(down) = down[1]
        BY <1>a, <2>1
      <4> QED BY <1>a, <2>1, <3>1, <4>1 DEF AnswerTells, IsSent
    <3> HIDE DEF flights, flight
    <3>5. CASE ok /\ ~back
      <4>1. local' = local
        BY <2>1, <3>5
      <4>2. Handed(local)
        BY <2>1, <3>2, <3>4, <3>5 DEF Handed, WillFly
      <4> QED BY <4>1, <4>2, HandedAsItIs
    <3>6. CASE ok /\ back
      <4> DEFINE c == Removed(local, item.msg)
      <4>1. Change(c)
        BY <2>1, <2>3, <3>6
      <4>2. c \in Locals /\ c.work = local.work /\ Queued(c) = Queued(local) \ {item.msg} /\ c.spent = local.spent \cup {item.msg}
        BY <1>b, <3>3
      <4> HIDE DEF c
      <4>3. Handed(c)
        BY <2>1, <3>2, <3>4, <3>6, <4>2 DEF Handed, WillFly
      <4> QED BY <4>1, <4>2, <4>3, HandedByChange
    <3>7. CASE ~ok
      <4> DEFINE c == Unshifted(local, item)
      <4>1. Change(c)
        BY <2>1, <2>3, <3>7
      <4>2. /\ c \in Locals /\ c.work = local.work
            /\ Queued(c) = Queued(local) \cup {item.msg} /\ c.spent = local.spent \ {item.msg}
        BY <1>b, <3>3
      <4> HIDE DEF c
      <4>3. Handed(c)
        BY <2>1, <3>2, <4>2 DEF Handed, WillFly
      <4> QED BY <4>1, <4>2, <4>3, HandedByChange
    <3> QED BY <3>5, <3>6, <3>7
  <2> QED BY <2>2, <2>3
<1>7. CASE ReceiveRun
  <2>1. /\ UNCHANGED <<flying, sent>>
        /\ \/ composer' = composer /\ UNCHANGED copies
           \/ composer' = [composer EXCEPT !.drain = FALSE, !.steer = None] /\ composer.steer = None /\ UNCHANGED copies
           \/ /\ composer' = [composer EXCEPT !.drain = FALSE, !.steer = None]
              /\ composer.steer # None /\ Change(Unshifted(local, composer.steer))
    BY <1>7 DEF ReceiveRun
  <2>2. CASE composer'.steer = composer.steer /\ UNCHANGED copies
    BY <1>d, <2>1, <2>2
  <2>3. CASE composer.steer # None /\ Change(Unshifted(local, composer.steer))
    <3> DEFINE c == Unshifted(local, composer.steer)
    <3>1. /\ c \in Locals /\ c.work = local.work
          /\ Queued(c) = Queued(local) \cup {composer.steer.msg} /\ c.spent = local.spent \ {composer.steer.msg}
      BY <1>a, <1>b, <2>3
    <3> HIDE DEF c
    <3>2. Handed(c)
      BY <2>1, <3>1 DEF Handed, WillFly
    <3> QED BY <2>3, <3>1, <3>2, HandedByChange DEF c
  <2> QED BY <1>a, <2>1, <2>2, <2>3
<1>8. CASE SendDirectly
  <2>1. Begin({}, TRUE) /\ UNCHANGED <<copies, composer>>
    BY <1>8 DEF SendDirectly
  <2>2. {} \in SUBSET Flights
    OBVIOUS
  <2>3. (\A f \in flying : WillFly(f.item.msg)) /\ sent \subseteq sent'
    BY <1>e, <2>1, <2>2
  <2>4. Handed(local)
    BY <2>1, <2>3 DEF Handed
  <2> QED BY <2>1, <2>4, HandedAsItIs
<1>9. CASE ComposerEffect
  <2>1. /\ sent' = sent
        /\ \/ /\ composer' = [composer EXCEPT !.was = TRUE] \/ composer' = [composer EXCEPT !.was = FALSE]
              /\ UNCHANGED <<copies, flying>>
           \/ /\ composer.steer # None /\ UNCHANGED copies
              /\ composer' = [composer EXCEPT !.was = FALSE, !.drain = FALSE, !.steer = None]
              /\ flying' = flying \cup {Flight(composer.steer, "steer")}
           \/ /\ composer' = [composer EXCEPT !.was = FALSE, !.drain = FALSE, !.steer = None]
              /\ composer.steer = None
              /\ \/ UNCHANGED <<copies, flying>>
                 \/ /\ Shiftable(local) /\ Change(Shifted(local))
                    /\ flying' = flying \cup {Flight(Head(local.queue), "auto")}
    BY <1>9 DEF ComposerEffect
  <2>2. CASE UNCHANGED <<copies, flying>> /\ composer'.steer = composer.steer
    BY <1>d, <2>1, <2>2
  <2>3. CASE composer.steer # None /\ UNCHANGED copies /\ flying' = flying \cup {Flight(composer.steer, "steer")}
    <3>1. WillFly(composer.steer.msg) /\ \A f \in flying : WillFly(f.item.msg)
      <4>1. Flight(composer.steer, "steer").item = composer.steer
        BY DEF Flight
      <4> QED BY <2>3, <4>1 DEF WillFly
    <3>2. Handed(local)
      BY <2>1, <3>1 DEF Handed
    <3> QED BY <2>3, <3>2, HandedAsItIs
  <2>4. CASE /\ composer.steer = None
             /\ Shiftable(local) /\ Change(Shifted(local))
             /\ flying' = flying \cup {Flight(Head(local.queue), "auto")}
    <3> DEFINE c == Shifted(local)
               m == Head(local.queue).msg
    <3>1. WillFly(m) /\ \A f \in flying : WillFly(f.item.msg)
      <4>1. Flight(Head(local.queue), "auto").item = Head(local.queue)
        BY DEF Flight
      <4> QED BY <2>4, <4>1 DEF WillFly
    <3>2. c \in Locals /\ c.work = local.work /\ Queued(local) = Queued(c) \cup {m} /\ c.spent = local.spent \cup {m}
      <4>1. local.queue # <<>>
        BY <2>4 DEF Shiftable
      <4> QED BY <1>a, <4>1, OperationsTyped, OperationsQueue
    <3>3. Change(c)
      BY <2>4
    <3> HIDE DEF c, m
    <3>4. Handed(c)
      BY <2>1, <2>4, <3>1, <3>2 DEF Handed
    <3> QED BY <3>2, <3>3, <3>4, HandedByChange
  <2> QED BY <1>a, <2>1, <2>2, <2>3, <2>4
<1>10. CASE HandleSend
  <2>1. PICK f \in flying : /\ ~f.sent
                            /\ \/ Begin({f}, f.mounted) /\ UNCHANGED copies
                               \/ NotBegun /\ flying' = flying \ {f} /\ Change(Unshifted(local, f.item))
    BY <1>10 DEF HandleSend
  <2>2. {f} \in SUBSET Flights /\ f.mounted \in BOOLEAN /\ f.item \in Items /\ composer' = composer
    BY <1>a, <1>10, <2>1 DEF Flights, HandleSend
  <2>3. CASE Begin({f}, f.mounted) /\ UNCHANGED copies
    <3>1. (\A g \in flying : WillFly(g.item.msg)) /\ sent \subseteq sent'
      BY <1>e, <2>2, <2>3
    <3>2. Handed(local)
      BY <2>2, <3>1 DEF Handed
    <3> QED BY <2>3, <3>2, HandedAsItIs
  <2>4. CASE NotBegun /\ flying' = flying \ {f} /\ Change(Unshifted(local, f.item))
    <3> DEFINE c == Unshifted(local, f.item)
    <3>1. /\ c \in Locals /\ c.work = local.work
          /\ Queued(c) = Queued(local) \cup {f.item.msg} /\ c.spent = local.spent \ {f.item.msg}
      BY <1>b, <2>2
    <3>2. Change(c) /\ sent' = sent
      BY <2>4 DEF NotBegun
    <3> HIDE DEF c
    <3>3. Handed(c)
      BY <2>2, <2>4, <3>1, <3>2 DEF Handed, WillFly
    <3> QED BY <3>1, <3>2, <3>3, HandedByChange
  <2> QED BY <2>1, <2>3, <2>4
<1>11. ASSUME NEW m \in Message, Compose(m) PROVE Tombstones' /\ NothingLost
  <2> DEFINE c == Enqueued(local, m)
  <2>1. Change(c) /\ UNCHANGED <<composer, flying, sent>>
    BY <1>11 DEF Compose
  <2>2. c \in Locals /\ c.work = local.work /\ Queued(c) = Queued(local) \cup {m} /\ c.spent = local.spent \ {m}
    BY <1>a, OperationsTyped, OperationsQueue
  <2> HIDE DEF c
  <2>3. Handed(c)
    BY <2>1, <2>2 DEF Handed, WillFly
  <2> QED BY <2>1, <2>2, <2>3, HandedByChange
<1>12. ASSUME NEW m \in Messages, Steer(m) PROVE Tombstones' /\ NothingLost
  <2> DEFINE c == Removed(local, m)
  <2>1. /\ Change(c) /\ composer' = [composer EXCEPT !.steer = ItemOf(local, m)] /\ composer.steer = None
        /\ m \in Queued(local) /\ UNCHANGED <<flying, sent>>
    BY <1>12 DEF Steer
  <2>2. composer'.steer = ItemOf(local, m) /\ ItemOf(local, m) \in Items /\ ItemOf(local, m).msg = m
    BY <1>a, <2>1, ItemOfQueued
  <2>3. c \in Locals /\ c.work = local.work /\ Queued(c) = Queued(local) \ {m} /\ c.spent = local.spent \cup {m}
    BY <1>b
  <2>4. composer'.steer # None
    BY <2>2, QueueConstants DEF Items, Messages
  <2> HIDE DEF c
  <2>5. Handed(c)
    BY <2>1, <2>2, <2>3, <2>4 DEF Handed, WillFly
  <2> QED BY <2>1, <2>3, <2>5, HandedByChange
<1>13. ASSUME NEW m \in Messages, SendNow(m) PROVE Tombstones' /\ NothingLost
  <2> DEFINE item == ItemOf(local, m)
             f == Flight(item, "now")
             c == Removed(local, m)
             d == Unshifted(c, item)
  <2>1. /\ m \in Queued(local) /\ composer' = composer
        /\ \/ Begin({f}, TRUE) /\ Change(c)
           \/ NotBegun /\ Change(d) /\ UNCHANGED flying
    BY <1>13 DEF SendNow
  <2>2. item \in Items /\ item.msg = m
    BY <1>a, <2>1, ItemOfQueued
  <2>3. {f} \in SUBSET Flights /\ f.item = item
    BY <2>2, FlightTyped
  <2>4. c \in Locals /\ c.work = local.work /\ Queued(c) = Queued(local) \ {m} /\ c.spent = local.spent \cup {m}
    BY <1>b
  <2>5. /\ d \in Locals /\ d.work = local.work
        /\ Queued(d) = (Queued(local) \ {m}) \cup {m} /\ d.spent = (local.spent \cup {m}) \ {m}
    BY <1>a, <2>2, OperationsTyped, OperationsQueue
  <2> HIDE DEF item, f, c, d
  <2>6. CASE Begin({f}, TRUE) /\ Change(c)
    <3>1. (\A g \in flying \cup {f} : WillFly(g.item.msg)) /\ sent \subseteq sent'
      BY <1>e, <2>3, <2>6
    <3>2. Handed(c)
      BY <2>1, <2>2, <2>3, <2>4, <3>1 DEF Handed
    <3> QED BY <2>4, <2>6, <3>2, HandedByChange
  <2>7. CASE NotBegun /\ Change(d) /\ UNCHANGED flying
    <3>1. sent' = sent
      BY <2>7 DEF NotBegun
    <3>2. Handed(d)
      BY <2>1, <2>5, <2>7, <3>1 DEF Handed, WillFly
    <3> QED BY <2>5, <2>7, <3>2, HandedByChange
  <2> QED BY <2>1, <2>6, <2>7
<1>14. ASSUME NEW m \in Messages, Delete(m) PROVE Tombstones' /\ NothingLost
  <2> DEFINE c == Removed(local, m)
  <2>1. Change(c) /\ UNCHANGED <<composer, flying, sent>>
    BY <1>14 DEF Delete
  <2>2. c \in Locals /\ c.work = local.work /\ Queued(c) = Queued(local) \ {m} /\ c.spent = local.spent \cup {m}
    BY <1>b
  <2> HIDE DEF c
  <2>3. Handed(c)
    BY <1>14, <2>1, <2>2 DEF Handed, WillFly
  <2> QED BY <2>1, <2>2, <2>3, HandedByChange
<1>15. CASE Leave
  <2>1. /\ composer' = Away /\ flying' = {[f EXCEPT !.mounted = FALSE] : f \in flying} /\ sent' = sent
        /\ IF composer.steer = None THEN UNCHANGED copies ELSE Change(Unshifted(local, composer.steer))
    BY <1>15 DEF Leave
  <2>2. \A f \in flying : WillFly(f.item.msg)
    <3> SUFFICES ASSUME NEW f \in flying PROVE \E g \in flying' : g.item.msg = f.item.msg
      BY DEF WillFly
    <3> DEFINE g == [f EXCEPT !.mounted = FALSE]
    <3>1. g \in flying' /\ g.item = f.item
      BY <1>a, <2>1 DEF Flights
    <3> QED BY <3>1
  <2>3. CASE composer.steer = None /\ UNCHANGED copies
    <3>1. Handed(local)
      BY <2>1, <2>2, <2>3 DEF Handed
    <3> QED BY <2>3, <3>1, HandedAsItIs
  <2>4. CASE composer.steer # None /\ Change(Unshifted(local, composer.steer))
    <3> DEFINE c == Unshifted(local, composer.steer)
    <3>1. /\ c \in Locals /\ c.work = local.work
          /\ Queued(c) = Queued(local) \cup {composer.steer.msg} /\ c.spent = local.spent \ {composer.steer.msg}
      BY <1>a, <1>b, <2>4
    <3>2. Change(c)
      BY <2>4
    <3> HIDE DEF c
    <3>3. Handed(c)
      BY <2>1, <2>2, <3>1 DEF Handed
    <3> QED BY <3>1, <3>2, <3>3, HandedByChange
  <2> QED BY <2>1, <2>3, <2>4
<1>16. CASE Reopen
  <2>1. local' = Hydrated(stored) /\ stored \in Seq(Messages)
    BY <1>16 DEF Reopen, TypeOK
  <2>2. local'.spent = {}
    BY <2>1, HydratedTyped
  <2> QED BY <1>16, <2>2 DEF Tombstones, NothingLost
<1> QED
  BY <1>1, <1>2, <1>3, <1>4, <1>5, <1>6, <1>7, <1>8, <1>9, <1>10, <1>11, <1>12, <1>13, <1>14, <1>15,
     <1>16 DEF Next, Receive, Messages

\* A message the window holds, in the queue, as the steered one or in flight, stays with it
\* until it is sent, the user deletes it, or the window takes over an App State copy that no
\* longer has it: whatever flushQueuedMessage(), handleSteerQueuedMessage(), onError and
\* syncThreadWorkFromSnapshot() hand to one another.
THEOREM NothingHeldIsDropped == Spec => NothingDropped
<1>1. Init => Awaiting /\ Tombstones
  <2> SUFFICES ASSUME Init PROVE Awaiting /\ Tombstones
    OBVIOUS
  <2>1. local = Hydrated(<<>>) /\ <<>> \in Seq(Messages) /\ composer = Here /\ flying = {}
    BY DEF Init
  <2>2. local.spent = {}
    BY <2>1, HydratedTyped
  <2> QED BY <2>1, <2>2 DEF Awaiting, Awaits, OneAsked, AnswerComes, AnswerTells, Unmounted, Here, Away, Tombstones
<1>2. TypeOK /\ Heard /\ Awaiting /\ Tombstones /\ [Next]_vars
         => TypeOK' /\ Heard' /\ Awaiting' /\ Tombstones'
  BY TypeStep, HeardStep, AwaitingStep, KeepStep
<1>3. TypeOK /\ Heard /\ Awaiting /\ Tombstones /\ [Next]_vars => [NothingLost]_vars
  BY KeepStep
<1> QED BY InitTyped, HeardInit, <1>1, <1>2, <1>3, PTL DEF Spec, NothingDropped, NothingLost

=============================================================================
