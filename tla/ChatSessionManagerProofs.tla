---------------------- MODULE ChatSessionManagerProofs ----------------------
(***************************************************************************)
(* Proofs about ChatSessionManager for every set of runs and every number  *)
(* of upheavals: a deleted Thread keeps no Runtime Session.                *)
(*                                                                         *)
(* The proof is about what is still in the store's queue when the rows are *)
(* deleted.  Nothing behind the deletion stores a mapping, as the Thread   *)
(* is marked as deleted before the deletion is queued and every run looks  *)
(* for the mark; and what is in front of it is served while the mark       *)
(* stands, so that nothing of it reaches the manager's memory.  The cache  *)
(* follows the row through all of that, unless a relocation left the two   *)
(* different.                                                              *)
(***************************************************************************)
EXTENDS ChatSessionManager, TLAPS

(* Operations in the store's queue, a sequence q. *)

Moves(o) == o.op = "relocate"
Deletes(o) == o.op = "delete"
Stores(o) == o.op = "set"

HasMove(q) == \E i \in DOMAIN q : Moves(q[i])
HasDelete(q) == \E i \in DOMAIN q : Deletes(q[i])
HasStore(q) == \E i \in DOMAIN q : Stores(q[i])

\* The Thread is deleted once, and nothing is stored behind its deletion.
Ordered(q) ==
    /\ \A i, j \in DOMAIN q : Deletes(q[i]) /\ Deletes(q[j]) => i = j
    /\ \A i, j \in DOMAIN q : Deletes(q[i]) /\ Stores(q[j]) => j < i

(* The inductive invariant. *)

\* A queue: what is stored or purged is a run's, and a deletion and a relocation are not
\* in it together.
Good(q) ==
    /\ q \in Seq(Operation)
    /\ \A i \in DOMAIN q : q[i].op \in {"set", "purge"} => q[i].by \in Run
    /\ Ordered(q)
    /\ ~(HasMove(q) /\ HasDelete(q))

\* The cache and the row differ only during a relocation, or after one that left them so.
MappingOK == cache = row \/ torn \/ HasMove(queue)

\* The Thread is marked as deleted while its deletion is in the queue and once it has
\* happened; then nothing is mapped any more, nor on its way to be.
DeletionOK ==
    /\ deleted <=> removed \/ HasDelete(queue)
    /\ deleted => runtime = None
    /\ removed => /\ ~HasDelete(queue) /\ ~HasStore(queue) /\ ~HasMove(queue)
                  /\ row = None /\ (cache = None \/ torn)

IInv == TypeOK /\ Good(queue) /\ MappingOK /\ DeletionOK

-----------------------------------------------------------------------------
(* The queue *)

LEMMA Appended ==
    ASSUME NEW q \in Seq(Operation), NEW o \in Operation
    PROVE  /\ Append(q, o) \in Seq(Operation) /\ Append(q, o) # <<>>
           /\ \A i \in DOMAIN Append(q, o) : Append(q, o)[i] = o \/ \E j \in DOMAIN q : Append(q, o)[i] = q[j]
           /\ HasMove(Append(q, o)) <=> HasMove(q) \/ Moves(o)
           /\ HasDelete(Append(q, o)) <=> HasDelete(q) \/ Deletes(o)
           /\ HasStore(Append(q, o)) <=> HasStore(q) \/ Stores(o)
           /\ Ordered(q) /\ (HasDelete(q) => ~Deletes(o) /\ ~Stores(o)) => Ordered(Append(q, o))
<1> DEFINE D == Append(q, o)
           n == Len(q)
<1>1. /\ D \in Seq(Operation) /\ D # <<>>
      /\ n \in Nat /\ DOMAIN q = 1..n /\ DOMAIN D = 1..(n + 1)
      /\ \A i \in DOMAIN q : D[i] = q[i]
      /\ D[n + 1] = o
  OBVIOUS
<1> HIDE DEF D, n
<1>2. /\ \A i \in DOMAIN D : i = n + 1 \/ (i \in DOMAIN q /\ D[i] = q[i])
      /\ n + 1 \in DOMAIN D /\ DOMAIN q \subseteq DOMAIN D
      /\ \A i \in DOMAIN q : i < n + 1
  BY <1>1
<1>3. /\ HasMove(D) <=> HasMove(q) \/ Moves(o)
      /\ HasDelete(D) <=> HasDelete(q) \/ Deletes(o)
      /\ HasStore(D) <=> HasStore(q) \/ Stores(o)
  <2>1. HasMove(D) <=> HasMove(q) \/ Moves(o)  BY <1>1, <1>2 DEF HasMove
  <2>2. HasDelete(D) <=> HasDelete(q) \/ Deletes(o)  BY <1>1, <1>2 DEF HasDelete
  <2>3. HasStore(D) <=> HasStore(q) \/ Stores(o)  BY <1>1, <1>2 DEF HasStore
  <2> QED  BY <2>1, <2>2, <2>3
<1>4. ASSUME Ordered(q), HasDelete(q) => ~Deletes(o) /\ ~Stores(o) PROVE Ordered(D)
  <2>1. ~(Deletes(o) /\ Stores(o))  BY DEF Deletes, Stores
  <2>2. \A i \in DOMAIN q : Deletes(q[i]) => ~Deletes(o) /\ ~Stores(o)  BY <1>4 DEF HasDelete
  <2>3. ASSUME NEW i \in DOMAIN D, NEW j \in DOMAIN D, Deletes(D[i]), Deletes(D[j]) PROVE i = j
    BY <1>1, <1>2, <1>4, <2>2, <2>3 DEF Ordered
  <2>4. ASSUME NEW i \in DOMAIN D, NEW j \in DOMAIN D, Deletes(D[i]), Stores(D[j]) PROVE j < i
    BY <1>1, <1>2, <1>4, <2>1, <2>2, <2>4 DEF Ordered
  <2> QED  BY <2>3, <2>4 DEF Ordered
<1>5. \A i \in DOMAIN D : D[i] = o \/ \E j \in DOMAIN q : D[i] = q[j]  BY <1>1, <1>2
<1> QED  BY <1>1, <1>3, <1>4, <1>5 DEF D

LEMMA Served ==
    ASSUME NEW q \in Seq(Operation), q # <<>>
    PROVE  /\ Tail(q) \in Seq(Operation) /\ Head(q) \in Operation
           /\ \E j \in DOMAIN q : Head(q) = q[j]
           /\ \A i \in DOMAIN Tail(q) : \E j \in DOMAIN q : Tail(q)[i] = q[j]
           /\ HasMove(q) <=> HasMove(Tail(q)) \/ Moves(Head(q))
           /\ HasDelete(q) <=> HasDelete(Tail(q)) \/ Deletes(Head(q))
           /\ HasStore(q) <=> HasStore(Tail(q)) \/ Stores(Head(q))
           /\ Ordered(q) => Ordered(Tail(q))
           /\ Ordered(q) /\ Deletes(Head(q)) => ~HasDelete(Tail(q)) /\ ~HasStore(Tail(q))
<1> DEFINE D == Tail(q)
           n == Len(q)
           x == Head(q)
<1>1. /\ n \in Nat /\ n >= 1 /\ DOMAIN q = 1..n /\ DOMAIN D = 1..(n - 1)
      /\ \A i \in 1..(n - 1) : D[i] = q[i + 1]
      /\ x = q[1] /\ x \in Operation /\ D \in Seq(Operation)
  OBVIOUS
<1> HIDE DEF D, n, x
<1>2. /\ \A i \in DOMAIN D : i + 1 \in DOMAIN q /\ D[i] = q[i + 1] /\ i \in Nat /\ i + 1 # 1
      /\ \A i \in DOMAIN q : i = 1 \/ (i - 1 \in DOMAIN D /\ q[i] = D[i - 1])
      /\ 1 \in DOMAIN q /\ \A i \in DOMAIN q : ~(i < 1)
  BY <1>1
<1>3. /\ HasMove(q) <=> HasMove(D) \/ Moves(x)
      /\ HasDelete(q) <=> HasDelete(D) \/ Deletes(x)
      /\ HasStore(q) <=> HasStore(D) \/ Stores(x)
  <2>1. HasMove(q) <=> HasMove(D) \/ Moves(x)  BY <1>1, <1>2 DEF HasMove
  <2>2. HasDelete(q) <=> HasDelete(D) \/ Deletes(x)  BY <1>1, <1>2 DEF HasDelete
  <2>3. HasStore(q) <=> HasStore(D) \/ Stores(x)  BY <1>1, <1>2 DEF HasStore
  <2> QED  BY <2>1, <2>2, <2>3
<1>4. ASSUME Ordered(q) PROVE Ordered(D)
  <2>1. ASSUME NEW i \in DOMAIN D, NEW j \in DOMAIN D, Deletes(D[i]), Deletes(D[j]) PROVE i = j
    <3>1. i + 1 = j + 1  BY <1>2, <1>4, <2>1 DEF Ordered
    <3> QED  BY <1>2, <3>1
  <2>2. ASSUME NEW i \in DOMAIN D, NEW j \in DOMAIN D, Deletes(D[i]), Stores(D[j]) PROVE j < i
    <3>1. j + 1 < i + 1  BY <1>2, <1>4, <2>2 DEF Ordered
    <3> QED  BY <1>2, <3>1
  <2> QED  BY <2>1, <2>2 DEF Ordered
<1>5. ASSUME Ordered(q), Deletes(x) PROVE ~HasDelete(D) /\ ~HasStore(D)
  <2>1. ~HasDelete(D)
    <3> SUFFICES ASSUME NEW i \in DOMAIN D, Deletes(D[i]) PROVE FALSE  BY DEF HasDelete
    <3> QED  BY <1>1, <1>2, <1>5 DEF Ordered
  <2>2. ~HasStore(D)
    <3> SUFFICES ASSUME NEW i \in DOMAIN D, Stores(D[i]) PROVE FALSE  BY DEF HasStore
    <3> QED  BY <1>1, <1>2, <1>5 DEF Ordered
  <2> QED  BY <2>1, <2>2
<1>6. \A i \in DOMAIN D : \E j \in DOMAIN q : D[i] = q[j]  BY <1>2
<1>7. \E j \in DOMAIN q : x = q[j]  BY <1>1, <1>2
<1> QED  BY <1>1, <1>3, <1>4, <1>5, <1>6, <1>7 DEF D, x

LEMMA Empty == ~HasMove(<<>>) /\ ~HasDelete(<<>>) /\ ~HasStore(<<>>) /\ Ordered(<<>>) /\ DOMAIN <<>> = {}
BY DEF HasMove, HasDelete, HasStore, Ordered

\* The operations of the manager have their shape.
LEMMA OpType ==
    ASSUME NEW op \in Operations, NEW by \in Run \cup Others, NEW s \in Maybe, NEW m \in Maybe
    PROVE  /\ Op(op, by, s, m) \in Operation
           /\ Op(op, by, s, m).op = op /\ Op(op, by, s, m).by = by
           /\ Op(op, by, s, m).session = s /\ Op(op, by, s, m).memory = m
BY DEF Op, Operation

LEMMA Constants ==
    /\ None \notin Session /\ Run \subseteq Session /\ Session \subseteq Maybe /\ None \in Maybe
    /\ "status" \notin Run /\ "action" \notin Run /\ "user" \notin Run /\ "deletion" \notin Run
    /\ "relocation" \notin Run /\ MaxUpheavals \in Nat
BY SessionsAreDistinct, BoundsAreNaturals DEF Others, Maybe, Session

-----------------------------------------------------------------------------
(* Steps that neither delete the Thread nor move the Project *)

LEMMA Queued ==
    ASSUME NEW q, Good(q), NEW o \in Operation,
           o.op \in {"set", "purge"} => o.by \in Run,
           HasDelete(q) => ~Deletes(o) /\ ~Stores(o) /\ ~Moves(o),
           HasMove(q) => ~Deletes(o)
    PROVE  /\ Good(Append(q, o))
           /\ HasMove(Append(q, o)) <=> HasMove(q) \/ Moves(o)
           /\ HasDelete(Append(q, o)) <=> HasDelete(q) \/ Deletes(o)
           /\ HasStore(Append(q, o)) <=> HasStore(q) \/ Stores(o)
<1>1. q \in Seq(Operation)  BY DEF Good
<1>2. /\ Append(q, o) \in Seq(Operation)
      /\ \A i \in DOMAIN Append(q, o) : Append(q, o)[i] = o \/ \E j \in DOMAIN q : Append(q, o)[i] = q[j]
      /\ HasMove(Append(q, o)) <=> HasMove(q) \/ Moves(o)
      /\ HasDelete(Append(q, o)) <=> HasDelete(q) \/ Deletes(o)
      /\ HasStore(Append(q, o)) <=> HasStore(q) \/ Stores(o)
      /\ Ordered(q) /\ (HasDelete(q) => ~Deletes(o) /\ ~Stores(o)) => Ordered(Append(q, o))
  BY <1>1, Appended
<1>3. ~(Moves(o) /\ Deletes(o))  BY DEF Moves, Deletes
<1>4. \A i \in DOMAIN Append(q, o) :
          Append(q, o)[i].op \in {"set", "purge"} => Append(q, o)[i].by \in Run
  BY <1>2 DEF Good
<1> QED  BY <1>2, <1>3, <1>4 DEF Good

LEMMA GoodRest ==
    ASSUME IInv, queue # <<>>
    PROVE  /\ Good(Rest) /\ Head1 \in Operation
           /\ Head1.op \in {"set", "purge"} => Head1.by \in Run
           /\ HasMove(queue) <=> HasMove(Rest) \/ Moves(Head1)
           /\ HasDelete(queue) <=> HasDelete(Rest) \/ Deletes(Head1)
           /\ HasStore(queue) <=> HasStore(Rest) \/ Stores(Head1)
           /\ Deletes(Head1) => ~HasDelete(Rest) /\ ~HasStore(Rest)
<1>1. Good(queue) /\ queue \in Seq(Operation)  BY DEF IInv, Good
<1>2. /\ Tail(queue) \in Seq(Operation) /\ Head(queue) \in Operation
      /\ \E j \in DOMAIN queue : Head(queue) = queue[j]
      /\ \A i \in DOMAIN Tail(queue) : \E j \in DOMAIN queue : Tail(queue)[i] = queue[j]
      /\ HasMove(queue) <=> HasMove(Tail(queue)) \/ Moves(Head(queue))
      /\ HasDelete(queue) <=> HasDelete(Tail(queue)) \/ Deletes(Head(queue))
      /\ HasStore(queue) <=> HasStore(Tail(queue)) \/ Stores(Head(queue))
      /\ Ordered(queue) => Ordered(Tail(queue))
      /\ Ordered(queue) /\ Deletes(Head(queue)) => ~HasDelete(Tail(queue)) /\ ~HasStore(Tail(queue))
  BY <1>1, Served
<1>3. \A i \in DOMAIN Tail(queue) : Tail(queue)[i].op \in {"set", "purge"} => Tail(queue)[i].by \in Run
  BY <1>1, <1>2 DEF Good
<1>4. Head(queue).op \in {"set", "purge"} => Head(queue).by \in Run
  BY <1>1, <1>2 DEF Good
<1> QED  BY <1>1, <1>2, <1>3, <1>4 DEF Good, Head1, Rest

\* What is left to show of such a step.
LEMMA Calm ==
    ASSUME IInv, TypeOK', Good(queue'), deleted' = deleted, removed' = removed, torn' = torn,
           HasMove(queue') <=> HasMove(queue),
           HasDelete(queue') <=> HasDelete(queue),
           HasStore(queue') => HasStore(queue) \/ ~deleted,
           runtime' \in {runtime, None} \/ ~deleted,
           cache = row => cache' = row',
           removed => row' \in {row, None} /\ cache' \in {cache, None}
    PROVE  IInv'
<1>1. MappingOK'  BY DEF IInv, MappingOK
<1>2. DeletionOK'  BY DEF IInv, DeletionOK
<1> QED  BY <1>1, <1>2 DEF IInv, Good

\* The store and the queue are left alone.
LEMMA Quiet ==
    ASSUME IInv, TypeOK', UNCHANGED <<mapVars, queue, threadVars>>
    PROVE  IInv'
<1>1. /\ queue' = queue /\ deleted' = deleted /\ removed' = removed /\ torn' = torn
      /\ runtime' = runtime /\ cache' = cache /\ row' = row
  BY DEF mapVars, threadVars
<1> QED  BY <1>1, Calm DEF IInv

-----------------------------------------------------------------------------
(* Steps that leave the sessions and the store alone *)

LEMMA RunSteps ==
    ASSUME IInv, NEW r \in Run,
           Ask(r) \/ Refuse(r) \/ SessionOpened(r) \/ ProcessFails(r) \/ StopTimeout(r)
    PROVE  IInv'
<1>1. /\ TypeOK
      /\ UNCHANGED <<home, mapVars, queue, threadVars, statusVars, actionVars, quitting, upheavals,
                     givenUp, session, stopped>>
  BY DEF IInv, Ask, Refuse, SessionOpened, ProcessFails, StopTimeout, Untouched
<1>2. /\ stage' \in [Run -> Stages] /\ held' \in [Run -> BOOLEAN] /\ outcome' \in [Run -> Outcomes]
      /\ from' \in [Run -> 0..dir]
  <2>1. stage \in [Run -> Stages] /\ outcome \in [Run -> Outcomes] /\ held \in [Run -> BOOLEAN]
        /\ from \in [Run -> 0..dir] /\ dir \in 0..dir
    BY <1>1 DEF TypeOK
  <2>2. /\ \E s \in Stages : stage' = [stage EXCEPT ![r] = s]
        /\ outcome' = outcome \/ \E e \in Outcomes : outcome' = [outcome EXCEPT ![r] = e]
        /\ held' = held \/ held' = [held EXCEPT ![r] = FALSE]
        /\ from' = from \/ from' = [from EXCEPT ![r] = dir]
    <3>1. CASE Ask(r)  BY <3>1 DEF Ask, Stages
    <3>2. CASE Refuse(r)  BY <3>2 DEF Refuse, Stages
    <3>3. CASE SessionOpened(r)  BY <3>3 DEF SessionOpened, Untouched, Stages
    <3>4. CASE ProcessFails(r)  BY <3>4 DEF ProcessFails, End, Untouched, Stages, Outcomes
    <3>5. CASE StopTimeout(r)  BY <3>5 DEF StopTimeout, End, Untouched, Stages, Outcomes
    <3> QED  BY <3>1, <3>2, <3>3, <3>4, <3>5
  <2>3. stage' \in [Run -> Stages]  BY <2>1, <2>2
  <2>4. outcome' \in [Run -> Outcomes]  BY <2>1, <2>2
  <2>5. held' \in [Run -> BOOLEAN] /\ from' \in [Run -> 0..dir]  BY <2>1, <2>2
  <2> QED  BY <2>3, <2>4, <2>5
<1>3. TypeOK'
  BY <1>1, <1>2 DEF TypeOK, mapVars, threadVars, statusVars, actionVars
<1> QED  BY <1>1, <1>3, Quiet

\* Any of the runs are asked to stop, or have ended.
LEMMA Stopping ==
    ASSUME TypeOK, NEW S, StopAll(S)
    PROVE  /\ stage' \in [Run -> Stages] /\ held' \in [Run -> BOOLEAN] /\ outcome' \in [Run -> Outcomes]
           /\ stopped' \in [Run -> BOOLEAN]
<1>1. stage \in [Run -> Stages] /\ outcome \in [Run -> Outcomes]  BY DEF TypeOK
<1>2. stage' \in [Run -> Stages]  BY <1>1 DEF StopAll, Stages
<1>3. outcome' \in [Run -> Outcomes]  BY <1>1 DEF StopAll, Outcomes
<1>4. held' \in [Run -> BOOLEAN] /\ stopped' \in [Run -> BOOLEAN]  BY DEF StopAll, TypeOK
<1> QED  BY <1>2, <1>3, <1>4

LEMMA StopStep == ASSUME IInv, NEW r \in Run, Stop(r) PROVE IInv'
<1>1. /\ TypeOK /\ StopAll({r})
      /\ UNCHANGED <<mapVars, queue, threadVars, statusVars, actionVars, quitting, upheavals, from, home, session>>
      /\ givenUp' \subseteq Run
  BY DEF IInv, TypeOK, Stop
<1>2. /\ stage' \in [Run -> Stages] /\ held' \in [Run -> BOOLEAN] /\ outcome' \in [Run -> Outcomes]
      /\ stopped' \in [Run -> BOOLEAN]
  BY <1>1, Stopping
<1>3. TypeOK'
  BY <1>1, <1>2 DEF TypeOK, mapVars, threadVars, statusVars, actionVars
<1> QED  BY <1>1, <1>3, Quiet

LEMMA ShutdownSteps == ASSUME IInv, BeginShutdown \/ EndShutdown PROVE IInv'
<1>1. /\ TypeOK /\ UNCHANGED <<mapVars, queue, threadVars, statusVars, givenUp, from, home, session>>
      /\ action' \in {action, "idle"} /\ compacting' \in {compacting, None}
      /\ upheavals' \in 0..MaxUpheavals /\ quitting' \in BOOLEAN
  <2>1. TypeOK /\ upheavals \in 0..MaxUpheavals /\ MaxUpheavals \in Nat  BY Constants DEF IInv, TypeOK
  <2>2. CASE BeginShutdown
    <3>1. upheavals' \in 0..MaxUpheavals  BY <2>1, <2>2 DEF BeginShutdown
    <3> QED  BY <2>1, <2>2, <3>1 DEF BeginShutdown
  <2>3. CASE EndShutdown
    BY <2>1, <2>3 DEF EndShutdown, actionVars
  <2> QED  BY <2>2, <2>3
<1>2. /\ stage' \in [Run -> Stages] /\ held' \in [Run -> BOOLEAN] /\ outcome' \in [Run -> Outcomes]
      /\ stopped' \in [Run -> BOOLEAN]
  <2>1. stage \in [Run -> Stages] /\ outcome \in [Run -> Outcomes]  BY <1>1 DEF TypeOK
  <2>2. stage' \in [Run -> Stages]  BY <2>1 DEF BeginShutdown, EndShutdown, Stages
  <2>3. outcome' \in [Run -> Outcomes]  BY <2>1 DEF BeginShutdown, EndShutdown, Outcomes
  <2>4. held' \in [Run -> BOOLEAN] /\ stopped' \in [Run -> BOOLEAN]
    BY <1>1 DEF TypeOK, BeginShutdown, EndShutdown
  <2> QED  BY <2>2, <2>3, <2>4
<1>3. TypeOK'
  BY <1>1, <1>2, Constants DEF TypeOK, mapVars, threadVars, statusVars
<1> QED  BY <1>1, <1>3, Quiet

LEMMA RequestSteps == ASSUME IInv, BeginStatus \/ Compact PROVE IInv'
<1>1. TypeOK /\ UNCHANGED <<runVars, home, mapVars, queue, threadVars, quitting, upheavals>>
  BY DEF IInv, BeginStatus, Compact
<1>2. Known \in Maybe  BY <1>1 DEF TypeOK, Known
<1>3. /\ status' \in {"idle", "loading", "removing"} /\ action' \in {"idle", "running", "removing"}
      /\ asking' \in Maybe /\ compacting' \in Maybe
  BY <1>1, <1>2, Constants DEF TypeOK, BeginStatus, Compact, statusVars, actionVars
<1>4. TypeOK'
  BY <1>1, <1>3 DEF TypeOK, mapVars, threadVars, runVars
<1> QED  BY <1>1, <1>4, Quiet

-----------------------------------------------------------------------------
(* A run begins *)

\* What a run that begins, or a status request that lets one begin, does.
Begun(q) ==
    /\ stage' \in [Run -> Stages] /\ held' \in [Run -> BOOLEAN] /\ outcome' \in [Run -> Outcomes]
    /\ session' \in [Run -> Maybe] /\ home' \in [Session -> 0..dir]
    /\ \/ queue' = q /\ runtime' = runtime
       \/ /\ \E o \in Operation : o.op = "forget" /\ queue' = Append(q, o)
          /\ runtime' = None

LEMMA Spawned ==
    ASSUME TypeOK, NEW r \in Run, NEW s \in Maybe, Spawn(r, s)
    PROVE  /\ stage' \in [Run -> Stages] /\ held' \in [Run -> BOOLEAN] /\ outcome' \in [Run -> Outcomes]
           /\ session' \in [Run -> Maybe] /\ home' \in [Session -> 0..dir]
<1>1. /\ stage \in [Run -> Stages] /\ held \in [Run -> BOOLEAN] /\ outcome \in [Run -> Outcomes]
      /\ session \in [Run -> Maybe] /\ home \in [Session -> 0..dir] /\ from[r] \in 0..dir
  BY DEF TypeOK
<1>2. \E g \in {"opening", "prompting"} : stage' = [stage EXCEPT ![r] = g]  BY DEF Spawn
<1>3. \E y \in Maybe : session' = [session EXCEPT ![r] = y]  BY Constants DEF Spawn
<1>4. home' = home \/ home' = [home EXCEPT ![r] = from[r]]  BY DEF Spawn
<1>5. stage' \in [Run -> Stages]  BY <1>1, <1>2 DEF Stages
<1>6. session' \in [Run -> Maybe]  BY <1>1, <1>3
<1>7. home' \in [Session -> 0..dir]  BY <1>1, <1>4
<1>8. held' \in [Run -> BOOLEAN] /\ outcome' \in [Run -> Outcomes]  BY <1>1 DEF Spawn
<1> QED  BY <1>5, <1>6, <1>7, <1>8

LEMMA Ending ==
    ASSUME TypeOK, NEW r \in Run, NEW e \in Outcomes, End(r, e)
    PROVE  stage' \in [Run -> Stages] /\ held' \in [Run -> BOOLEAN] /\ outcome' \in [Run -> Outcomes]
BY DEF TypeOK, End, Stages

LEMMA Beginning ==
    ASSUME TypeOK, NEW r \in Run, NEW q, NEW known \in Maybe, Begin(r, q, known)
    PROVE  Begun(q)
<1>1. /\ stage \in [Run -> Stages] /\ held \in [Run -> BOOLEAN] /\ outcome \in [Run -> Outcomes]
      /\ session \in [Run -> Maybe] /\ home \in [Session -> 0..dir]
  BY DEF TypeOK
<1>2. CASE End(r, "failed") /\ queue' = q /\ UNCHANGED <<session, home, runtime>>
  BY <1>1, <1>2, Ending DEF Begun, Outcomes
<1>3. CASE Spawn(r, known) /\ queue' = q /\ UNCHANGED runtime
  BY <1>1, <1>3, Spawned DEF Begun
<1>4. CASE /\ stage' = [stage EXCEPT ![r] = "pending"]
           /\ runtime' = None
           /\ queue' = Append(q, Op("forget", r, known, None))
           /\ UNCHANGED <<held, session, home, outcome>>
  <2>1. "pending" \in Stages /\ "forget" \in Operations  BY DEF Stages, Operations
  <2>2. stage' \in [Run -> Stages]  BY <1>1, <1>4, <2>1
  <2>3. Op("forget", r, known, None) \in Operation /\ Op("forget", r, known, None).op = "forget"
    BY <2>1, OpType, Constants
  <2> QED  BY <1>1, <1>4, <2>2, <2>3 DEF Begun
<1> QED  BY <1>2, <1>3, <1>4 DEF Begin

LEMMA Draining ==
    ASSUME TypeOK, NEW q, NEW known \in Maybe, Drain(q, known)
    PROVE  Begun(q)
<1>1. /\ stage \in [Run -> Stages] /\ held \in [Run -> BOOLEAN] /\ outcome \in [Run -> Outcomes]
      /\ session \in [Run -> Maybe] /\ home \in [Session -> 0..dir]
  BY DEF TypeOK
<1>2. CASE queue' = q /\ UNCHANGED <<stage, held, outcome, session, home, runtime>>
  BY <1>1, <1>2 DEF Begun
<1>3. ASSUME NEW r \in Run, NEW e \in Outcomes, End(r, e), queue' = q, UNCHANGED <<session, home, runtime>>
      PROVE  Begun(q)
  BY <1>1, <1>3, Ending DEF Begun
<1>4. ASSUME NEW r \in Run, Begin(r, q, known) PROVE Begun(q)
  BY <1>4, Beginning
<1>5. "stopped" \in Outcomes /\ "failed" \in Outcomes  BY DEF Outcomes
<1> QED  BY <1>2, <1>3, <1>4, <1>5 DEF Drain

LEMMA Forgetting ==
    ASSUME NEW q, Good(q), NEW o \in Operation, o.op = "forget"
    PROVE  /\ Good(Append(q, o))
           /\ HasMove(Append(q, o)) <=> HasMove(q)
           /\ HasDelete(Append(q, o)) <=> HasDelete(q)
           /\ HasStore(Append(q, o)) <=> HasStore(q)
<1>1. ~Moves(o) /\ ~Deletes(o) /\ ~Stores(o) /\ o.op \notin {"set", "purge"}
  BY DEF Moves, Deletes, Stores
<1> QED  BY <1>1, Queued

LEMMA BegunQueue ==
    ASSUME NEW q, Good(q), Begun(q)
    PROVE  /\ Good(queue') /\ (HasMove(queue') <=> HasMove(q)) /\ (HasDelete(queue') <=> HasDelete(q))
           /\ HasStore(queue') <=> HasStore(q)
           /\ runtime' \in {runtime, None}
<1>1. CASE queue' = q /\ runtime' = runtime  BY <1>1
<1>2. ASSUME NEW o \in Operation, o.op = "forget", queue' = Append(q, o), runtime' = None
      PROVE  /\ Good(queue') /\ (HasMove(queue') <=> HasMove(q)) /\ (HasDelete(queue') <=> HasDelete(q))
             /\ HasStore(queue') <=> HasStore(q)
  BY <1>2, Forgetting
<1> QED  BY <1>1, <1>2 DEF Begun

LEMMA KnownType == ASSUME TypeOK PROVE Known \in Maybe
BY DEF TypeOK, Known

LEMMA StartStep == ASSUME IInv, NEW r \in Run, Start(r) PROVE IInv'
<1>1. /\ TypeOK /\ Good(queue)
      /\ UNCHANGED <<stopped, givenUp, from, cache, row, torn, threadVars, statusVars, actionVars, quitting, upheavals>>
      /\ dir' = dir /\ deleted' = deleted /\ removed' = removed /\ relocating' = relocating
      /\ cache' = cache /\ row' = row /\ torn' = torn
  BY DEF IInv, Start, threadVars
<1>2. Begun(queue)
  <2>0. /\ stage \in [Run -> Stages] /\ held \in [Run -> BOOLEAN] /\ outcome \in [Run -> Outcomes]
        /\ session \in [Run -> Maybe] /\ home \in [Session -> 0..dir]
        /\ "failed" \in Outcomes /\ "deferred" \in Stages
    BY <1>1 DEF TypeOK, Outcomes, Stages
  <2>1. CASE End(r, "failed") /\ UNCHANGED <<session, home, runtime, queue>>
    BY <1>1, <2>0, <2>1, Ending DEF Begun
  <2>2. CASE /\ stage' = [stage EXCEPT ![r] = "deferred"]
             /\ UNCHANGED <<held, outcome, session, home, runtime, queue>>
    BY <2>0, <2>2 DEF Begun
  <2>3. CASE Begin(r, queue, Known)
    <3>1. ASSUME NEW q, q = queue, NEW k \in Maybe, k = Known, Begin(r, q, k) PROVE Begun(q)
      BY <1>1, <3>1, Beginning
    <3> QED  BY <1>1, <2>3, <3>1, KnownType
  <2> QED  BY <2>1, <2>2, <2>3 DEF Start
<1>3. /\ Good(queue') /\ (HasMove(queue') <=> HasMove(queue)) /\ (HasDelete(queue') <=> HasDelete(queue))
      /\ HasStore(queue') <=> HasStore(queue)
      /\ runtime' \in {runtime, None}
  BY <1>1, <1>2, BegunQueue
<1>4. TypeOK'
  BY <1>1, <1>2, <1>3, Constants DEF TypeOK, Begun, Good, threadVars, statusVars, actionVars
<1> QED  BY <1>1, <1>3, <1>4, Calm

LEMMA PromptStep == ASSUME IInv, NEW r \in Run, PromptAnswered(r) PROVE IInv'
<1>1. /\ TypeOK /\ Good(queue)
      /\ UNCHANGED <<mapVars, threadVars, statusVars, actionVars, quitting, upheavals, givenUp, from, home, stopped, session>>
      /\ deleted' = deleted /\ removed' = removed
      /\ runtime' = runtime /\ cache' = cache /\ row' = row /\ torn' = torn
  BY DEF IInv, PromptAnswered, threadVars, mapVars
<1>2. /\ stage' \in [Run -> Stages] /\ held' \in [Run -> BOOLEAN] /\ outcome' \in [Run -> Outcomes]
      /\ Good(queue') /\ (HasMove(queue') <=> HasMove(queue)) /\ (HasDelete(queue') <=> HasDelete(queue))
      /\ HasStore(queue') => HasStore(queue) \/ ~deleted
  <2>1. CASE \E e \in Outcomes : End(r, e) /\ queue' = queue
    BY <1>1, <2>1, Ending
  <2>2. CASE /\ ~deleted /\ stage' = [stage EXCEPT ![r] = "saving"]
             /\ queue' = Append(queue, Op("set", r, session[r], None))
             /\ UNCHANGED <<held, outcome>>
    <3> DEFINE o == Op("set", r, session[r], None)
    <3>1. session[r] \in Maybe /\ "set" \in Operations /\ "saving" \in Stages
      BY <1>1 DEF TypeOK, Operations, Stages
    <3>2. o \in Operation /\ o.op = "set" /\ o.by = r  BY <3>1, OpType, Constants
    <3>3. ~Moves(o) /\ ~Deletes(o)  BY <3>2 DEF Moves, Deletes
    <3>4. queue' = Append(queue, o) /\ ~HasDelete(queue)  BY <2>2 DEF IInv, DeletionOK
    <3> HIDE DEF o
    <3>5. /\ Good(Append(queue, o))
          /\ HasMove(Append(queue, o)) <=> HasMove(queue) \/ Moves(o)
          /\ HasDelete(Append(queue, o)) <=> HasDelete(queue) \/ Deletes(o)
      BY <1>1, <3>2, <3>3, <3>4, Queued
    <3> QED  BY <1>1, <2>2, <3>1, <3>3, <3>4, <3>5 DEF TypeOK
  <2>3. \/ \E e \in Outcomes : End(r, e) /\ queue' = queue
        \/ /\ ~deleted /\ stage' = [stage EXCEPT ![r] = "saving"]
           /\ queue' = Append(queue, Op("set", r, session[r], None))
           /\ UNCHANGED <<held, outcome>>
    BY DEF PromptAnswered, Outcomes
  <2> QED  BY <2>1, <2>2, <2>3
<1>3. TypeOK'
  BY <1>1, <1>2 DEF TypeOK, Good, mapVars, threadVars, statusVars, actionVars
<1> QED  BY <1>1, <1>2, <1>3, Calm

LEMMA StatusEndsStep == ASSUME IInv, StatusEnds PROVE IInv'
<1>1. /\ TypeOK /\ Good(queue)
      /\ UNCHANGED <<stopped, givenUp, from, cache, row, torn, threadVars, actionVars, quitting, upheavals>>
      /\ dir' = dir /\ deleted' = deleted /\ removed' = removed /\ relocating' = relocating
      /\ cache' = cache /\ row' = row /\ torn' = torn
  BY DEF IInv, StatusEnds, threadVars
<1>2. Begun(queue) /\ status' \in {"idle", "removing"} /\ asking' \in Maybe
  <2>1. CASE status' = "idle" /\ asking' = None /\ Drain(queue, Known)
    <3>1. ASSUME NEW q, q = queue, NEW k \in Maybe, k = Known, Drain(q, k) PROVE Begun(q)
      BY <1>1, <3>1, Draining
    <3> QED  BY <1>1, <2>1, <3>1, KnownType, Constants
  <2>2. CASE /\ status' = "removing" /\ runtime' = None
             /\ queue' = Append(queue, Op("forget", "status", asking, None))
             /\ UNCHANGED <<asking, stage, held, outcome, session, home>>
    <3>1. asking \in Maybe /\ None \in Maybe /\ "forget" \in Operations /\ "status" \in Run \cup Others
      BY <1>1, Constants DEF TypeOK, Operations, Others
    <3>2. Op("forget", "status", asking, None) \in Operation /\ Op("forget", "status", asking, None).op = "forget"
      BY <3>1, OpType
    <3> QED  BY <1>1, <2>2, <3>1, <3>2 DEF TypeOK, Begun
  <2> QED  BY <2>1, <2>2 DEF StatusEnds
<1>3. /\ Good(queue') /\ (HasMove(queue') <=> HasMove(queue)) /\ (HasDelete(queue') <=> HasDelete(queue))
      /\ HasStore(queue') <=> HasStore(queue)
      /\ runtime' \in {runtime, None}
  BY <1>1, <1>2, BegunQueue
<1>4. TypeOK'
  BY <1>1, <1>2, <1>3, Constants DEF TypeOK, Begun, Good, threadVars, actionVars
<1> QED  BY <1>1, <1>3, <1>4, Calm

LEMMA ForgetSteps == ASSUME IInv, CompactEnds \/ RemoveRuntimeSession PROVE IInv'
<1>1. /\ TypeOK /\ Good(queue)
      /\ UNCHANGED <<runVars, home, cache, row, torn, threadVars, statusVars, quitting, upheavals>>
      /\ deleted' = deleted /\ removed' = removed /\ cache' = cache /\ row' = row /\ torn' = torn
  BY DEF IInv, CompactEnds, RemoveRuntimeSession, threadVars
<1>2. /\ compacting \in Maybe /\ Known \in Maybe /\ runtime \in Maybe /\ None \in Maybe
      /\ "forget" \in Operations /\ "action" \in Run \cup Others /\ "user" \in Run \cup Others
  BY <1>1, KnownType, Constants DEF TypeOK, Operations, Others
<1>3. \/ queue' = queue /\ runtime' = runtime
      \/ (\E o \in Operation : o.op = "forget" /\ queue' = Append(queue, o)) /\ runtime' = None
  BY <1>2, OpType DEF CompactEnds, RemoveRuntimeSession
<1>4. /\ Good(queue') /\ (HasMove(queue') <=> HasMove(queue)) /\ (HasDelete(queue') <=> HasDelete(queue))
      /\ HasStore(queue') <=> HasStore(queue)
      /\ runtime' \in {runtime, None}
  BY <1>1, <1>3, Forgetting
<1>5. action' \in {"idle", "running", "removing"} /\ compacting' \in Maybe
  BY <1>1, <1>2 DEF TypeOK, CompactEnds, RemoveRuntimeSession, actionVars
<1>6. TypeOK'
  BY <1>1, <1>2, <1>4, <1>5 DEF TypeOK, Good, runVars, threadVars, statusVars
<1> QED  BY <1>1, <1>4, <1>6, Calm

-----------------------------------------------------------------------------
(* Upheavals *)

\* A deletion starts only when none is queued, for a Thread that is there, and no
\* relocation is.
LEMMA DeleteStep == ASSUME Apart, IInv, DeleteThreadData PROVE IInv'
<1>1. /\ TypeOK /\ Good(queue) /\ MappingOK /\ ~removed /\ ~HasDelete(queue) /\ ~HasMove(queue)
      /\ UNCHANGED <<givenUp, session, from, home, cache, row, torn, relocating, removed, dir, statusVars, actionVars, quitting>>
      /\ deleted' = TRUE /\ runtime' = None /\ upheavals' \in 0..MaxUpheavals
  <2>1. upheavals \in 0..MaxUpheavals /\ MaxUpheavals \in Nat /\ upheavals' \in 0..MaxUpheavals
    BY Constants DEF IInv, TypeOK, DeleteThreadData
  <2>2. ~HasDelete(queue) /\ ~HasMove(queue)
    BY DEF DeleteThreadData, DeletionRuns, RelocationRuns, HasDelete, HasMove, Deletes, Moves
  <2> QED  BY <2>1, <2>2 DEF IInv, DeleteThreadData
<1>2. PICK o \in Operation : o.op = "delete" /\ queue' = Append(queue, o)
  <2>1. runtime \in Maybe /\ "delete" \in Operations /\ "deletion" \in Run \cup Others
    BY <1>1 DEF TypeOK, Operations, Others
  <2> QED  BY <2>1, OpType, Constants DEF DeleteThreadData
<1>3. Deletes(o) /\ ~Moves(o) /\ ~Stores(o) /\ o.op \notin {"set", "purge"}
  BY <1>2 DEF Deletes, Moves, Stores
<1>4. Good(queue') /\ HasDelete(queue') /\ ~HasMove(queue')
  BY <1>1, <1>2, <1>3, Queued
<1>5. /\ stage' \in [Run -> Stages] /\ held' \in [Run -> BOOLEAN] /\ outcome' \in [Run -> Outcomes]
      /\ stopped' \in [Run -> BOOLEAN]
  BY <1>1, Stopping DEF DeleteThreadData
<1>6. TypeOK'
  BY <1>1, <1>4, <1>5, Constants DEF TypeOK, Good, statusVars, actionVars
<1>7. DeletionOK'  BY <1>1, <1>4 DEF DeletionOK
<1>8. MappingOK'  BY <1>1 DEF MappingOK
<1> QED  BY <1>4, <1>6, <1>7, <1>8 DEF IInv, Good

\* A relocation starts only when none is queued, for a Thread that is there, and no
\* deletion is.
LEMMA DetachStep == ASSUME Apart, IInv, DetachRuntimeSessions PROVE IInv'
<1>1. /\ TypeOK /\ Good(queue) /\ DeletionOK /\ ~removed /\ ~HasDelete(queue) /\ ~HasMove(queue)
      /\ UNCHANGED <<runVars, home, row, torn, deleted, removed, dir, statusVars, actionVars, quitting>>
      /\ relocating' = TRUE /\ runtime' = None /\ cache' = None /\ upheavals' \in 0..MaxUpheavals
  <2>1. upheavals \in 0..MaxUpheavals /\ MaxUpheavals \in Nat /\ upheavals' \in 0..MaxUpheavals
    BY Constants DEF IInv, TypeOK, DetachRuntimeSessions
  <2>2. ~HasDelete(queue) /\ ~HasMove(queue)
    BY DEF DetachRuntimeSessions, DeletionRuns, RelocationRuns, HasDelete, HasMove, Deletes, Moves
  <2> QED  BY <2>1, <2>2 DEF IInv, DetachRuntimeSessions
<1>2. PICK o \in Operation : o.op = "relocate" /\ queue' = Append(queue, o)
  <2>1. runtime \in Maybe /\ cache \in Maybe /\ "relocate" \in Operations /\ "relocation" \in Run \cup Others
    BY <1>1 DEF TypeOK, Operations, Others
  <2> QED  BY <2>1, OpType DEF DetachRuntimeSessions
<1>3. Moves(o) /\ ~Deletes(o) /\ ~Stores(o) /\ o.op \notin {"set", "purge"}
  BY <1>2 DEF Deletes, Moves, Stores
<1>4. Good(queue') /\ ~HasDelete(queue') /\ HasMove(queue')
  BY <1>1, <1>2, <1>3, Queued
<1>5. TypeOK'
  BY <1>1, <1>4, Constants DEF TypeOK, Good, runVars, statusVars, actionVars
<1>6. DeletionOK'  BY <1>1, <1>4 DEF DeletionOK
<1>7. MappingOK'  BY <1>4 DEF MappingOK
<1> QED  BY <1>4, <1>5, <1>6, <1>7 DEF IInv, Good

-----------------------------------------------------------------------------
(* The store serves an operation *)

LEMMA Completing ==
    ASSUME TypeOK, NEW r \in Run, Complete(r)
    PROVE  stage' \in [Run -> Stages] /\ held' \in [Run -> BOOLEAN] /\ outcome' \in [Run -> Outcomes]
<1>1. "completed" \in Outcomes  BY DEF Outcomes
<1>2. CASE UNCHANGED <<stage, held, outcome>>  BY <1>2 DEF TypeOK
<1>3. CASE End(r, "completed")  BY <1>1, <1>3, Ending
<1> QED  BY <1>2, <1>3 DEF Complete

LEMMA ServeSetStep ==
    ASSUME IInv, queue # <<>>, NEW works \in BOOLEAN, ServeSet(works),
           UNCHANGED <<stopped, givenUp, from, quitting, upheavals>>
    PROVE  IInv'
<1>1. /\ TypeOK /\ Head1.op = "set" /\ ~Moves(Head1) /\ Stores(Head1) /\ ~Deletes(Head1)
      /\ UNCHANGED <<session, home, torn, deleted, relocating, removed, dir, statusVars, actionVars>>
      /\ deleted' = deleted /\ removed' = removed /\ torn' = torn
  BY DEF IInv, ServeSet, Moves, Stores, Deletes
<1>2. /\ Good(Rest) /\ Head1 \in Operation /\ Head1.by \in Run /\ Head1.session \in Maybe
      /\ HasMove(queue) <=> HasMove(Rest)
      /\ HasDelete(queue) <=> HasDelete(Rest)
      /\ HasStore(queue)
  BY <1>1, GoodRest DEF Operation
<1>3. ~removed  BY <1>2 DEF IInv, DeletionOK
<1>4. (cache' = cache /\ row' = row) \/ (cache' = Head1.session /\ row' = Head1.session)
  BY DEF ServeSet
<1>5. CASE works /\ deleted
  <2>1. /\ queue' = Append(Rest, Op("purge", Head1.by, None, None))
        /\ UNCHANGED <<runtime, stage, held, outcome>>
    BY <1>5 DEF ServeSet
  <2>2. PICK o \in Operation : o.op = "purge" /\ o.by = Head1.by /\ queue' = Append(Rest, o)
    <3>1. "purge" \in Operations  BY DEF Operations
    <3> QED  BY <1>2, <2>1, <3>1, OpType, Constants
  <2>3. ~Moves(o) /\ ~Deletes(o) /\ ~Stores(o)  BY <2>2 DEF Moves, Deletes, Stores
  <2>4. /\ Good(queue') /\ (HasMove(queue') <=> HasMove(Rest)) /\ (HasDelete(queue') <=> HasDelete(Rest))
    BY <1>2, <2>2, <2>3, Queued
  <2>5. TypeOK'
    BY <1>1, <1>2, <1>4, <2>1, <2>4 DEF TypeOK, Good, statusVars, actionVars
  <2> QED  BY <1>1, <1>2, <1>3, <1>4, <2>1, <2>4, <2>5, Calm
<1>6. CASE ~(works /\ deleted)
  <2>1. queue' = Rest /\ Complete(Head1.by) /\ runtime' \in {runtime, Head1.session} /\ (deleted => runtime' = runtime)
    BY <1>6 DEF ServeSet
  <2>2. stage' \in [Run -> Stages] /\ held' \in [Run -> BOOLEAN] /\ outcome' \in [Run -> Outcomes]
    BY <1>1, <1>2, <2>1, Completing
  <2>3. TypeOK'
    BY <1>1, <1>2, <1>4, <2>1, <2>2 DEF TypeOK, Good, statusVars, actionVars
  <2> QED  BY <1>1, <1>2, <1>3, <1>4, <2>1, <2>3, Calm
<1> QED  BY <1>5, <1>6

LEMMA ServePurgeStep ==
    ASSUME IInv, queue # <<>>, NEW works \in BOOLEAN, ServePurge(works),
           UNCHANGED <<stopped, givenUp, from, quitting, upheavals>>
    PROVE  IInv'
<1>1. /\ TypeOK /\ Head1.op = "purge" /\ ~Moves(Head1) /\ ~Stores(Head1) /\ ~Deletes(Head1)
      /\ UNCHANGED <<runtime, session, home, torn, deleted, relocating, removed, dir, statusVars, actionVars>>
      /\ deleted' = deleted /\ removed' = removed /\ torn' = torn /\ runtime' = runtime
      /\ queue' = Rest /\ Complete(Head1.by)
  BY DEF IInv, ServePurge, Moves, Stores, Deletes
<1>2. /\ Good(Rest) /\ Head1.by \in Run
      /\ HasMove(queue) <=> HasMove(Rest)
      /\ HasDelete(queue) <=> HasDelete(Rest)
      /\ HasStore(queue) <=> HasStore(Rest)
  BY <1>1, GoodRest
<1>3. (cache' = cache /\ row' = row) \/ (cache' = None /\ row' = None)
  BY DEF ServePurge
<1>4. stage' \in [Run -> Stages] /\ held' \in [Run -> BOOLEAN] /\ outcome' \in [Run -> Outcomes]
  BY <1>1, <1>2, Completing
<1>5. TypeOK'
  BY <1>1, <1>2, <1>3, <1>4, Constants DEF TypeOK, Good, statusVars, actionVars
<1> QED  BY <1>1, <1>2, <1>3, <1>5, Calm

\* A mapping is forgotten in the cache and in the row alike.
LEMMA Forgotten ==
    ASSUME NEW works \in BOOLEAN, Forget(works)
    PROVE  cache' \in {cache, None} /\ row' \in {row, None} /\ (cache = row => cache' = row')
BY DEF Forget

LEMMA ServeReplaceStep ==
    ASSUME IInv, queue # <<>>, NEW works \in BOOLEAN, ServeReplace(works),
           UNCHANGED <<stopped, givenUp, from, quitting, upheavals>>
    PROVE  IInv'
<1>1. /\ TypeOK /\ Head1.op = "forget" /\ Head1.by \in Run
      /\ ~Moves(Head1) /\ ~Stores(Head1) /\ ~Deletes(Head1)
      /\ UNCHANGED <<runtime, torn, deleted, relocating, removed, dir, statusVars, actionVars>>
      /\ deleted' = deleted /\ removed' = removed /\ torn' = torn /\ runtime' = runtime /\ dir' = dir
      /\ queue' = Rest /\ Forget(works)
  BY DEF IInv, ServeReplace, Moves, Stores, Deletes
<1>2. /\ Good(Rest)
      /\ HasMove(queue) <=> HasMove(Rest)
      /\ HasDelete(queue) <=> HasDelete(Rest)
      /\ HasStore(queue) <=> HasStore(Rest)
  BY <1>1, GoodRest
<1>3. cache' \in {cache, None} /\ row' \in {row, None} /\ (cache = row => cache' = row')
  BY <1>1, Forgotten
<1>4. /\ stage' \in [Run -> Stages] /\ held' \in [Run -> BOOLEAN] /\ outcome' \in [Run -> Outcomes]
      /\ session' \in [Run -> Maybe] /\ home' \in [Session -> 0..dir]
  <2>1. PICK r \in Run : r = Head1.by  BY <1>1
  <2>2. CASE Spawn(r, None)  BY <1>1, <2>2, Spawned, Constants
  <2>3. CASE (\E e \in Outcomes : End(r, e)) /\ UNCHANGED <<session, home>>
    <3>1. session \in [Run -> Maybe] /\ home \in [Session -> 0..dir]  BY <1>1 DEF TypeOK
    <3> QED  BY <1>1, <2>3, <3>1, Ending
  <2>4. "stopped" \in Outcomes /\ "failed" \in Outcomes  BY DEF Outcomes
  <2> QED  BY <2>1, <2>2, <2>3, <2>4 DEF ServeReplace
<1>5. TypeOK'
  BY <1>1, <1>2, <1>3, <1>4, Constants DEF TypeOK, Good, statusVars, actionVars
<1> QED  BY <1>1, <1>2, <1>3, <1>5, Calm

LEMMA ServeForgetStep ==
    ASSUME IInv, queue # <<>>, ServeForget(TRUE),
           UNCHANGED <<stopped, givenUp, from, quitting, upheavals>>
    PROVE  IInv'
<1>1. /\ TypeOK /\ Head1.op = "forget" /\ ~Moves(Head1) /\ ~Stores(Head1) /\ ~Deletes(Head1)
      /\ deleted' = deleted /\ removed' = removed /\ relocating' = relocating /\ dir' = dir /\ torn' = torn
      /\ Forget(TRUE)
  BY DEF IInv, ServeForget, Moves, Stores, Deletes
<1>2. /\ Good(Rest)
      /\ HasMove(queue) <=> HasMove(Rest)
      /\ HasDelete(queue) <=> HasDelete(Rest)
      /\ HasStore(queue) <=> HasStore(Rest)
  BY <1>1, GoodRest
<1>3. cache' \in {cache, None} /\ row' \in {row, None} /\ (cache = row => cache' = row')
  BY <1>1, Forgotten
<1>4. /\ Begun(Rest)
      /\ status' \in {status, "idle"} /\ asking' \in {asking, None}
      /\ action' \in {action, "idle"} /\ compacting' \in {compacting, None}
  <2>1. CASE /\ status' = "idle" /\ asking' = None
             /\ Drain(Rest, IF runtime # None THEN runtime ELSE cache')
             /\ UNCHANGED actionVars
    <3>1. (IF runtime # None THEN runtime ELSE cache') \in Maybe  BY <1>1, <1>3, Constants DEF TypeOK
    <3>2. ASSUME NEW q, NEW k \in Maybe, Drain(q, k) PROVE Begun(q)
      BY <1>1, <3>2, Draining
    <3> QED  BY <2>1, <3>1, <3>2 DEF actionVars
  <2>2. CASE /\ queue' = Rest /\ runtime' = runtime
             /\ status' \in {status, "idle"} /\ asking' \in {asking, None}
             /\ action' \in {action, "idle"} /\ compacting' \in {compacting, None}
             /\ UNCHANGED <<stage, held, outcome, session, home>>
    BY <1>1, <2>2 DEF TypeOK, Begun
  <2> QED  BY <2>1, <2>2 DEF ServeForget, statusVars, actionVars
<1>5. /\ Good(queue') /\ (HasMove(queue') <=> HasMove(Rest)) /\ (HasDelete(queue') <=> HasDelete(Rest))
      /\ HasStore(queue') <=> HasStore(Rest)
      /\ runtime' \in {runtime, None}
  BY <1>2, <1>4, BegunQueue
<1>6. TypeOK'
  BY <1>1, <1>3, <1>4, <1>5, Constants DEF TypeOK, Good, Begun
<1> QED  BY <1>1, <1>2, <1>3, <1>5, <1>6, Calm

LEMMA ServeDeleteStep ==
    ASSUME IInv, queue # <<>>, NEW works \in BOOLEAN, ServeDelete(works),
           UNCHANGED <<stopped, givenUp, from, quitting, upheavals>>
    PROVE  IInv'
<1>1. /\ TypeOK /\ Head1.op = "delete" /\ ~Moves(Head1) /\ ~Stores(Head1) /\ Deletes(Head1)
      /\ UNCHANGED <<stage, held, outcome, session, home, torn, relocating, dir, statusVars, actionVars>>
      /\ torn' = torn /\ queue' = Rest
  BY DEF IInv, ServeDelete, Moves, Stores, Deletes
<1>2. /\ Good(Rest) /\ Head1 \in Operation /\ Head1.memory \in Maybe
      /\ HasMove(queue) <=> HasMove(Rest)
      /\ HasDelete(queue) /\ ~HasDelete(Rest) /\ ~HasStore(Rest)
  BY <1>1, GoodRest DEF Operation
<1>3. /\ deleted = TRUE /\ removed = FALSE /\ runtime = None
      /\ ~HasMove(queue) /\ (cache = row \/ torn)
  BY <1>1, <1>2 DEF IInv, Good, DeletionOK, MappingOK, TypeOK
<1>4. \/ /\ removed' = TRUE /\ deleted' = TRUE /\ runtime' = None /\ row' = None
         /\ cache' = IF cache = row THEN None ELSE cache
      \/ /\ removed' = FALSE /\ deleted' = FALSE /\ runtime' \in {Head1.memory, None}
         /\ cache' = cache /\ row' = row
  BY <1>3 DEF ServeDelete, Or
<1>5. {runtime', cache', row'} \subseteq Maybe /\ removed' \in BOOLEAN /\ deleted' \in BOOLEAN
  BY <1>1, <1>2, <1>4, Constants DEF TypeOK
<1>6. TypeOK'
  BY <1>1, <1>2, <1>5 DEF TypeOK, Good, statusVars, actionVars
<1>7. MappingOK'  BY <1>1, <1>3, <1>4 DEF MappingOK
<1>8. DeletionOK'  BY <1>1, <1>2, <1>3, <1>4 DEF DeletionOK
<1> QED  BY <1>1, <1>2, <1>6, <1>7, <1>8 DEF IInv, Good

LEMMA ServeRelocateStep ==
    ASSUME IInv, queue # <<>>, NEW works \in BOOLEAN, ServeRelocate(works),
           UNCHANGED <<stopped, givenUp, from, quitting, upheavals>>
    PROVE  IInv'
<1>1. /\ TypeOK /\ Head1.op = "relocate" /\ Moves(Head1) /\ ~Stores(Head1) /\ ~Deletes(Head1)
      /\ UNCHANGED <<stage, held, outcome, session, home, deleted, removed, statusVars, actionVars>>
      /\ deleted' = deleted /\ removed' = removed
      /\ relocating' = FALSE /\ queue' = Rest /\ torn' = (torn \/ cache' # row')
  BY DEF IInv, ServeRelocate, Moves, Stores, Deletes
<1>2. /\ Good(Rest) /\ Head1 \in Operation /\ Head1.memory \in Maybe /\ Head1.session \in Maybe
      /\ HasMove(queue)
      /\ HasDelete(queue) <=> HasDelete(Rest)
  BY <1>1, GoodRest DEF Operation
<1>3. ~removed /\ ~HasDelete(queue) /\ ~deleted
  BY <1>2 DEF IInv, Good, DeletionOK
<1>4. \/ row' = None /\ dir' = dir + 1 /\ runtime' = runtime /\ cache' = cache
      \/ /\ cache' \in {Head1.session, cache} /\ runtime' \in {Head1.memory, runtime}
         /\ row' = row /\ dir' = dir
  BY DEF ServeRelocate, Or
<1>5. {runtime', cache', row'} \subseteq Maybe /\ torn' \in BOOLEAN
  BY <1>1, <1>2, <1>4, Constants DEF TypeOK
<1>6. dir' \in Nat /\ 0..dir \subseteq 0..dir'
  BY <1>1, <1>4 DEF TypeOK
<1>7. from' \in [Run -> 0..dir'] /\ home' \in [Session -> 0..dir']
  BY <1>1, <1>6 DEF TypeOK
<1>8. TypeOK'
  BY <1>1, <1>2, <1>5, <1>6, <1>7 DEF TypeOK, Good, statusVars, actionVars
<1>9. MappingOK'  BY <1>1 DEF MappingOK
<1>10. DeletionOK'  BY <1>1, <1>2, <1>3 DEF DeletionOK
<1> QED  BY <1>1, <1>2, <1>8, <1>9, <1>10 DEF IInv, Good

-----------------------------------------------------------------------------
(* The theorems *)

LEMMA Initially == Init => IInv
<1> SUFFICES ASSUME Init PROVE IInv  OBVIOUS
<1>1. queue = <<>> /\ cache = row /\ queue \in Seq(Operation) /\ DOMAIN queue = {}
  BY Empty DEF Init
<1>2. TypeOK
  <2>1. /\ stage \in [Run -> Stages] /\ outcome \in [Run -> Outcomes]
        /\ held \in [Run -> BOOLEAN] /\ stopped \in [Run -> BOOLEAN]
        /\ session \in [Run -> Maybe] /\ givenUp \subseteq Run
    BY Constants DEF Init, Stages, Outcomes
  <2>2. dir \in Nat /\ from \in [Run -> 0..dir] /\ home \in [Session -> 0..dir] /\ upheavals \in 0..MaxUpheavals
    BY Constants DEF Init
  <2>3. Old \in Session  BY DEF Session
  <2>4. {runtime, cache, row, asking, compacting} \subseteq Maybe
        /\ {torn, deleted, relocating, removed, quitting} \subseteq BOOLEAN
    BY <2>3, Constants DEF Init
  <2> QED  BY <1>1, <2>1, <2>2, <2>4 DEF TypeOK, Init
<1>3. Good(queue)  BY <1>1, Empty DEF Good
<1>4. MappingOK  BY <1>1 DEF MappingOK
<1>5. DeletionOK  BY <1>1, Empty DEF DeletionOK, Init
<1> QED  BY <1>2, <1>3, <1>4, <1>5 DEF IInv

LEMMA Inductive ==
    ASSUME Apart, "forget" \notin Faulty, IInv, [Next]_vars
    PROVE  IInv'
<1>1. CASE \E r \in Run : RunStep(r)
  BY <1>1, RunSteps, StartStep, PromptStep, StopStep DEF RunStep
<1>2. CASE BeginStatus \/ Compact  BY <1>2, RequestSteps
<1>3. CASE StatusEnds  BY <1>3, StatusEndsStep
<1>4. CASE CompactEnds \/ RemoveRuntimeSession  BY <1>4, ForgetSteps
<1>5. CASE DeleteThreadData  BY <1>5, DeleteStep
<1>6. CASE DetachRuntimeSessions  BY <1>6, DetachStep
<1>7. CASE BeginShutdown \/ EndShutdown  BY <1>7, ShutdownSteps
<1>8. CASE ServeStore
  <2>1. queue # <<>> /\ UNCHANGED <<stopped, givenUp, from, quitting, upheavals>>
    BY <1>8 DEF ServeStore
  <2>2. PICK works \in BOOLEAN :
          /\ Head1.op = "forget" => works = TRUE
          /\ \/ ServeSet(works) \/ ServePurge(works) \/ ServeReplace(works)
             \/ ServeForget(works) \/ ServeDelete(works) \/ ServeRelocate(works)
    BY <1>8 DEF ServeStore
  <2>3. CASE ServeSet(works)  BY <2>1, <2>3, ServeSetStep
  <2>4. CASE ServePurge(works)  BY <2>1, <2>4, ServePurgeStep
  <2>5. CASE ServeReplace(works)  BY <2>1, <2>5, ServeReplaceStep
  <2>6. CASE ServeForget(works)
    <3>1. ServeForget(TRUE)  BY <2>2, <2>6 DEF ServeForget
    <3> QED  BY <2>1, <3>1, ServeForgetStep
  <2>7. CASE ServeDelete(works)  BY <2>1, <2>7, ServeDeleteStep
  <2>8. CASE ServeRelocate(works)  BY <2>1, <2>8, ServeRelocateStep
  <2> QED  BY <2>2, <2>3, <2>4, <2>5, <2>6, <2>7, <2>8
<1>9. CASE UNCHANGED vars
  <2>1. UNCHANGED <<mapVars, queue, threadVars>>  BY <1>9 DEF vars
  <2>2. TypeOK'
    BY <1>9 DEF IInv, TypeOK, vars, runVars, mapVars, threadVars, statusVars, actionVars
  <2> QED  BY <2>1, <2>2, Quiet
<1> QED  BY <1>1, <1>2, <1>3, <1>4, <1>5, <1>6, <1>7, <1>8, <1>9 DEF Next

\* What the other theorems rest on, where a deletion and a relocation do not overlap and
\* the store can forget a mapping.
THEOREM Invariance == ASSUME Apart, "forget" \notin Faulty PROVE Spec => []IInv
<1>1. Init => IInv  BY Initially
<1>2. IInv /\ [Next]_vars => IInv'  BY Inductive
<1> QED  BY <1>1, <1>2, PTL DEF Spec

\* Every variable of the manager keeps its shape.
THEOREM TypeCorrect == ASSUME Apart, "forget" \notin Faulty PROVE Spec => []TypeOK
<1>1. IInv => TypeOK  BY DEF IInv
<1> QED  BY <1>1, Invariance, PTL

\* Once the rows of a Thread are deleted, no Runtime Session of it is mapped, whatever
\* was completing when it was deleted (onCompletedSession), and whatever relocations there
\* were before, but for the cache after one that left it other than the row.
THEOREM NothingIsLeft == ASSUME Apart, "forget" \notin Faulty PROVE Spec => []DeletionLeavesNothing
<1>1. IInv => DeletionLeavesNothing
  BY DEF IInv, DeletionOK, DeletionLeavesNothing
<1> QED  BY <1>1, Invariance, PTL
=============================================================================
