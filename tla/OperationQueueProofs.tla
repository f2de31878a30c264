------------------------ MODULE OperationQueueProofs ------------------------
(***************************************************************************)
(* Theorems of OperationQueue, for any workers, clients, priorities and    *)
(* bounds.                                                                 *)
(***************************************************************************)
EXTENDS OperationQueue, FiniteSetTheorems, SequenceTheorems, TLAPS

-----------------------------------------------------------------------------
(* Sequences.                                                              *)

LEMMA SeqMonotone ==
    ASSUME NEW S, NEW T, S \subseteq T, NEW s \in Seq(S)
    PROVE  s \in Seq(T)
  OBVIOUS

LEMMA AppendFacts ==
    ASSUME NEW S, NEW s \in Seq(S), NEW e \in S
    PROVE  /\ Append(s, e) \in Seq(S)
           /\ RangeOf(Append(s, e)) = RangeOf(s) \union {e}
           /\ e \notin RangeOf(s) => \A i, j \in DOMAIN Append(s, e) :
                (\A k, l \in DOMAIN s : s[k] = s[l] => k = l)
                    => (Append(s, e)[i] = Append(s, e)[j] => i = j)
  BY DEF RangeOf

LEMMA HeadTailFacts ==
    ASSUME NEW S, NEW s \in Seq(S), s # <<>>
    PROVE  /\ Head(s) \in S /\ Tail(s) \in Seq(S)
           /\ 1 \in DOMAIN s /\ Head(s) = s[1]
           /\ DOMAIN Tail(s) = 1..(Len(s) - 1)
           /\ \A i \in DOMAIN Tail(s) : i + 1 \in DOMAIN s /\ Tail(s)[i] = s[i + 1]
           /\ RangeOf(s) = {Head(s)} \union RangeOf(Tail(s))
  <1>1. /\ Head(s) \in S /\ Tail(s) \in Seq(S)
        /\ 1 \in DOMAIN s /\ Head(s) = s[1]
        /\ DOMAIN Tail(s) = 1..(Len(s) - 1)
        /\ \A i \in DOMAIN Tail(s) : i + 1 \in DOMAIN s /\ Tail(s)[i] = s[i + 1]
    OBVIOUS
  <1>2. \A i \in DOMAIN s : i = 1 \/ (i - 1 \in DOMAIN Tail(s) /\ Tail(s)[i - 1] = s[i])
    BY <1>1
  <1> QED  BY <1>1, <1>2, SMTT(40) DEF RangeOf

LEMMA RemoveAtFacts ==
    ASSUME NEW S, NEW s \in Seq(S), NEW i \in DOMAIN s
    PROVE  /\ RemoveAt(s, i) \in Seq(S)
           /\ DOMAIN RemoveAt(s, i) = 1..(Len(s) - 1)
           /\ \A j \in DOMAIN RemoveAt(s, i) :
                /\ j \in DOMAIN s /\ j + 1 \in DOMAIN s
                /\ RemoveAt(s, i)[j] = IF j < i THEN s[j] ELSE s[j + 1]
  <1> DEFINE a == SubSeq(s, 1, i - 1)
             b == SubSeq(s, i + 1, Len(s))
  <1>1. i \in 1..Len(s) /\ Len(s) \in Nat
    OBVIOUS
  <1>2. /\ a \in Seq(S) /\ Len(a) = i - 1
        /\ \A j \in 1..(i - 1) : a[j] = s[j]
    BY <1>1
  <1>3. /\ b \in Seq(S) /\ Len(b) = Len(s) - i
        /\ \A j \in 1..(Len(s) - i) : b[j] = s[j + i]
    BY <1>1
  <1> HIDE DEF a, b
  <1>4. /\ a \o b \in Seq(S) /\ Len(a \o b) = Len(s) - 1
        /\ DOMAIN (a \o b) = 1..(Len(s) - 1)
    BY <1>1, <1>2, <1>3
  <1>5. \A j \in 1..(Len(s) - 1) : (a \o b)[j] = IF j <= i - 1 THEN a[j] ELSE b[j - (i - 1)]
    BY <1>1, <1>2, <1>3, ConcatProperties, SMTT(40)
  <1>6. \A j \in 1..(Len(s) - 1) : (a \o b)[j] = IF j < i THEN s[j] ELSE s[j + 1]
    BY <1>1, <1>2, <1>3, <1>5
  <1>7. RemoveAt(s, i) = a \o b
    BY DEF RemoveAt, a, b
  <1>8. \A j \in 1..(Len(s) - 1) : j \in DOMAIN s /\ j + 1 \in DOMAIN s
    BY <1>1
  <1> QED  BY <1>4, <1>6, <1>7, <1>8

-----------------------------------------------------------------------------
(* Types.                                                                  *)

LEMMA OpsKept ==
    ASSUME UNCHANGED ops
    PROVE  Orders' = Orders /\ Frames' = Frames
  BY DEF Orders, Frames

LEMMA ResultsKept ==
    ASSUME UNCHANGED results
    PROVE  Ids' = Ids
  BY DEF Ids

LEMMA OpFacts ==
    ASSUME TypeOK, NEW o \in Orders
    PROVE  /\ ops[o].priority \in Priorities
           /\ ops[o].after \in Seq(Ids)
           /\ ops[o].result \in Ids \union {NoResult}
  <1> DEFINE R == [priority: Priorities, after: Seq(Ids), result: Ids \union {NoResult}]
  <1>1. ops \in Seq(R)
    BY DEF TypeOK
  <1>2. ops[o] \in R
    <2> HIDE DEF R
    <2> QED  BY <1>1 DEF Orders
  <1> QED  BY <1>2

LEMMA ResultFacts ==
    ASSUME TypeOK, NEW id \in Ids
    PROVE  results[id] \in States /\ id \in DOMAIN results
  BY DEF TypeOK, Ids

\* A result filled in or cancelled is the same result.
LEMMA ResultTypes ==
    ASSUME NEW id, NEW state \in States, results \in Seq(States),
           results' = [results EXCEPT ![id] = state] \/ results' = results
    PROVE  results' \in Seq(States) /\ Ids' = Ids
  BY DEF Ids

\* Replacing the innermost frame, or dropping it.
LEMMA FrameTypes ==
    ASSUME NEW w \in Workers, stack \in [Workers -> Seq(Frames)],
           Busy(w), NEW frame \in Frames,
           Becomes(w, frame) \/ Pop(w)
    PROVE  stack' \in [Workers -> Seq(Frames)] /\ Top(w) \in Frames
  <1>1. stack[w] \in Seq(Frames) /\ stack[w] # <<>> /\ Len(stack[w]) \in DOMAIN stack[w]
    BY DEF Busy
  <1>2. Top(w) \in Frames
    BY <1>1 DEF Top
  <1>3. [stack[w] EXCEPT ![Len(stack[w])] = frame] \in Seq(Frames)
    BY <1>1, ExceptSeq
  <1>4. SubSeq(stack[w], 1, Len(stack[w]) - 1) \in Seq(Frames)
    BY <1>1
  <1> QED  BY <1>2, <1>3, <1>4 DEF Becomes, Pop

LEMMA LoopTypes ==
    ASSUME loop \in [Workers -> Seq(Items)], NEW w \in Workers, NEW item \in Items
    PROVE  Performed(w, item) \in Seq(Items) /\ Append(loop[w], item) \in Seq(Items)
  BY DEF Performed

LEMMA ReadyTypes ==
    ASSUME TypeOK, NEW order \in Orders', NEW p \in Priorities, MakeReady(order, p),
           Orders \subseteq Orders'
    PROVE  /\ tasks' \in [Priorities -> Seq(Orders')]
           /\ sweeping' \in [Workers -> BOOLEAN]
           /\ loop' \in [Workers -> Seq(Items)]
  <1>1. \A q \in Priorities : tasks[q] \in Seq(Orders')
    BY SeqMonotone DEF TypeOK
  <1>2. tasks' \in [Priorities -> Seq(Orders')]
    BY <1>1 DEF TypeOK, MakeReady
  <1>3. sweeping' \in [Workers -> BOOLEAN]
    BY DEF TypeOK, MakeReady
  <1>4. loop' \in [Workers -> Seq(Items)]
    BY LoopTypes DEF TypeOK, MakeReady, Items
  <1> QED  BY <1>2, <1>3, <1>4

LEMMA NamedFinite ==
    ASSUME NEW after \in AfterLists, NEW T, T \subseteq DOMAIN after
    PROVE  /\ after \in Seq(Ids)
           /\ IsFiniteSet(T) /\ Cardinality(T) \in Nat
           /\ Cardinality(T) > 0 <=> T # {}
  <1>1. PICK n \in 0..MaxAfter : after \in [1..n -> Ids]
    BY DEF AfterLists
  <1>2. IsFiniteSet(1..n)
    BY FS_Interval
  <1>3. IsFiniteSet(T)
    BY <1>1, <1>2, FS_Subset
  <1>4. n \in Nat
    BY BoundsAssumption
  <1>5. after \in Seq(Ids)
    BY <1>1, <1>4
  <1> QED  BY <1>3, <1>5, FS_CardinalityType, FS_EmptySet

\* queue() keeps every variable it writes in its type.
LEMMA QueueTypes ==
    ASSUME TypeOK, NEW p \in Priorities, NEW after \in AfterLists,
           Ids \subseteq Ids', NEW result \in Ids' \union {NoResult},
           Queue(p, after, result)
    PROVE  /\ Orders' = Orders \union {Len(ops) + 1} /\ Len(ops) + 1 \notin Orders
           /\ ops' \in Seq([priority: Priorities, after: Seq(Ids'), result: Ids' \union {NoResult}])
           /\ unfinished' \subseteq Orders'
           /\ DOMAIN dependents' \subseteq Ids' /\ dependents' \in [DOMAIN dependents' -> Seq(Orders')]
           /\ Waiting' \subseteq Orders' /\ waiting' \in [Waiting' -> Nat \ {0}]
           /\ tasks' \in [Priorities -> Seq(Orders')]
           /\ sweeping' \in [Workers -> BOOLEAN]
           /\ loop' \in [Workers -> Seq(Items)]
  <1> DEFINE order == Len(ops) + 1
             new == [priority |-> p, after |-> after, result |-> result]
             named(id) == Cardinality({i \in DOMAIN after : after[i] = id})
             before(id) == IF id \in DOMAIN dependents THEN dependents[id] ELSE <<>>
  <1>1. /\ ops' = Append(ops, new)
        /\ unfinished' = unfinished \union {order}
        /\ dependents' = [id \in DOMAIN dependents \union ({result} \ {NoResult}) |->
                            before(id) \o [i \in 1..named(id) |-> order]]
    BY DEF Queue
  <1>2. after \in Seq(Ids) /\ after \in Seq(Ids')
    BY NamedFinite, SeqMonotone
  <1>3. ops \in Seq([priority: Priorities, after: Seq(Ids'), result: Ids' \union {NoResult}])
    <2>1. [priority: Priorities, after: Seq(Ids), result: Ids \union {NoResult}]
            \subseteq [priority: Priorities, after: Seq(Ids'), result: Ids' \union {NoResult}]
      BY SeqMonotone
    <2> QED  BY <2>1, SeqMonotone DEF TypeOK
  <1>4. ops' \in Seq([priority: Priorities, after: Seq(Ids'), result: Ids' \union {NoResult}])
    BY <1>1, <1>2, <1>3
  <1>5. Orders' = Orders \union {order} /\ order \notin Orders /\ Orders \subseteq Orders'
    BY <1>1, <1>3 DEF Orders
  <1>6. unfinished' \subseteq Orders'
    BY <1>1, <1>5 DEF TypeOK
  <1>7. ASSUME NEW id \in DOMAIN dependents \union ({result} \ {NoResult})
        PROVE  id \in Ids' /\ before(id) \o [i \in 1..named(id) |-> order] \in Seq(Orders')
    <2>1. named(id) \in Nat
      BY NamedFinite
    <2>2. [i \in 1..named(id) |-> order] \in Seq(Orders')
      BY <2>1, <1>5
    <2>3. before(id) \in Seq(Orders')
      BY <1>5, SeqMonotone DEF TypeOK
    <2>4. id \in Ids'
      BY DEF TypeOK
    <2> HIDE DEF named, before
    <2> QED  BY <2>2, <2>3, <2>4
  <1>8. DOMAIN dependents' \subseteq Ids' /\ dependents' \in [DOMAIN dependents' -> Seq(Orders')]
    <2> HIDE DEF named, before, order
    <2> QED  BY <1>1, <1>7
  <1>9. CASE Cardinality(Open(after)) > 0
    <2>1. /\ waiting' = [o \in Waiting \union {order} |->
                            IF o = order THEN Cardinality(Open(after)) ELSE waiting[o]]
          /\ UNCHANGED <<tasks, sweeping, loop>>
      BY <1>9 DEF Queue
    <2>2. Cardinality(Open(after)) \in Nat \ {0}
      BY <1>9, NamedFinite DEF Open
    <2>3. Waiting' \subseteq Orders' /\ waiting' \in [Waiting' -> Nat \ {0}]
      BY <2>1, <2>2, <1>5 DEF TypeOK, Waiting
    <2>4. tasks' \in [Priorities -> Seq(Orders')]
      BY <2>1, <1>5, SeqMonotone DEF TypeOK
    <2> QED  BY <2>1, <2>3, <2>4, <1>4, <1>5, <1>6, <1>8 DEF TypeOK
  <1>10. CASE ~(Cardinality(Open(after)) > 0)
    <2>1. MakeReady(order, p) /\ UNCHANGED waiting
      BY <1>10 DEF Queue
    <2>2. Waiting' \subseteq Orders' /\ waiting' \in [Waiting' -> Nat \ {0}]
      BY <2>1, <1>5 DEF TypeOK, Waiting
    <2> QED  BY <2>1, <2>2, <1>4, <1>5, <1>6, <1>8, ReadyTypes
  <1> QED  BY <1>9, <1>10

\* A result's notify_all() moves clients from one phase to another.
LEMMA ToldTypes ==
    ASSUME TypeOK, NEW id
    PROVE  Told(id) \in [Clients -> [phase: ClientPhases, target: Nat, answer: BOOLEAN]]
  BY DEF TypeOK, Told, ClientPhases

\* Steps of the callers: accepting, cancelling and stopping.
LEMMA CallerTypes ==
    ASSUME TypeOK, CallerNext \/ CancelNext
    PROVE  TypeOK'
  <1>1. ASSUME NEW p \in Priorities, NEW after \in AfterLists, Submit(p, after)
        PROVE  TypeOK'
    <2>1. Ids' = Ids
      BY <1>1, ResultsKept DEF Submit
    <2>2. Queue(p, after, NoResult)
      BY <1>1 DEF Submit
    <2> HIDE DEF NoResult
    <2>3. /\ Orders \subseteq Orders'
          /\ counting \in Seq(Orders') /\ stack \in [Workers -> Seq(Frames')]
      <3>1. Orders \subseteq Orders'
        BY <2>1, <2>2, QueueTypes
      <3>2. Frames \subseteq Frames'
        BY <3>1 DEF Frames
      <3> QED  BY <3>1, <3>2, SeqMonotone DEF TypeOK
    <2> QED  BY <1>1, <2>1, <2>2, <2>3, QueueTypes DEF TypeOK, Submit
  <1>2. ASSUME NEW p \in Priorities, NEW after \in AfterLists, Enqueue(p, after)
        PROVE  TypeOK'
    <2>1. results' \in Seq(States) /\ Ids' = Ids \union {Len(results) + 1}
      BY <1>2 DEF Enqueue, TypeOK, Ids, States
    <2>2. Queue(p, after, Len(results) + 1)
      BY <1>2 DEF Enqueue
    <2>3. /\ Orders \subseteq Orders'
          /\ counting \in Seq(Orders') /\ stack \in [Workers -> Seq(Frames')]
      <3>1. Orders \subseteq Orders'
        BY <2>1, <2>2, QueueTypes
      <3>2. Frames \subseteq Frames'
        BY <3>1 DEF Frames
      <3> QED  BY <3>1, <3>2, SeqMonotone DEF TypeOK
    <2> QED  BY <1>2, <2>1, <2>2, <2>3, QueueTypes DEF TypeOK, Enqueue
  <1>3. ASSUME NEW after \in AfterLists, EnqueueCancelled(after)
        PROVE  TypeOK'
    <2>1. results' \in Seq(States) /\ Ids' = Ids \union {Len(results) + 1}
      BY <1>3 DEF EnqueueCancelled, TypeOK, Ids, States
    <2>2. /\ Orders' = Orders /\ Frames' = Frames /\ Waiting' = Waiting
          /\ UNCHANGED <<ops, unfinished, dependents, waiting, tasks, sweeping, counting, removing,
                         loop, quitting, life, stack, posts, client, started, early, mutex, accepting>>
      BY <1>3, OpsKept DEF EnqueueCancelled, workerVars, Waiting
    <2>3. ops \in Seq([priority: Priorities, after: Seq(Ids'), result: Ids' \union {NoResult}])
      <3>1. [priority: Priorities, after: Seq(Ids), result: Ids \union {NoResult}]
              \subseteq [priority: Priorities, after: Seq(Ids'), result: Ids' \union {NoResult}]
        BY <2>1, SeqMonotone
      <3> QED  BY <3>1, SeqMonotone DEF TypeOK
    <2> QED  BY <2>1, <2>2, <2>3 DEF TypeOK
  <1>4. ASSUME NEW order \in Orders, CancelBegin(order)
        PROVE  TypeOK'
    <2>1. /\ Orders' = Orders /\ Frames' = Frames /\ Ids' = Ids
          /\ UNCHANGED <<ops, unfinished, results, dependents, sweeping, counting,
                         loop, quitting, life, stack, posts, client, started, early, accepting>>
          /\ mutex' = "cancel" /\ removing' = {order}
      BY <1>4, OpsKept, ResultsKept DEF CancelBegin, workerVars
    <2>2. tasks' \in [Priorities -> Seq(Orders)]
      <3>1. CASE UNCHANGED tasks
        BY <3>1 DEF TypeOK
      <3>2. ASSUME NEW p \in Priorities, NEW i \in DOMAIN tasks[p],
                   tasks' = [tasks EXCEPT ![p] = RemoveAt(@, i)]
            PROVE  tasks' \in [Priorities -> Seq(Orders)]
        BY <3>2, RemoveAtFacts DEF TypeOK
      <3> QED  BY <1>4, <3>1, <3>2 DEF CancelBegin
    <2>3. Waiting' \subseteq Orders /\ waiting' \in [Waiting' -> Nat \ {0}]
      BY <1>4 DEF CancelBegin, TypeOK, WithoutWaiting, Waiting
    <2> QED  BY <2>1, <2>2, <2>3 DEF TypeOK
  <1>5. ASSUME NEW order \in Orders, CancelStep(order)
        PROVE  TypeOK'
    <2> DEFINE id == ops[order].result
    <2>1. /\ Orders' = Orders /\ Frames' = Frames
          /\ UNCHANGED <<mutex, accepting, ops, tasks, sweeping, counting,
                         loop, quitting, life, stack, posts, started, early>>
          /\ unfinished' \subseteq Orders /\ client' \in {client, Told(id)}
      BY <1>5, OpsKept DEF CancelStep, workerVars, TypeOK
    <2>2. removing' \subseteq Orders
      BY <1>5 DEF CancelStep, TypeOK, Followers
    <2>3. results' \in Seq(States) /\ Ids' = Ids
      <3>1. CASE id = NoResult
        BY <1>5, <3>1, ResultsKept DEF CancelStep, TypeOK
      <3>2. CASE id # NoResult
        <4>1. results' = [results EXCEPT ![id] = IF results[id] = "pending" THEN "cancelled" ELSE results[id]]
          BY <1>5, <3>2 DEF CancelStep
        <4>2. id \in Ids /\ results[id] \in States
          BY <3>2, OpFacts, ResultFacts
        <4> QED  BY <4>1, <4>2, ResultTypes DEF TypeOK, States
      <3> QED  BY <3>1, <3>2
    <2>4. DOMAIN dependents' \subseteq Ids /\ dependents' \in [DOMAIN dependents' -> Seq(Orders)]
      BY <1>5 DEF CancelStep, TypeOK, WithoutDependents
    <2>5. Waiting' \subseteq Orders /\ waiting' \in [Waiting' -> Nat \ {0}]
      BY <1>5 DEF CancelStep, TypeOK, WithoutWaiting, Waiting
    <2> QED  BY <2>1, <2>2, <2>3, <2>4, <2>5, ToldTypes DEF TypeOK
  <1>6. CASE CancelEnd
    <2>1. client' \in [Clients -> [phase: ClientPhases, target: Nat, answer: BOOLEAN]]
      BY <1>6, ZenonT(60) DEF CancelEnd, TypeOK, Notified, ClientPhases
    <2> QED
      BY <1>6, <2>1, OpsKept, ResultsKept DEF CancelEnd, TypeOK, queueVars, workerVars, Waiting
  <1>7. CASE Stop
    <2>1. loop' \in [Workers -> Seq(Items)] /\ accepting' \in BOOLEAN
      BY <1>7, LoopTypes DEF Stop, Stopped, TypeOK, Items
    <2> QED  BY <1>7, <2>1, OpsKept, ResultsKept DEF Stop, TypeOK, queueVars, Waiting
  <1> QED  BY <1>1, <1>2, <1>3, <1>4, <1>5, <1>6, <1>7 DEF CallerNext, CancelNext

\* Steps of a worker that leave the tasks, results and lists alone.
LEMMA LoopStepTypes ==
    ASSUME TypeOK, NEW w \in Workers,
           \/ StartItem(w) \/ Pump(w) \/ Check(w) \/ Leave(w) \/ UserReturn(w)
           \/ EndLoop(w) \/ ThreadEnd(w) \/ DoneEnd(w) \/ PostOwn(w) \/ PostOther(w) \/ QuitEarly(w)
    PROVE  TypeOK'
  <1> DEFINE Clear == UNCHANGED <<accepting, ops, unfinished, results, dependents, waiting, tasks,
                                  sweeping, counting, removing, started>>
             Others == /\ mutex' \in {mutex, "free"} /\ posts' \in {posts, posts + 1}
                       /\ early' \in {early, early \union {w}} /\ client' \in {client, Notified}
                       /\ quitting' \in {quitting, [quitting EXCEPT ![w] = TRUE],
                                         [quitting EXCEPT ![w] = FALSE]}
                       /\ life' \in {life, [life EXCEPT ![w] = "ending"], [life EXCEPT ![w] = "ended"]}
  <1>1. Clear /\ Others
    <2>1. CASE StartItem(w)  BY <2>1 DEF StartItem, queueVars
    <2>2. CASE Pump(w)  BY <2>2 DEF Pump, queueVars
    <2>3. CASE Check(w)  BY <2>3 DEF Check, queueVars
    <2>4. CASE Leave(w)  BY <2>4 DEF Leave, queueVars
    <2>5. CASE UserReturn(w)  BY <2>5 DEF UserReturn, queueVars
    <2>6. CASE EndLoop(w)  BY <2>6 DEF EndLoop, queueVars
    <2>7. CASE ThreadEnd(w)  BY <2>7 DEF ThreadEnd, queueVars
    <2>8. CASE DoneEnd(w)  BY <2>8 DEF DoneEnd, queueVars
    <2>9. CASE PostOwn(w)  BY <2>9 DEF PostOwn, Post, queueVars
    <2>10. CASE PostOther(w)  BY <2>10 DEF PostOther, Post, queueVars
    <2>11. CASE QuitEarly(w)  BY <2>11 DEF QuitEarly, queueVars
    <2> HIDE DEF Clear, Others
    <2> QED  BY <2>1, <2>2, <2>3, <2>4, <2>5, <2>6, <2>7, <2>8, <2>9, <2>10, <2>11
  <1>2. Clear /\ Orders' = Orders /\ Frames' = Frames /\ Ids' = Ids /\ Waiting' = Waiting
    <2>1. UNCHANGED ops /\ UNCHANGED results /\ UNCHANGED waiting
      BY <1>1
    <2> QED  BY <1>1, <2>1, OpsKept, ResultsKept DEF Waiting
  <1>3. /\ mutex' \in {"free", "cancel", "done"} /\ posts' \in Nat /\ early' \subseteq Workers
        /\ quitting' \in [Workers -> BOOLEAN]
        /\ life' \in [Workers -> {"running", "ending", "ended"}]
        /\ client' \in [Clients -> [phase: ClientPhases, target: Nat, answer: BOOLEAN]]
    <2>1. Notified \in [Clients -> [phase: ClientPhases, target: Nat, answer: BOOLEAN]]
      BY DEF TypeOK, Notified, ClientPhases
    <2>2. quitting' \in [Workers -> BOOLEAN]
      BY <1>1 DEF TypeOK
    <2>3. life' \in [Workers -> {"running", "ending", "ended"}]
      BY <1>1 DEF TypeOK
    <2>4. mutex' \in {"free", "cancel", "done"} /\ posts' \in Nat /\ early' \subseteq Workers
      BY <1>1 DEF TypeOK
    <2>5. client' \in {client, Notified}
      BY <1>1
    <2> QED  BY <2>1, <2>2, <2>3, <2>4, <2>5 DEF TypeOK
  <1>4. loop' \in [Workers -> Seq(Items)]
    <2>1. loop[w] \in Seq(Items) /\ (loop[w] # <<>> => Tail(loop[w]) \in Seq(Items))
          /\ \A item \in Items : Append(loop[w], item) \in Seq(Items)
      BY HeadTailFacts DEF TypeOK
    <2>2. CASE UNCHANGED loop
      BY <2>2 DEF TypeOK
    <2>3. CASE StartItem(w)
      BY <2>1, <2>3 DEF StartItem, TypeOK
    <2>4. CASE Check(w)
      BY <2>1, <2>4 DEF Check, Items, TypeOK
    <2>5. CASE EndLoop(w)
      BY <2>5 DEF EndLoop, TypeOK
    <2>6. CASE PostOwn(w) \/ PostOther(w)
      BY <2>1, <2>6 DEF PostOwn, PostOther, Post, Items, TypeOK
    <2>7. Pump(w) \/ Leave(w) \/ UserReturn(w) \/ ThreadEnd(w) \/ DoneEnd(w) \/ QuitEarly(w)
            => UNCHANGED loop
      BY DEF Pump, Leave, UserReturn, ThreadEnd, DoneEnd, QuitEarly
    <2> HIDE DEF Clear, Others
    <2> QED  BY <2>2, <2>3, <2>4, <2>5, <2>6, <2>7
  <1>5. stack' \in [Workers -> Seq(Frames)]
    <2>1. stack \in [Workers -> Seq(Frames)] /\ Len(loop[w]) \in Nat
      BY DEF TypeOK
    <2>2. CASE StartItem(w)
      <3>1. FrameOf(Head(loop[w])) \in Frames
        <4>1. Head(loop[w]) \in Items
          BY <2>2, HeadTailFacts DEF StartItem, TypeOK
        <4> QED  BY <4>1 DEF FrameOf, Frames, Phases, QueueItems, Items
      <3>2. Drained(stack[w]) \in Seq(Frames)
        <4>1. \A i \in DOMAIN stack[w] : stack[w][i] \in Frames
          BY <2>1
        <4>2. \A i \in DOMAIN stack[w] :
                [stack[w][i] EXCEPT !.drain = IF @ > 0 THEN @ - 1 ELSE 0] \in Frames
          BY <4>1 DEF Frames
        <4> QED  BY <2>1, <4>2 DEF Drained
      <3> QED  BY <2>1, <2>2, <3>1, <3>2 DEF StartItem
    <2>3. ASSUME Busy(w), NEW f, Becomes(w, f), f \in Frames
          PROVE  stack' \in [Workers -> Seq(Frames)]
      BY <2>1, <2>3, FrameTypes
    <2>4. ASSUME Busy(w), Pop(w)
          PROVE  stack' \in [Workers -> Seq(Frames)] 
      <3>1. Top(w) \in Frames
        BY <2>1, <2>4 DEF Busy, Top
      <3> QED  BY <2>1, <2>4, <3>1, FrameTypes
    <2>5. Busy(w) => Top(w) \in Frames
      BY <2>1 DEF Busy, Top
    <2>6. CASE Pump(w)
      <3>1. Busy(w) /\ [Top(w) EXCEPT !.drain = Len(loop[w])] \in Frames
        BY <2>1, <2>5, <2>6 DEF Pump, InUserCode, At, Frames
      <3> QED  BY <2>3, <2>6, <3>1 DEF Pump
    <2>7. CASE Check(w)
      <3>1. Busy(w) /\ [Top(w) EXCEPT !.phase = "leave"] \in Frames
        BY <2>5, <2>7 DEF Check, At, Frames, Phases
      <3> QED  BY <2>3, <2>4, <2>7, <3>1 DEF Check
    <2>8. CASE DoneEnd(w)
      <3>1. Busy(w) /\ [Top(w) EXCEPT !.phase = "take"] \in Frames
        BY <2>5, <2>8 DEF DoneEnd, At, Frames, Phases
      <3> QED  BY <2>3, <2>8, <3>1 DEF DoneEnd
    <2>9. CASE Leave(w) \/ UserReturn(w)
      BY <2>4, <2>9 DEF Leave, UserReturn, At
    <2>10. CASE EndLoop(w) \/ ThreadEnd(w) \/ PostOwn(w) \/ PostOther(w) \/ QuitEarly(w)
      BY <2>1, <2>10 DEF EndLoop, ThreadEnd, PostOwn, PostOther, Post, QuitEarly
    <2> QED  BY <2>2, <2>6, <2>7, <2>8, <2>9, <2>10
  <1> QED  BY <1>1, <1>2, <1>3, <1>4, <1>5 DEF TypeOK

\* Steps of a worker that take a task, return from it or count it off.
LEMMA TaskStepTypes ==
    ASSUME TypeOK, NEW w \in Workers,
           Take(w) \/ TakeNone(w) \/ Return(w) \/ Done(w) \/ CountOff(w)
    PROVE  TypeOK'
  <1>1. /\ Busy(w) => Top(w) \in Frames
        /\ \A f \in Frames : Busy(w) /\ (Becomes(w, f) \/ Pop(w)) => stack' \in [Workers -> Seq(Frames)]
    <2>1. stack \in [Workers -> Seq(Frames)]
      BY DEF TypeOK
    <2> QED  BY <2>1, FrameTypes DEF Busy, Top
  <1>2. CASE Take(w)
    <2>1. Orders' = Orders /\ Frames' = Frames /\ Ids' = Ids /\ Waiting' = Waiting
      BY <1>2, OpsKept, ResultsKept DEF Take, Waiting
    <2>2. PICK p \in Priorities :
            /\ tasks[p] # <<>>
            /\ tasks' = [tasks EXCEPT ![p] = Tail(@)]
            /\ Becomes(w, [Top(w) EXCEPT !.phase = "run", !.task = Head(tasks[p])])
            /\ started' = started \union {Head(tasks[p])}
      BY <1>2 DEF Take, Foremost
    <2>3. Head(tasks[p]) \in Orders /\ Tail(tasks[p]) \in Seq(Orders)
      BY <2>2, HeadTailFacts DEF TypeOK
    <2>4. [Top(w) EXCEPT !.phase = "run", !.task = Head(tasks[p])] \in Frames
      BY <1>1, <1>2, <2>3 DEF Take, At, Frames, Phases
    <2>5. stack' \in [Workers -> Seq(Frames)]
      BY <1>1, <1>2, <2>2, <2>4 DEF Take, At
    <2>6. tasks' \in [Priorities -> Seq(Orders)] /\ started' \subseteq Orders
      BY <2>2, <2>3 DEF TypeOK
    <2> QED  BY <1>2, <2>1, <2>5, <2>6 DEF TypeOK, Take
  <1>3. CASE TakeNone(w)
    <2>1. Orders' = Orders /\ Frames' = Frames /\ Ids' = Ids /\ Waiting' = Waiting
      BY <1>3, OpsKept, ResultsKept DEF TakeNone, Waiting
    <2>2. Busy(w) /\ [Top(w) EXCEPT !.phase = "check"] \in Frames
      BY <1>1, <1>3 DEF TakeNone, At, Frames, Phases
    <2>3. Becomes(w, [Top(w) EXCEPT !.phase = "check"]) \/ Pop(w)
      BY <1>3 DEF TakeNone
    <2>4. stack' \in [Workers -> Seq(Frames)]
      BY <1>1, <2>2, <2>3
    <2>5. sweeping' \in [Workers -> BOOLEAN]
      BY <1>3 DEF TakeNone, SweepOver, TypeOK
    <2> QED  BY <1>3, <2>1, <2>4, <2>5 DEF TypeOK, TakeNone
  <1>4. CASE Return(w)
    <2> DEFINE id == ops[Top(w).task].result
    <2>1. results' = [results EXCEPT ![id] = "returned"] \/ results' = results
      BY <1>4 DEF Return
    <2>2. results' \in Seq(States) /\ Ids' = Ids
      <3> HIDE DEF id
      <3> QED  BY <2>1, ResultTypes DEF States, TypeOK
    <2>3. Orders' = Orders /\ Frames' = Frames /\ Waiting' = Waiting
      BY <1>4, OpsKept DEF Return, Waiting
    <2>4. Busy(w) /\ [Top(w) EXCEPT !.phase = "returned"] \in Frames
      BY <1>1, <1>4 DEF Return, At, Frames, Phases
    <2>5. stack' \in [Workers -> Seq(Frames)]
      BY <1>1, <1>4, <2>4 DEF Return
    <2>6. client' = Told(id)
      BY <1>4 DEF Return
    <2> HIDE DEF id
    <2> QED  BY <1>4, <2>2, <2>3, <2>5, <2>6, ToldTypes DEF TypeOK, Return
  <1>5. CASE Done(w)
    <2>1. Orders' = Orders /\ Frames' = Frames /\ Ids' = Ids /\ Waiting' = Waiting
      BY <1>5, OpsKept, ResultsKept DEF Done, Waiting
    <2>2. Busy(w) /\ [Top(w) EXCEPT !.phase = "count", !.task = NoTask] \in Frames
      BY <1>1, <1>5 DEF Done, At, Frames, Phases
    <2>3. stack' \in [Workers -> Seq(Frames)]
      BY <1>1, <1>5, <2>2 DEF Done
    <2>4. counting' \in Seq(Orders)
      BY <1>5 DEF Done, TypeOK
    <2>5. DOMAIN dependents' \subseteq Ids /\ dependents' \in [DOMAIN dependents' -> Seq(Orders)]
      BY <1>5 DEF Done, TypeOK, WithoutDependents
    <2>6. unfinished' \subseteq Orders /\ mutex' \in {"free", "cancel", "done"}
      BY <1>5 DEF Done, TypeOK
    <2> QED  BY <1>5, <2>1, <2>3, <2>4, <2>5, <2>6 DEF TypeOK, Done
  <1>6. CASE CountOff(w)
    <2> DEFINE order == Head(counting)
    <2>1. Orders' = Orders /\ Frames' = Frames /\ Ids' = Ids
      BY <1>6, OpsKept, ResultsKept DEF CountOff
    <2>2. order \in Orders /\ counting' \in Seq(Orders)
      BY <1>6, HeadTailFacts DEF CountOff, TypeOK
    <2>3. /\ tasks' \in [Priorities -> Seq(Orders)]
          /\ sweeping' \in [Workers -> BOOLEAN]
          /\ loop' \in [Workers -> Seq(Items)]
      <3>1. CASE UNCHANGED <<tasks, sweeping, loop>>
        BY <3>1 DEF TypeOK
      <3>2. CASE MakeReady(order, ops[order].priority)
        BY <2>1, <2>2, <3>2, ReadyTypes, OpFacts
      <3> QED  BY <1>6, <3>1, <3>2 DEF CountOff
    <2>4. Waiting' \subseteq Orders /\ waiting' \in [Waiting' -> Nat \ {0}]
      <3>1. CASE waiting' = WithoutWaiting({order}) \/ waiting' = waiting
        BY <3>1 DEF WithoutWaiting, Waiting, TypeOK
      <3>2. CASE /\ order \in Waiting /\ ~LastRemaining(order)
                 /\ waiting' = [waiting EXCEPT ![order] = @ - 1]
        <4>1. waiting[order] \in Nat \ {0} /\ waiting[order] - 1 \in Nat \ {0}
          BY <3>2 DEF LastRemaining, TypeOK
        <4> QED  BY <3>2, <4>1 DEF Waiting, TypeOK
      <3> QED  BY <1>6, <3>1, <3>2 DEF CountOff
    <2> QED  BY <1>6, <2>1, <2>2, <2>3, <2>4 DEF TypeOK, CountOff
  <1> QED  BY <1>2, <1>3, <1>4, <1>5, <1>6

LEMMA ClientTypes ==
    ASSUME TypeOK, NEW c \in Clients, ClientNext(c) \/ ClientCall(c)
    PROVE  TypeOK'
  <1> DEFINE Kept == UNCHANGED <<mutex, ops, unfinished, results, dependents, waiting, tasks, sweeping,
                                 counting, removing, quitting, life, stack, posts, started, early>>
  <1>1. Kept
    BY DEF ClientNext, ClientCall, WaitCheck, ShutdownJoined, WaitBegin, WaitTimeout,
       ShutdownBegin, ShutdownTimeout, ResultBegin, ResultCheck, ResultTimeout, queueVars, workerVars
  <1>2. Orders' = Orders /\ Frames' = Frames /\ Ids' = Ids /\ Waiting' = Waiting
    BY <1>1, OpsKept, ResultsKept DEF Waiting
  <1>3. Len(ops) \in Nat
    BY DEF TypeOK
  <1>4. client' \in [Clients -> [phase: ClientPhases, target: Nat, answer: BOOLEAN]]
    <2>1. ASSUME NEW phase \in ClientPhases, NEW answer \in BOOLEAN, Answer(c, phase, answer)
          PROVE  client' \in [Clients -> [phase: ClientPhases, target: Nat, answer: BOOLEAN]]
      BY <2>1 DEF Answer, TypeOK
    <2>2. \A n \in Nat : Settled(n) \in BOOLEAN
      BY DEF Settled
    <2>3. CASE WaitBegin(c)
      BY <2>2, <2>3, <1>3 DEF WaitBegin, TypeOK, ClientPhases
    <2>4. CASE ShutdownBegin(c)
      BY <2>4, <1>3 DEF ShutdownBegin, TypeOK, ClientPhases
    <2>5. CASE WaitCheck(c)
      BY <2>1, <2>5 DEF WaitCheck, ClientPhases
    <2>6. CASE WaitTimeout(c)
      <3>1. client[c].target \in Nat
        BY DEF TypeOK
      <3> QED  BY <2>1, <2>2, <2>6, <3>1 DEF WaitTimeout, ClientPhases
    <2>7. CASE ShutdownJoined(c) \/ ShutdownTimeout(c)
      BY <2>1, <2>7 DEF ShutdownJoined, ShutdownTimeout, ClientPhases
    <2>8. \A id : Finished(id) \in BOOLEAN
      BY DEF Finished
    <2>9. CASE ResultBegin(c)
      BY <2>8, <2>9 DEF ResultBegin, Ids, TypeOK, ClientPhases
    <2>10. CASE ResultCheck(c) \/ ResultTimeout(c)
      BY <2>1, <2>8, <2>10 DEF ResultCheck, ResultTimeout, ClientPhases
    <2> QED  BY <2>3, <2>4, <2>5, <2>6, <2>7, <2>9, <2>10 DEF ClientNext, ClientCall
  <1>5. accepting' \in BOOLEAN /\ loop' \in [Workers -> Seq(Items)]
    <2>1. CASE ShutdownBegin(c)
      BY <2>1, LoopTypes DEF ShutdownBegin, Stopped, TypeOK, Items
    <2>2. CASE UNCHANGED <<accepting, loop>>
      BY <2>2 DEF TypeOK
    <2> QED  BY <2>1, <2>2 DEF ClientNext, ClientCall, WaitCheck, ShutdownJoined, WaitBegin,
                WaitTimeout, ShutdownTimeout, ResultBegin, ResultCheck, ResultTimeout, workerVars
  <1> QED  BY <1>1, <1>2, <1>4, <1>5 DEF TypeOK

LEMMA TypeInit == Init => TypeOK
  <1> SUFFICES ASSUME Init PROVE TypeOK
    OBVIOUS
  <1>1. Orders = {} /\ Ids = {} /\ Waiting = {}
    BY DEF Init, Orders, Ids, Waiting
  <1> QED  BY <1>1 DEF Init, TypeOK, ClientPhases

LEMMA TypeStep == TypeOK /\ [Next]_vars => TypeOK'
  <1> SUFFICES ASSUME TypeOK, [Next]_vars PROVE TypeOK'
    OBVIOUS
  <1>1. CASE CallerNext \/ CancelNext
    BY <1>1, CallerTypes
  <1>2. ASSUME NEW w \in Workers, WorkerNext(w) \/ UserNext(w)
        PROVE  TypeOK'
    BY <1>2, LoopStepTypes, TaskStepTypes DEF WorkerNext, UserNext
  <1>3. ASSUME NEW c \in Clients, ClientNext(c) \/ ClientCall(c)
        PROVE  TypeOK'
    BY <1>3, ClientTypes
  <1>4. CASE UNCHANGED vars
    <2>1. Orders' = Orders /\ Frames' = Frames /\ Ids' = Ids /\ Waiting' = Waiting
      BY <1>4, OpsKept, ResultsKept DEF vars, Waiting
    <2> QED  BY <1>4, <2>1 DEF vars, TypeOK
  <1> QED  BY <1>1, <1>2, <1>3, <1>4 DEF Next

\* Every variable of the queue keeps its type, whatever the bounds.
THEOREM TypeCorrect == Spec => []TypeOK
  BY TypeInit, TypeStep, PTL DEF Spec

-----------------------------------------------------------------------------
(* One home: no task is lost, and none runs twice.                         *)

\* What OneHome rests on: only a cancel() holding the lock has tasks taken out,
\* and a frame names a task only from take() to done().
RemovingLocked == mutex # "cancel" => removing = {}
FramesNameTasks == \A w \in Workers : \A i \in DOMAIN stack[w] :
                      stack[w][i].phase \notin {"run", "returned"} => stack[w][i].task = NoTask

\* One done() at a time is in its critical section, and it holds the lock.
CountingLocked ==
    \A v \in Workers : \A i \in DOMAIN stack[v] : stack[v][i].phase = "count" =>
        /\ mutex = "done"
        /\ \A w \in Workers : \A j \in DOMAIN stack[w] : stack[w][j].phase = "count" => v = w /\ i = j

FramesOK == FramesNameTasks /\ CountingLocked

HomeInv == TypeOK /\ OneHome /\ RemovingLocked /\ FramesOK

LEMMA ReadyIs ==
    ASSUME NEW o
    PROVE  o \in Ready <=> \E p \in Priorities : \E i \in DOMAIN tasks[p] : tasks[p][i] = o
  BY DEF Ready, RangeOf

LEMMA RunningIs ==
    ASSUME NEW o
    PROVE  o \in Running <=> /\ o # NoTask
                             /\ \E w \in Workers : \E i \in DOMAIN stack[w] : stack[w][i].task = o
  BY DEF Running, FrameTasks

LEMMA BecomesFacts ==
    ASSUME TypeOK, NEW w \in Workers, Busy(w), NEW f, Becomes(w, f)
    PROVE  /\ Len(stack[w]) \in DOMAIN stack[w]
           /\ \A v \in Workers : DOMAIN stack'[v] = DOMAIN stack[v]
           /\ \A v \in Workers : \A i \in DOMAIN stack[v] :
                stack'[v][i] = IF v = w /\ i = Len(stack[w]) THEN f ELSE stack[v][i]
  <1>1. stack \in [Workers -> Seq(Frames)]
    BY DEF TypeOK
  <1>2. Len(stack[w]) \in DOMAIN stack[w]
    BY <1>1 DEF Busy
  <1> QED  BY <1>1, <1>2 DEF Becomes

LEMMA PopFacts ==
    ASSUME TypeOK, NEW w \in Workers, Busy(w), Pop(w)
    PROVE  /\ Len(stack[w]) \in DOMAIN stack[w]
           /\ \A v \in Workers : DOMAIN stack'[v] =
                IF v = w THEN DOMAIN stack[v] \ {Len(stack[w])} ELSE DOMAIN stack[v]
           /\ \A v \in Workers : \A i \in DOMAIN stack'[v] : stack'[v][i] = stack[v][i]
  <1>1. stack \in [Workers -> Seq(Frames)]
    BY DEF TypeOK
  <1>2. Len(stack[w]) \in DOMAIN stack[w]
    BY <1>1 DEF Busy
  <1>3. /\ DOMAIN SubSeq(stack[w], 1, Len(stack[w]) - 1) = DOMAIN stack[w] \ {Len(stack[w])}
        /\ \A i \in DOMAIN stack[w] \ {Len(stack[w])} :
             SubSeq(stack[w], 1, Len(stack[w]) - 1)[i] = stack[w][i]
    BY <1>1, <1>2
  <1> QED  BY <1>1, <1>2, <1>3 DEF Pop

LEMMA StartFacts ==
    ASSUME TypeOK, NEW w \in Workers, StartItem(w)
    PROVE  /\ \A v \in Workers : DOMAIN stack'[v] =
                IF v = w THEN DOMAIN stack[v] \union {Len(stack[w]) + 1} ELSE DOMAIN stack[v]
           /\ \A v \in Workers : \A i \in DOMAIN stack[v] :
                /\ stack'[v][i].task = stack[v][i].task /\ stack'[v][i].phase = stack[v][i].phase
                /\ stack'[v][i].job = stack[v][i].job
           /\ Len(stack[w]) + 1 \notin DOMAIN stack[w]
           /\ stack'[w][Len(stack[w]) + 1] = FrameOf(Head(loop[w]))
  <1> DEFINE d == Drained(stack[w])
             f == FrameOf(Head(loop[w]))
  <1>1. stack \in [Workers -> Seq(Frames)]
    BY DEF TypeOK
  <1>2. /\ d \in Seq([job: Items, phase: Phases, task: Orders \union {NoTask}, drain: Int]) /\ Len(d) = Len(stack[w])
        /\ \A i \in DOMAIN stack[w] : /\ d[i].task = stack[w][i].task /\ d[i].phase = stack[w][i].phase
                                      /\ d[i].job = stack[w][i].job
    <2>1. stack[w] \in Seq(Frames)
      BY <1>1
    <2>2. \A i \in DOMAIN stack[w] : stack[w][i] \in Frames
      BY <2>1
    <2> DEFINE e(i) == [stack[w][i] EXCEPT !.drain = IF @ > 0 THEN @ - 1 ELSE 0]
    <2>3. \A i \in DOMAIN stack[w] :
            /\ e(i) \in [job: Items, phase: Phases, task: Orders \union {NoTask}, drain: Int]
            /\ e(i).task = stack[w][i].task /\ e(i).phase = stack[w][i].phase
            /\ e(i).job = stack[w][i].job
      BY <2>2 DEF Frames
    <2>4. d = [i \in DOMAIN stack[w] |-> e(i)]
      BY DEF Drained
    <2> DEFINE R == [job: Items, phase: Phases, task: Orders \union {NoTask}, drain: Int]
               n == Len(stack[w])
    <2>5. n \in Nat /\ DOMAIN stack[w] = 1..n
      BY <2>1
    <2> HIDE DEF d, e, R, n
    <2>6. \A i \in 1..n : e(i) \in R
      BY <2>3, <2>5 DEF R
    <2>7. d = [i \in 1..n |-> e(i)]
      BY <2>4, <2>5
    <2>8. d \in Seq(R)
      BY <2>5, <2>6, <2>7
    <2>9. Len(d) = n /\ \A i \in 1..n : d[i] = e(i)
      BY <2>5, <2>7, <2>8
    <2> QED  BY <2>3, <2>5, <2>8, <2>9 DEF R, n
  <1>3. stack' = [stack EXCEPT ![w] = Append(d, f)]
    BY DEF StartItem
  <1>4. /\ DOMAIN Append(d, f) = DOMAIN stack[w] \union {Len(stack[w]) + 1}
        /\ Len(stack[w]) + 1 \notin DOMAIN stack[w]
        /\ \A i \in DOMAIN stack[w] : Append(d, f)[i] = d[i]
        /\ Append(d, f)[Len(stack[w]) + 1] = f
    <2> HIDE DEF d, f
    <2>1. stack[w] \in Seq(Frames)
      BY <1>1
    <2> QED  BY <1>2, <2>1
  <1> HIDE DEF d, f
  <1>5. stack'[w] = Append(d, f) /\ \A v \in Workers \ {w} : stack'[v] = stack[v]
    BY <1>1, <1>3
  <1>6. DOMAIN stack'[w] = DOMAIN stack[w] \union {Len(stack[w]) + 1}
        /\ stack'[w][Len(stack[w]) + 1] = f
    BY <1>4, <1>5
  <1>7. \A i \in DOMAIN stack[w] : stack'[w][i] = d[i]
    BY <1>4, <1>5
  <1>8. \A v \in Workers : \A i \in DOMAIN stack[v] :
          /\ stack'[v][i].task = stack[v][i].task /\ stack'[v][i].phase = stack[v][i].phase
          /\ stack'[v][i].job = stack[v][i].job
    BY <1>2, <1>5, <1>7, SMTT(40)
  <1>9. \A v \in Workers : DOMAIN stack'[v] =
          IF v = w THEN DOMAIN stack[v] \union {Len(stack[w]) + 1} ELSE DOMAIN stack[v]
    BY <1>5, <1>6
  <1> QED  BY <1>4, <1>6, <1>8, <1>9 DEF f

\* The frames that name a task are the same frames after the step.
SameTasks ==
    \A w \in Workers :
        /\ \A i \in DOMAIN stack'[w] : stack'[w][i].task # NoTask =>
            i \in DOMAIN stack[w] /\ stack'[w][i].task = stack[w][i].task
        /\ \A i \in DOMAIN stack[w] : stack[w][i].task # NoTask =>
            i \in DOMAIN stack'[w] /\ stack'[w][i].task = stack[w][i].task

LEMMA SameTasksKeepHome ==
    ASSUME OneHome, SameTasks, UNCHANGED <<ops, unfinished, waiting, tasks, removing, started>>
    PROVE  OneHome'
  <1>1. Running' = Running
    <2>1. \A o : o \in Running' <=> /\ o # NoTask
                                    /\ \E w \in Workers : \E i \in DOMAIN stack'[w] : stack'[w][i].task = o
      BY DEF Running, FrameTasks
    <2>2. \A o : o \in Running' <=> o \in Running
      BY <2>1, RunningIs DEF SameTasks
    <2> QED  BY <2>2
  <1>2. Ready' = Ready /\ Waiting' = Waiting
    BY DEF Ready, Waiting
  <1>3. FramesApart'
    BY DEF OneHome, FramesApart, SameTasks
  <1> QED  BY <1>1, <1>2, <1>3 DEF OneHome, HandsCover, HandsApart, StartedOnce, ListsApart

\* No frame enters a critical section in the step.
NoNewCount ==
    \A w \in Workers : \A i \in DOMAIN stack'[w] : stack'[w][i].phase = "count" =>
        i \in DOMAIN stack[w] /\ stack[w][i].phase = "count"

LEMMA NoNewCountKeeps ==
    ASSUME CountingLocked, NoNewCount, UNCHANGED mutex
    PROVE  CountingLocked'
  BY DEF CountingLocked, NoNewCount

\* The innermost frame changes but for its task, or goes with none.
LEMMA PopKeeps ==
    ASSUME TypeOK, FramesNameTasks, NEW w \in Workers, Busy(w), Pop(w), Top(w).task = NoTask
    PROVE  SameTasks /\ FramesNameTasks' /\ NoNewCount
  <1>1. stack[w][Len(stack[w])].task = NoTask
    BY DEF Top
  <1>2. SameTasks
    BY <1>1, PopFacts DEF SameTasks
  <1>3. \A v \in Workers : \A i \in DOMAIN stack'[v] :
          i \in DOMAIN stack[v] /\ stack'[v][i] = stack[v][i]
    BY PopFacts
  <1>4. FramesNameTasks' /\ NoNewCount
    BY <1>3 DEF FramesNameTasks, NoNewCount
  <1> QED  BY <1>2, <1>4

LEMMA BecomesKeeps ==
    ASSUME TypeOK, FramesNameTasks, NEW w \in Workers, Busy(w), NEW f, Becomes(w, f),
           f.task = Top(w).task, f.phase # "count",
           f.phase \in {"run", "returned"} \/ Top(w).task = NoTask
    PROVE  SameTasks /\ FramesNameTasks' /\ NoNewCount
  <1>1. stack[w][Len(stack[w])].task = f.task
    BY DEF Top
  <1>2. SameTasks
    BY <1>1, BecomesFacts DEF SameTasks
  <1>3. FramesNameTasks'
    <2>1. f.phase \notin {"run", "returned"} => f.task = NoTask
      OBVIOUS
    <2>2. SUFFICES ASSUME NEW v \in Workers, NEW i \in DOMAIN stack'[v],
                          stack'[v][i].phase \notin {"run", "returned"}
                   PROVE  stack'[v][i].task = NoTask
      BY DEF FramesNameTasks
    <2>3. i \in DOMAIN stack[v] /\ (stack'[v][i] = f \/ stack'[v][i] = stack[v][i])
      BY BecomesFacts
    <2>4. CASE stack'[v][i] = f
      BY <2>1, <2>2, <2>4
    <2>5. CASE stack'[v][i] = stack[v][i]
      BY <2>2, <2>3, <2>5 DEF FramesNameTasks
    <2> QED  BY <2>3, <2>4, <2>5
  <1>4. NoNewCount
    BY BecomesFacts DEF NoNewCount
  <1> QED  BY <1>2, <1>3, <1>4

LEMMA StartKeeps ==
    ASSUME TypeOK, FramesNameTasks, NEW w \in Workers, StartItem(w)
    PROVE  SameTasks /\ FramesNameTasks' /\ NoNewCount
  <1> DEFINE n == Len(stack[w]) + 1
  <1>1. FrameOf(Head(loop[w])).task = NoTask /\ FrameOf(Head(loop[w])).phase # "count"
    BY DEF FrameOf
  <1>2. stack'[w][n].task = NoTask /\ stack'[w][n].phase # "count" /\ n \notin DOMAIN stack[w]
    BY <1>1, StartFacts
  <1>3. \A v \in Workers : \A i \in DOMAIN stack'[v] :
          \/ i \in DOMAIN stack[v]
          \/ stack'[v][i].task = NoTask /\ stack'[v][i].phase # "count"
    BY <1>2, StartFacts, ZenonT(60)
  <1>4. \A v \in Workers : \A i \in DOMAIN stack[v] :
          /\ i \in DOMAIN stack'[v]
          /\ stack'[v][i].task = stack[v][i].task /\ stack'[v][i].phase = stack[v][i].phase
    BY StartFacts
  <1>5. SameTasks
    BY <1>3, <1>4 DEF SameTasks
  <1>6. FramesNameTasks'
    BY <1>3, <1>4 DEF FramesNameTasks
  <1>7. NoNewCount
    BY <1>3, <1>4 DEF NoNewCount
  <1> QED  BY <1>5, <1>6, <1>7

\* Steps of a worker that take no task and give none up.
LEMMA LoopStepHome ==
    ASSUME HomeInv, NEW w \in Workers,
           \/ StartItem(w) \/ Pump(w) \/ Check(w) \/ Leave(w) \/ UserReturn(w) \/ TakeNone(w) \/ Return(w)
           \/ EndLoop(w) \/ ThreadEnd(w) \/ PostOwn(w) \/ PostOther(w) \/ QuitEarly(w)
    PROVE  OneHome' /\ RemovingLocked' /\ FramesOK'
  <1> USE DEF HomeInv, FramesOK
  <1> DEFINE Kept == UNCHANGED <<mutex, ops, unfinished, waiting, tasks, removing, started>>
             Quiet == SameTasks /\ FramesNameTasks' /\ NoNewCount
  <1>1. ASSUME Kept, Quiet
        PROVE  OneHome' /\ RemovingLocked' /\ FramesOK'
    BY <1>1, SameTasksKeepHome, NoNewCountKeeps DEF RemovingLocked
  <1>2. ASSUME UNCHANGED stack
        PROVE  Quiet
    BY <1>2 DEF SameTasks, FramesNameTasks, NoNewCount
  <1>3. Busy(w) => /\ Top(w) \in Frames
                   /\ Top(w).phase \notin {"run", "returned"} => Top(w).task = NoTask
    <2>1. stack \in [Workers -> Seq(Frames)]
      BY DEF TypeOK
    <2> QED  BY <2>1 DEF Busy, Top, FramesNameTasks
  <1>4. Kept
    <2>1. CASE StartItem(w) \/ Pump(w) \/ Check(w) \/ Leave(w) \/ UserReturn(w)
      BY <2>1 DEF StartItem, Pump, Check, Leave, UserReturn, queueVars
    <2>2. CASE TakeNone(w) \/ Return(w)
      BY <2>2 DEF TakeNone, Return
    <2>3. CASE EndLoop(w) \/ ThreadEnd(w) \/ PostOwn(w) \/ PostOther(w) \/ QuitEarly(w)
      BY <2>3 DEF EndLoop, ThreadEnd, PostOwn, PostOther, Post, QuitEarly, queueVars
    <2> QED  BY <2>1, <2>2, <2>3
  <1>5. ASSUME StartItem(w)
        PROVE  Quiet
    BY <1>5, StartKeeps
  <1>6. ASSUME Pump(w)
        PROVE  Quiet
    <2> DEFINE f == [Top(w) EXCEPT !.drain = Len(loop[w])]
    <2>1. Busy(w) /\ Becomes(w, f) /\ Top(w).phase \in {"run", "user"}
      BY <1>6 DEF Pump, InUserCode, At
    <2>2. f.task = Top(w).task /\ f.phase = Top(w).phase
      BY <1>3, <2>1 DEF Frames
    <2> HIDE DEF f
    <2> QED  BY <1>3, <2>1, <2>2, BecomesKeeps
  <1>7. ASSUME Return(w)
        PROVE  Quiet
    <2> DEFINE f == [Top(w) EXCEPT !.phase = "returned"]
    <2>1. Busy(w) /\ Becomes(w, f)
      BY <1>7 DEF Return, At
    <2>2. f.task = Top(w).task /\ f.phase = "returned"
      BY <1>3, <2>1 DEF Frames
    <2> HIDE DEF f
    <2> QED  BY <2>1, <2>2, BecomesKeeps
  <1>8. ASSUME NEW phase, phase \in {"check", "leave"},
               Busy(w), Top(w).phase \notin {"run", "returned"},
               Becomes(w, [Top(w) EXCEPT !.phase = phase]) \/ Pop(w)
        PROVE  Quiet
    <2> DEFINE f == [Top(w) EXCEPT !.phase = phase]
    <2>1. f.task = Top(w).task /\ Top(w).task = NoTask /\ f.phase = phase
      BY <1>3, <1>8 DEF Frames
    <2>2. Becomes(w, f) \/ Pop(w)
      BY <1>8
    <2> HIDE DEF f
    <2> QED  BY <1>8, <2>1, <2>2, BecomesKeeps, PopKeeps
  <1>9. ASSUME TakeNone(w)
        PROVE  Quiet
    BY <1>8, <1>9 DEF TakeNone, At
  <1>10. ASSUME Check(w)
         PROVE  Quiet
    BY <1>8, <1>10 DEF Check, At
  <1>11. ASSUME Leave(w) \/ UserReturn(w)
         PROVE  Quiet
    BY <1>8, <1>11 DEF Leave, UserReturn, At
  <1>12. ASSUME EndLoop(w) \/ ThreadEnd(w) \/ PostOwn(w) \/ PostOther(w) \/ QuitEarly(w)
         PROVE  Quiet
    BY <1>2, <1>12 DEF EndLoop, ThreadEnd, PostOwn, PostOther, Post, QuitEarly
  <1> HIDE DEF Kept, Quiet
  <1> QED  BY <1>1, <1>4, <1>5, <1>6, <1>7, <1>9, <1>10, <1>11, <1>12

\* A task in no list is put in the list of its priority.
LEMMA MadeReadyHome ==
    ASSUME TypeOK, ListsApart, NEW o \in Orders', NEW p \in Priorities, MakeReady(o, p),
           o \notin Ready, \A x \in Orders : ops'[x] = ops[x], ops'[o].priority = p
    PROVE  Ready' = Ready \union {o} /\ ListsApart'
  <1> DEFINE S == Orders \union {o}
  <1>1. \A q \in Priorities : tasks[q] \in Seq(Orders) /\ tasks[q] \in Seq(S)
    <2>1. \A q \in Priorities : tasks[q] \in Seq(Orders)
      BY DEF TypeOK
    <2> QED  BY <2>1, SeqMonotone
  <1>2. tasks'[p] = Append(tasks[p], o) /\ \A q \in Priorities \ {p} : tasks'[q] = tasks[q]
    BY DEF TypeOK, MakeReady
  <1>3. \A q \in Priorities : RangeOf(tasks'[q]) = RangeOf(tasks[q]) \union (IF q = p THEN {o} ELSE {})
    <2>1. o \in S /\ tasks[p] \in Seq(S)
      BY <1>1
    <2> HIDE DEF S
    <2>2. RangeOf(tasks'[p]) = RangeOf(tasks[p]) \union {o}
      BY <1>2, <2>1, AppendFacts
    <2>3. \A q \in Priorities \ {p} : RangeOf(tasks'[q]) = RangeOf(tasks[q])
      BY <1>2
    <2> QED  BY <2>2, <2>3
  <1>4. Ready' = Ready \union {o}
    <2>1. \A e : e \in Ready' <=> \E q \in Priorities : e \in RangeOf(tasks'[q])
      BY DEF Ready
    <2>2. \A e : e \in Ready <=> \E q \in Priorities : e \in RangeOf(tasks[q])
      BY DEF Ready
    <2> QED  BY <1>3, <2>1, <2>2
  <1>5. \A q \in Priorities : \A i \in DOMAIN tasks[q] : tasks[q][i] \in Orders /\ tasks[q][i] # o
    <2>1. \A q \in Priorities : \A i \in DOMAIN tasks[q] : tasks[q][i] # o
      BY ReadyIs
    <2> QED  BY <1>1, <2>1
  <1>6. ASSUME NEW q \in Priorities
        PROVE  \A i, j \in DOMAIN tasks'[q] :
                 /\ ops'[tasks'[q][i]].priority = q
                 /\ tasks'[q][i] = tasks'[q][j] => i = j
    <2>1. CASE q = p
      <3>1. \A i, j \in DOMAIN tasks[p] : tasks[p][i] = tasks[p][j] => i = j
        BY DEF ListsApart
      <3>2. o \notin RangeOf(tasks[p])
        BY <1>5 DEF RangeOf
      <3>3. \A i, j \in DOMAIN tasks'[p] : tasks'[p][i] = tasks'[p][j] => i = j
        BY <1>1, <1>2, <3>1, <3>2, AppendFacts
      <3>4. \A i \in DOMAIN tasks'[p] : tasks'[p][i] = o \/ \E k \in DOMAIN tasks[p] : tasks'[p][i] = tasks[p][k]
        <4>1. RangeOf(tasks'[p]) = RangeOf(tasks[p]) \union {o}
          BY <1>3
        <4> QED  BY <4>1 DEF RangeOf
      <3>5. \A k \in DOMAIN tasks[p] : ops'[tasks[p][k]].priority = p
        BY <1>5 DEF ListsApart
      <3> QED  BY <2>1, <3>3, <3>4, <3>5
    <2>2. CASE q # p
      BY <1>2, <1>5, <2>2 DEF ListsApart
    <2> QED  BY <2>1, <2>2
  <1>7. ListsApart'
    BY <1>6 DEF ListsApart
  <1> QED  BY <1>4, <1>7

\* queue(): a new order, in no hand so far, is given to one.
LEMMA QueueHome ==
    ASSUME TypeOK, OneHome, NEW p \in Priorities, NEW after \in AfterLists,
           Ids \subseteq Ids', NEW result \in Ids' \union {NoResult},
           Queue(p, after, result), UNCHANGED <<removing, stack, started>>
    PROVE  OneHome'
  <1> DEFINE o == Len(ops) + 1
  <1>1. Orders' = Orders \union {o} /\ o \notin Orders
    BY QueueTypes
  <1>2. /\ ops' = Append(ops, [priority |-> p, after |-> after, result |-> result])
        /\ unfinished' = unfinished \union {o}
    BY DEF Queue
  <1>3. (\A x \in Orders : ops'[x] = ops[x]) /\ ops'[o].priority = p
    <2> DEFINE new == [priority |-> p, after |-> after, result |-> result]
    <2>1. ops \in Seq([priority: Priorities, after: Seq(Ids), result: Ids \union {NoResult}])
      BY DEF TypeOK
    <2>2. new.priority = p
      OBVIOUS
    <2> HIDE DEF new
    <2>3. ops \in Seq(RangeOf(ops) \union {new})
      BY <2>1 DEF RangeOf
    <2>4. \A x \in 1..Len(ops) : Append(ops, new)[x] = ops[x]
      BY <2>3
    <2>5. Append(ops, new)[Len(ops) + 1] = new
      BY <2>3
    <2>6. ops' = Append(ops, new)
      BY <1>2 DEF new
    <2> QED  BY <2>2, <2>4, <2>5, <2>6 DEF Orders
  <1>4. Running' = Running /\ FramesApart'
    BY DEF Running, FrameTasks, OneHome, FramesApart
  <1>5. o \notin Ready \union Waiting \union Running \union removing /\ o \notin started
    BY <1>1 DEF OneHome, HandsCover, TypeOK
  <1>6. CASE Cardinality(Open(after)) > 0
    <2>1. UNCHANGED tasks /\ Ready' = Ready /\ Waiting' = Waiting \union {o}
      BY <1>6 DEF Queue, Ready, Waiting
    <2>2. ListsApart'
      <3>1. \A q \in Priorities : \A i \in DOMAIN tasks[q] : tasks[q][i] \in Orders
        BY DEF TypeOK
      <3> QED  BY <1>3, <2>1, <3>1 DEF OneHome, ListsApart
    <2> HIDE DEF o
    <2> QED  BY <1>2, <1>4, <1>5, <2>1, <2>2 DEF OneHome, HandsCover, HandsApart, StartedOnce
  <1>7. CASE ~(Cardinality(Open(after)) > 0)
    <2>1. MakeReady(o, p) /\ UNCHANGED waiting
      BY <1>7 DEF Queue
    <2> HIDE DEF o
    <2>2. Ready' = Ready \union {o} /\ ListsApart'
      BY <1>1, <1>3, <1>5, <2>1, MadeReadyHome DEF OneHome
    <2>3. Waiting' = Waiting
      BY <2>1 DEF Waiting
    <2> QED  BY <1>2, <1>4, <1>5, <2>2, <2>3 DEF OneHome, HandsCover, HandsApart, StartedOnce
  <1> QED  BY <1>6, <1>7

\* What no step of a caller or client but cancel() changes.
LEMMA StillHome ==
    ASSUME HomeInv, UNCHANGED <<ops, unfinished, waiting, tasks, removing, stack, started>>
    PROVE  OneHome' /\ FramesNameTasks'
  <1>1. SameTasks /\ FramesNameTasks'
    BY DEF HomeInv, FramesOK, SameTasks, FramesNameTasks
  <1> QED  BY <1>1, SameTasksKeepHome DEF HomeInv

LEMMA FramesStay ==
    ASSUME FramesOK, UNCHANGED <<stack, mutex>>
    PROVE  FramesOK'
  BY DEF FramesOK, FramesNameTasks, CountingLocked

LEMMA ClientHome ==
    ASSUME HomeInv, NEW c \in Clients, ClientNext(c) \/ ClientCall(c)
    PROVE  OneHome' /\ RemovingLocked' /\ FramesOK'
  <1>1. UNCHANGED <<mutex, ops, unfinished, waiting, tasks, removing, stack, started>>
    <2>1. CASE WaitBegin(c) \/ ShutdownBegin(c)
      BY <2>1 DEF WaitBegin, ShutdownBegin, queueVars, workerVars
    <2>2. CASE WaitCheck(c) \/ WaitTimeout(c)
      BY <2>2 DEF WaitCheck, WaitTimeout, queueVars, workerVars
    <2>3. CASE ShutdownJoined(c) \/ ShutdownTimeout(c)
      BY <2>3 DEF ShutdownJoined, ShutdownTimeout, queueVars, workerVars
    <2>4. CASE ResultBegin(c) \/ ResultCheck(c) \/ ResultTimeout(c)
      BY <2>4 DEF ResultBegin, ResultCheck, ResultTimeout, queueVars, workerVars
    <2> QED  BY <2>1, <2>2, <2>3, <2>4 DEF ClientNext, ClientCall
  <1>2. FramesOK'
    BY <1>1, FramesStay DEF HomeInv
  <1> QED  BY <1>1, <1>2, StillHome DEF HomeInv, RemovingLocked

\* Steps that accept tasks, and stop().
LEMMA AcceptHome ==
    ASSUME HomeInv,
           \/ Stop \/ \E after \in AfterLists : EnqueueCancelled(after)
           \/ \E p \in Priorities, after \in AfterLists : Submit(p, after) \/ Enqueue(p, after)
    PROVE  OneHome' /\ RemovingLocked' /\ FramesOK'
  <1>1. CASE Stop \/ \E after \in AfterLists : EnqueueCancelled(after)
    <2>1. UNCHANGED <<mutex, ops, unfinished, waiting, tasks, removing, stack, started>>
      BY <1>1 DEF Stop, EnqueueCancelled, queueVars, workerVars
    <2>2. FramesOK'
      BY <2>1, FramesStay DEF HomeInv
    <2> QED  BY <2>1, <2>2, StillHome DEF HomeInv, RemovingLocked
  <1>2. ASSUME NEW p \in Priorities, NEW after \in AfterLists, Submit(p, after) \/ Enqueue(p, after)
        PROVE  OneHome' /\ RemovingLocked' /\ FramesOK'
    <2>1. UNCHANGED <<mutex, removing, stack, started>>
      BY <1>2 DEF Submit, Enqueue
    <2>2. PICK result \in Ids' \union {NoResult} : Ids \subseteq Ids' /\ Queue(p, after, result)
      <3>1. CASE Submit(p, after)
        <4>1. Ids' = Ids /\ Queue(p, after, NoResult)
          BY <3>1, ResultsKept DEF Submit
        <4> QED  BY <4>1
      <3>2. CASE Enqueue(p, after)
        <4>1. Ids' = Ids \union {Len(results) + 1}
          BY <3>2 DEF Enqueue, HomeInv, TypeOK, Ids, States
        <4>2. Queue(p, after, Len(results) + 1)
          BY <3>2 DEF Enqueue
        <4> QED  BY <4>1, <4>2
      <3> QED  BY <1>2, <3>1, <3>2
    <2>3. OneHome'
      BY <2>1, <2>2, QueueHome DEF HomeInv
    <2>4. FramesOK'
      BY <2>1, FramesStay DEF HomeInv
    <2> QED  BY <2>1, <2>3, <2>4 DEF HomeInv, RemovingLocked
  <1> QED  BY <1>1, <1>2

\* cancel() takes the task out of its list, or from where it waits.
LEMMA CancelBeginHome ==
    ASSUME HomeInv, NEW order \in Orders, CancelBegin(order)
    PROVE  OneHome' /\ RemovingLocked' /\ FramesOK'
  <1>1. /\ UNCHANGED <<ops, unfinished, stack, started>>
        /\ mutex = "free" /\ mutex' = "cancel" /\ removing = {} /\ removing' = {order}
    BY DEF CancelBegin, workerVars, HomeInv, RemovingLocked
  <1>2. Running' = Running /\ FramesApart' /\ FramesNameTasks'
    BY <1>1 DEF Running, FrameTasks, HomeInv, OneHome, FramesApart, FramesOK, FramesNameTasks
  <1>3. CountingLocked'
    <2>1. \A v \in Workers : \A i \in DOMAIN stack[v] : stack[v][i].phase # "count"
      BY <1>1 DEF HomeInv, FramesOK, CountingLocked
    <2> QED  BY <1>1, <2>1 DEF CountingLocked
  <1>4. RemovingLocked'
    BY <1>1 DEF RemovingLocked
  <1>5. CASE order \in Waiting /\ waiting' = WithoutWaiting({order}) /\ UNCHANGED tasks
    <2>1. Waiting' = Waiting \ {order} /\ Ready' = Ready
      BY <1>5 DEF Waiting, WithoutWaiting, Ready
    <2>2. ListsApart'
      BY <1>1, <1>5 DEF HomeInv, OneHome, ListsApart
    <2> QED
      BY <1>1, <1>2, <1>3, <1>4, <1>5, <2>1, <2>2
      DEF HomeInv, OneHome, HandsCover, HandsApart, StartedOnce, FramesOK
  <1>6. ASSUME NEW p \in Priorities, NEW i \in DOMAIN tasks[p], tasks[p][i] = order,
               tasks' = [tasks EXCEPT ![p] = RemoveAt(@, i)], UNCHANGED waiting
        PROVE  OneHome' /\ RemovingLocked' /\ FramesOK'
    <2>1. /\ tasks'[p] = RemoveAt(tasks[p], i) /\ tasks[p] \in Seq(Orders)
          /\ \A q \in Priorities \ {p} : tasks'[q] = tasks[q]
      BY <1>6 DEF HomeInv, TypeOK
    <2>2. /\ DOMAIN tasks'[p] = 1..(Len(tasks[p]) - 1)
          /\ \A j \in DOMAIN tasks'[p] : /\ j \in DOMAIN tasks[p] /\ j + 1 \in DOMAIN tasks[p]
                                         /\ tasks'[p][j] = IF j < i THEN tasks[p][j] ELSE tasks[p][j + 1]
      <3> DEFINE s == tasks[p]
      <3>1. s \in Seq(Orders) /\ i \in DOMAIN s
        BY <2>1
      <3> HIDE DEF s
      <3>2. /\ DOMAIN RemoveAt(s, i) = 1..(Len(s) - 1)
            /\ \A j \in DOMAIN RemoveAt(s, i) :
                 /\ j \in DOMAIN s /\ j + 1 \in DOMAIN s
                 /\ RemoveAt(s, i)[j] = IF j < i THEN s[j] ELSE s[j + 1]
        BY <3>1, RemoveAtFacts
      <3> QED  BY <2>1, <3>2 DEF s
    <2>3. DOMAIN tasks[p] = 1..Len(tasks[p]) /\ Len(tasks[p]) \in Nat
      BY <2>1
    <2>4. /\ \A q \in Priorities : \A k \in DOMAIN tasks[q] : ops[tasks[q][k]].priority = q
          /\ \A k, l \in DOMAIN tasks[p] : tasks[p][k] = tasks[p][l] => k = l
      BY DEF HomeInv, OneHome, ListsApart
    <2>5. \A q \in Priorities \ {p} : \A k \in DOMAIN tasks[q] : tasks[q][k] # order
      BY <1>6, <2>4
    <2>6. \A j \in DOMAIN tasks'[p] : tasks'[p][j] # order
      <3>1. SUFFICES ASSUME NEW j \in DOMAIN tasks'[p] PROVE tasks'[p][j] # order
        OBVIOUS
      <3>2. CASE j < i
        BY <1>6, <2>2, <2>3, <2>4, <3>2
      <3>3. CASE ~(j < i)
        <4>1. tasks'[p][j] = tasks[p][j + 1] /\ j + 1 \in DOMAIN tasks[p] /\ j + 1 # i
          BY <2>2, <2>3, <3>3
        <4> QED  BY <1>6, <2>4, <4>1
      <3> QED  BY <3>2, <3>3
    <2>7. \A k \in DOMAIN tasks[p] \ {i} : \E j \in DOMAIN tasks'[p] : tasks'[p][j] = tasks[p][k]
      <3>1. SUFFICES ASSUME NEW k \in DOMAIN tasks[p] \ {i}
                     PROVE  \E j \in DOMAIN tasks'[p] : tasks'[p][j] = tasks[p][k]
        OBVIOUS
      <3>2. CASE k < i
        BY <2>2, <2>3, <3>2
      <3>3. CASE ~(k < i)
        <4>1. k - 1 \in DOMAIN tasks'[p] /\ ~(k - 1 < i)
          BY <2>2, <2>3, <3>3
        <4>2. tasks'[p][k - 1] = tasks[p][(k - 1) + 1]
          BY <2>2, <4>1
        <4>3. (k - 1) + 1 = k
          BY <2>3
        <4> QED  BY <4>1, <4>2, <4>3
      <3> QED  BY <3>2, <3>3
    <2>8. \A j \in DOMAIN tasks'[p] : \E k \in DOMAIN tasks[p] : tasks'[p][j] = tasks[p][k]
      BY <2>2
    <2>9. Ready' = Ready \ {order}
      <3>1. \A e : e \in Ready' <=> \E q \in Priorities : \E j \in DOMAIN tasks'[q] : tasks'[q][j] = e
        BY DEF Ready, RangeOf
      <3>2. ASSUME NEW e \in Ready' PROVE e \in Ready /\ e # order
        <4>1. PICK q \in Priorities : \E j \in DOMAIN tasks'[q] : tasks'[q][j] = e
          BY <3>1, <3>2
        <4> QED  BY <2>1, <2>5, <2>6, <2>8, <4>1, ReadyIs
      <3>3. ASSUME NEW e \in Ready, e # order PROVE e \in Ready'
        <4>1. PICK q \in Priorities : \E j \in DOMAIN tasks[q] : tasks[q][j] = e
          BY <3>3, ReadyIs
        <4>2. CASE q = p
          BY <1>6, <2>7, <3>1, <3>3, <4>1, <4>2
        <4>3. CASE q # p
          BY <2>1, <3>1, <4>1, <4>3
        <4> QED  BY <4>2, <4>3
      <3> QED  BY <3>2, <3>3
    <2>10. ListsApart'
      <3>1. \A j \in DOMAIN tasks'[p] : ops[tasks'[p][j]].priority = p
        BY <2>4, <2>8
      <3>2. \A j, k \in DOMAIN tasks'[p] : tasks'[p][j] = tasks'[p][k] => j = k
        <4> DEFINE from(j) == IF j < i THEN j ELSE j + 1
        <4>1. \A j \in DOMAIN tasks'[p] : from(j) \in DOMAIN tasks[p] /\ tasks'[p][j] = tasks[p][from(j)]
          BY <2>2
        <4>2. \A j, k \in DOMAIN tasks'[p] : from(j) = from(k) => j = k
          BY <2>2, <2>3
        <4> HIDE DEF from
        <4> QED  BY <2>4, <4>1, <4>2
      <3>3. \A q \in Priorities : \A j, k \in DOMAIN tasks'[q] :
              /\ ops[tasks'[q][j]].priority = q
              /\ tasks'[q][j] = tasks'[q][k] => j = k
        BY <2>1, <3>1, <3>2 DEF HomeInv, OneHome, ListsApart
      <3> QED  BY <1>1, <3>3 DEF ListsApart
    <2>11. order \in Ready /\ Waiting' = Waiting
      BY <1>6, ReadyIs DEF Waiting
    <2> QED
      BY <1>1, <1>2, <1>3, <1>4, <2>9, <2>10, <2>11
      DEF HomeInv, OneHome, HandsCover, HandsApart, StartedOnce, FramesOK
  <1> QED  BY <1>5, <1>6 DEF CancelBegin

\* Each turn of cancel()'s loop, and its end.
LEMMA CancelHome ==
    ASSUME HomeInv, CancelNext
    PROVE  OneHome' /\ RemovingLocked' /\ FramesOK'
  <1>1. CASE CancelEnd
    <2>1. UNCHANGED <<ops, unfinished, waiting, tasks, removing, stack, started>>
          /\ mutex = "cancel" /\ removing = {}
      BY <1>1 DEF CancelEnd, queueVars, workerVars
    <2>2. CountingLocked'
      BY <2>1 DEF HomeInv, FramesOK, CountingLocked
    <2> QED  BY <2>1, <2>2, StillHome DEF RemovingLocked, FramesOK
  <1>2. ASSUME NEW order \in Orders, CancelStep(order)
        PROVE  OneHome' /\ RemovingLocked' /\ FramesOK'
    <2> DEFINE taken == IF ops[order].result = NoResult THEN {} ELSE Followers(ops[order].result)
    <2>1. /\ UNCHANGED <<mutex, ops, tasks, stack, started>>
          /\ mutex = "cancel" /\ order \in removing /\ unfinished' = unfinished \ {order}
      BY <1>2 DEF CancelStep, workerVars
    <2>2. removing' = (removing \ {order}) \union taken /\ Waiting' = Waiting \ taken /\ taken \subseteq Waiting
      <3>1. taken \subseteq Waiting
        BY DEF Followers
      <3>2. removing' = (removing \ {order}) \union taken
        BY <1>2 DEF CancelStep
      <3>3. Waiting' = Waiting \ taken
        BY <1>2 DEF CancelStep, WithoutWaiting, Waiting
      <3> QED  BY <3>1, <3>2, <3>3
    <2>3. Ready' = Ready /\ Running' = Running /\ ListsApart' /\ FramesApart'
      BY <2>1 DEF Ready, Running, FrameTasks, ListsApart, FramesApart, HomeInv, OneHome
    <2> HIDE DEF taken
    <2>4. order \notin Ready \union Waiting \union Running
      BY <2>1 DEF HomeInv, OneHome, HandsApart, StartedOnce
    <2>5. OneHome'
      BY <2>1, <2>2, <2>3, <2>4 DEF HomeInv, OneHome, HandsCover, HandsApart, StartedOnce
    <2>6. FramesOK'
      BY <2>1, FramesStay DEF HomeInv
    <2> QED  BY <2>1, <2>5, <2>6 DEF RemovingLocked
  <1> QED  BY <1>1, <1>2 DEF CancelNext

\* take() moves the first task of a list to the worker's innermost frame.
LEMMA TakeHome ==
    ASSUME HomeInv, NEW w \in Workers, Take(w)
    PROVE  OneHome' /\ RemovingLocked' /\ FramesOK'
  <1>1. PICK p \in Priorities :
          /\ tasks[p] # <<>>
          /\ tasks' = [tasks EXCEPT ![p] = Tail(@)]
          /\ Becomes(w, [Top(w) EXCEPT !.phase = "run", !.task = Head(tasks[p])])
          /\ started' = started \union {Head(tasks[p])}
    BY DEF Take, Foremost
  <1> DEFINE o == Head(tasks[p])
             f == [Top(w) EXCEPT !.phase = "run", !.task = o]
             n == Len(stack[w])
  <1>2. UNCHANGED <<mutex, ops, unfinished, waiting, removing>> /\ Busy(w) /\ Top(w).phase = "take"
    BY DEF Take, At
  <1>3. Top(w) \in Frames /\ Top(w).task = NoTask /\ n \in DOMAIN stack[w]
    <2>1. stack \in [Workers -> Seq(Frames)]
      BY DEF HomeInv, TypeOK
    <2>2. n \in DOMAIN stack[w]
      BY <1>2, <2>1 DEF Busy
    <2> QED  BY <1>2, <2>1, <2>2 DEF Top, HomeInv, FramesOK, FramesNameTasks
  <1>4. f.task = o /\ f.phase = "run"
    BY <1>3 DEF Frames
  <1>5. tasks[p] \in Seq(Orders) /\ tasks'[p] = Tail(tasks[p])
        /\ \A q \in Priorities \ {p} : tasks'[q] = tasks[q]
    BY <1>1 DEF HomeInv, TypeOK
  <1>6. o \in Orders /\ o # NoTask /\ 1 \in DOMAIN tasks[p] /\ o = tasks[p][1]
    BY <1>1, <1>5, HeadTailFacts DEF Orders, NoTask
  <1>7. /\ \A i \in DOMAIN tasks'[p] : i + 1 \in DOMAIN tasks[p] /\ tasks'[p][i] = tasks[p][i + 1] /\ i \in Nat \ {0}
        /\ RangeOf(tasks[p]) = {o} \union RangeOf(tasks'[p])
    <2> DEFINE s == tasks[p]
    <2>1. s \in Seq(Orders) /\ s # <<>>
      BY <1>1, <1>5
    <2> HIDE DEF s
    <2>2. /\ DOMAIN Tail(s) = 1..(Len(s) - 1)
          /\ \A i \in DOMAIN Tail(s) : i + 1 \in DOMAIN s /\ Tail(s)[i] = s[i + 1]
          /\ RangeOf(s) = {Head(s)} \union RangeOf(Tail(s))
      BY <2>1, HeadTailFacts
    <2>3. \A i \in DOMAIN Tail(s) : i \in Nat \ {0}
      BY <2>1, <2>2
    <2> QED  BY <1>5, <2>2, <2>3 DEF s
  <1>8. /\ \A q \in Priorities : \A k \in DOMAIN tasks[q] : ops[tasks[q][k]].priority = q
        /\ \A k, l \in DOMAIN tasks[p] : tasks[p][k] = tasks[p][l] => k = l
    BY DEF HomeInv, OneHome, ListsApart
  <1>9. Becomes(w, f)
    BY <1>1
  <1> HIDE DEF o, f
  <1>10. Ready' = Ready \ {o}
    <2>1. o \notin RangeOf(tasks'[p])
      <3>1. \A i \in DOMAIN tasks'[p] : tasks'[p][i] # o
        BY <1>6, <1>7, <1>8
      <3> QED  BY <3>1 DEF RangeOf
    <2>2. \A q \in Priorities \ {p} : o \notin RangeOf(tasks[q])
      BY <1>6, <1>8 DEF RangeOf
    <2>3. \A e : e \in Ready' <=> \E q \in Priorities : e \in RangeOf(tasks'[q])
      BY DEF Ready
    <2>4. \A e : e \in Ready <=> \E q \in Priorities : e \in RangeOf(tasks[q])
      BY DEF Ready
    <2>5. \A q \in Priorities : RangeOf(tasks'[q]) = RangeOf(tasks[q]) \ {o}
      BY <1>5, <1>7, <2>1, <2>2
    <2> QED  BY <2>3, <2>4, <2>5
  <1>11. o \in Ready
    BY <1>6, ReadyIs
  <1>12. ListsApart'
    <2>1. \A i, j \in DOMAIN tasks'[p] : /\ ops[tasks'[p][i]].priority = p
                                         /\ tasks'[p][i] = tasks'[p][j] => i = j
      <3> DEFINE next(i) == i + 1
      <3>1. \A i, j \in DOMAIN tasks'[p] : next(i) = next(j) => i = j
        BY <1>7
      <3>2. \A i \in DOMAIN tasks'[p] : next(i) \in DOMAIN tasks[p] /\ tasks'[p][i] = tasks[p][next(i)]
        BY <1>7
      <3> HIDE DEF next
      <3>3. \A i, j \in DOMAIN tasks'[p] : tasks'[p][i] = tasks'[p][j] => i = j
        BY <1>8, <3>1, <3>2
      <3>4. \A i \in DOMAIN tasks'[p] : ops[tasks'[p][i]].priority = p
        BY <1>8, <3>2
      <3> QED  BY <3>3, <3>4
    <2>2. \A q \in Priorities \ {p} : \A i, j \in DOMAIN tasks'[q] :
            /\ ops[tasks'[q][i]].priority = q
            /\ tasks'[q][i] = tasks'[q][j] => i = j
      BY <1>5 DEF HomeInv, OneHome, ListsApart
    <2>3. \A q \in Priorities : \A i, j \in DOMAIN tasks'[q] :
            /\ ops[tasks'[q][i]].priority = q
            /\ tasks'[q][i] = tasks'[q][j] => i = j
      BY <2>1, <2>2
    <2> QED  BY <1>2, <2>3 DEF ListsApart
  <1>13. /\ \A v \in Workers : DOMAIN stack'[v] = DOMAIN stack[v]
         /\ \A v \in Workers : \A i \in DOMAIN stack[v] :
              stack'[v][i] = IF v = w /\ i = n THEN f ELSE stack[v][i]
    BY <1>2, <1>9, BecomesFacts DEF HomeInv
  <1>14. stack[w][n].task = NoTask
    BY <1>3 DEF Top
  <1> HIDE DEF n
  <1>15. Running' = Running \union {o}
    <2>1. \A e : e \in Running' <=> /\ e # NoTask
                                    /\ \E v \in Workers : \E i \in DOMAIN stack'[v] : stack'[v][i].task = e
      BY DEF Running, FrameTasks
    <2>2. o \in Running'
      BY <1>3, <1>4, <1>6, <1>13, <2>1
    <2>3. ASSUME NEW e \in Running' PROVE e \in Running \union {o}
      BY <1>4, <1>13, <2>1, RunningIs
    <2>4. ASSUME NEW e \in Running PROVE e \in Running'
      <3>1. PICK v \in Workers : \E i \in DOMAIN stack[v] : stack[v][i].task = e
        BY <2>4, RunningIs
      <3>2. PICK i \in DOMAIN stack[v] : stack[v][i].task = e
        BY <3>1
      <3>3. e # NoTask
        BY <2>4, RunningIs
      <3> QED  BY <1>13, <1>14, <2>1, <3>2, <3>3
    <2> QED  BY <2>2, <2>3, <2>4
  <1>16. o \notin Running /\ o \notin started /\ o \notin Waiting \union removing
    BY <1>11 DEF HomeInv, OneHome, HandsApart, StartedOnce
  <1>17. FramesApart'
    <2>1. \A v \in Workers : \A i \in DOMAIN stack[v] : stack[v][i].task # o
      BY <1>6, <1>16, RunningIs
    <2>2. \A u, v \in Workers : \A i \in DOMAIN stack[u], j \in DOMAIN stack[v] :
            stack[u][i].task = stack[v][j].task /\ stack[u][i].task # NoTask => u = v /\ i = j
      BY DEF HomeInv, OneHome, FramesApart
    <2>3. \A u, v \in Workers : \A i \in DOMAIN stack'[u], j \in DOMAIN stack'[v] :
            stack'[u][i].task = stack'[v][j].task /\ stack'[u][i].task # NoTask => u = v /\ i = j
      BY <1>4, <1>13, <2>1, <2>2
    <2> QED  BY <2>3 DEF FramesApart
  <1>18. Waiting' = Waiting /\ started' = started \union {o}
    BY <1>1, <1>2 DEF Waiting, o
  <1>19. OneHome'
    BY <1>2, <1>10, <1>11, <1>12, <1>15, <1>16, <1>17, <1>18
    DEF HomeInv, OneHome, HandsCover, HandsApart, StartedOnce
  <1>20. FramesNameTasks' /\ NoNewCount
    BY <1>4, <1>13 DEF HomeInv, FramesOK, FramesNameTasks, NoNewCount
  <1>21. CountingLocked'
    BY <1>2, <1>20, NoNewCountKeeps DEF HomeInv, FramesOK
  <1> QED  BY <1>2, <1>19, <1>20, <1>21 DEF HomeInv, RemovingLocked, FramesOK

\* done() takes the task out of its frame, and holds the lock from there on.
LEMMA DoneHome ==
    ASSUME HomeInv, NEW w \in Workers, Done(w)
    PROVE  OneHome' /\ RemovingLocked' /\ FramesOK'
  <1> DEFINE o == Top(w).task
             f == [Top(w) EXCEPT !.phase = "count", !.task = NoTask]
             n == Len(stack[w])
  <1>1. /\ UNCHANGED <<ops, waiting, tasks, removing, started>>
        /\ Busy(w) /\ Becomes(w, f) /\ unfinished' = unfinished \ {o}
        /\ mutex = "free" /\ mutex' = "done"
    BY DEF Done, At
  <1>2. Top(w) \in Frames /\ n \in DOMAIN stack[w] /\ stack[w][n].task = o
    <2>1. stack \in [Workers -> Seq(Frames)]
      BY DEF HomeInv, TypeOK
    <2>2. n \in DOMAIN stack[w]
      BY <1>1, <2>1 DEF Busy
    <2> QED  BY <2>1, <2>2 DEF Top
  <1>3. f.task = NoTask /\ f.phase = "count"
    BY <1>2 DEF Frames
  <1> HIDE DEF o, f
  <1>4. /\ \A v \in Workers : DOMAIN stack'[v] = DOMAIN stack[v]
        /\ \A v \in Workers : \A i \in DOMAIN stack[v] :
             stack'[v][i] = IF v = w /\ i = n THEN f ELSE stack[v][i]
    BY <1>1, BecomesFacts DEF HomeInv
  <1> HIDE DEF n
  <1>5. \A u, v \in Workers : \A i \in DOMAIN stack[u], j \in DOMAIN stack[v] :
          stack[u][i].task = stack[v][j].task /\ stack[u][i].task # NoTask => u = v /\ i = j
    BY DEF HomeInv, OneHome, FramesApart
  <1>6. Running' = Running \ {o}
    <2>1. \A e : e \in Running' <=> /\ e # NoTask
                                    /\ \E v \in Workers : \E i \in DOMAIN stack'[v] : stack'[v][i].task = e
      BY DEF Running, FrameTasks
    <2>2. ASSUME NEW e \in Running' PROVE e \in Running /\ e # o
      <3>1. e # NoTask /\ \E v \in Workers : \E i \in DOMAIN stack'[v] : stack'[v][i].task = e
        BY <2>1, <2>2
      <3>2. PICK v \in Workers : \E i \in DOMAIN stack'[v] : stack'[v][i].task = e
        BY <3>1
      <3>3. PICK i \in DOMAIN stack'[v] : stack'[v][i].task = e
        BY <3>2
      <3>4. i \in DOMAIN stack[v] /\ ~(v = w /\ i = n) /\ stack[v][i].task = e
        BY <1>3, <1>4, <3>1, <3>3
      <3>5. e # o
        BY <1>2, <1>5, <3>1, <3>4
      <3> QED  BY <3>1, <3>4, <3>5, RunningIs
    <2>3. ASSUME NEW e \in Running, e # o PROVE e \in Running'
      <3>1. e # NoTask /\ \E v \in Workers : \E i \in DOMAIN stack[v] : stack[v][i].task = e
        BY <2>3, RunningIs
      <3>2. PICK v \in Workers : \E i \in DOMAIN stack[v] : stack[v][i].task = e
        BY <3>1
      <3>3. PICK i \in DOMAIN stack[v] : stack[v][i].task = e
        BY <3>2
      <3>4. i \in DOMAIN stack'[v] /\ stack'[v][i].task = e
        BY <1>2, <1>4, <2>3, <3>3
      <3> QED  BY <2>1, <3>1, <3>4
    <2> QED  BY <2>2, <2>3
  <1>7. o = NoTask \/ o \in Running
    BY <1>2, RunningIs
  <1>8. NoTask \notin Running /\ NoTask \notin unfinished
    BY RunningIs DEF HomeInv, TypeOK, Orders, NoTask
  <1>9. o \notin Ready \union Waiting \union removing
    BY <1>7, <1>8 DEF HomeInv, OneHome, HandsCover, StartedOnce
  <1>10. Ready' = Ready /\ Waiting' = Waiting /\ ListsApart'
    BY <1>1 DEF Ready, Waiting, HomeInv, OneHome, ListsApart
  <1>11. FramesApart'
    BY <1>3, <1>4, <1>5 DEF FramesApart
  <1>12. OneHome'
    BY <1>1, <1>6, <1>9, <1>10, <1>11 DEF HomeInv, OneHome, HandsCover, HandsApart, StartedOnce
  <1>13. FramesNameTasks'
    BY <1>3, <1>4 DEF HomeInv, FramesOK, FramesNameTasks
  <1>14. CountingLocked'
    <2>1. \A v \in Workers : \A i \in DOMAIN stack[v] : stack[v][i].phase # "count"
      BY <1>1 DEF HomeInv, FramesOK, CountingLocked
    <2>2. \A v \in Workers : \A i \in DOMAIN stack'[v] : stack'[v][i].phase = "count" => v = w /\ i = n
      BY <1>4, <2>1
    <2> QED  BY <1>1, <2>2 DEF CountingLocked
  <1>15. RemovingLocked'
    BY <1>1 DEF HomeInv, RemovingLocked
  <1> QED  BY <1>12, <1>13, <1>14, <1>15 DEF FramesOK

\* Each turn of done()'s loop over the tasks after this one, and its end.
LEMMA CountHome ==
    ASSUME HomeInv, NEW w \in Workers, CountOff(w) \/ DoneEnd(w)
    PROVE  OneHome' /\ RemovingLocked' /\ FramesOK'
  <1>1. CASE CountOff(w)
    <2> DEFINE o == Head(counting)
    <2>1. UNCHANGED <<mutex, ops, unfinished, removing, stack, started>>
      BY <1>1 DEF CountOff
    <2>2. o \in Orders /\ Orders' = Orders
      BY <1>1, HeadTailFacts, OpsKept DEF CountOff, HomeInv, TypeOK
    <2>3. FramesOK' /\ RemovingLocked'
      BY <2>1, FramesStay DEF HomeInv, RemovingLocked
    <2>4. Running' = Running /\ FramesApart'
      BY <2>1 DEF Running, FrameTasks, HomeInv, OneHome, FramesApart
    <2>5. CASE o \in Waiting /\ waiting' = WithoutWaiting({o}) /\ MakeReady(o, ops[o].priority)
      <3>1. o \notin Ready /\ o \notin removing /\ o \notin started
        BY <2>5 DEF HomeInv, OneHome, HandsApart, StartedOnce
      <3>2. ops[o].priority \in Priorities
        BY <2>2, OpFacts DEF HomeInv
      <3>3. Waiting' = Waiting \ {o}
        BY <2>5 DEF Waiting, WithoutWaiting
      <3> HIDE DEF o
      <3>4. Ready' = Ready \union {o} /\ ListsApart'
        BY <2>1, <2>2, <2>5, <3>1, <3>2, MadeReadyHome DEF HomeInv, OneHome
      <3>5. OneHome'
        BY <2>1, <2>4, <2>5, <3>1, <3>3, <3>4 DEF HomeInv, OneHome, HandsCover, HandsApart, StartedOnce
      <3> QED  BY <2>3, <3>5
    <2>6. CASE Waiting' = Waiting /\ UNCHANGED tasks
      <3>1. Ready' = Ready /\ ListsApart'
        BY <2>1, <2>6 DEF Ready, HomeInv, OneHome, ListsApart
      <3>2. OneHome'
        BY <2>1, <2>4, <2>6, <3>1 DEF HomeInv, OneHome, HandsCover, HandsApart, StartedOnce
      <3> QED  BY <2>3, <3>2
    <2> QED  BY <1>1, <2>5, <2>6 DEF CountOff, Waiting
  <1>2. CASE DoneEnd(w)
    <2> DEFINE f == [Top(w) EXCEPT !.phase = "take"]
               n == Len(stack[w])
    <2>1. /\ UNCHANGED <<ops, unfinished, waiting, tasks, removing, started>>
          /\ Busy(w) /\ Becomes(w, f) /\ Top(w).phase = "count" /\ mutex' = "free"
      BY <1>2 DEF DoneEnd, At, queueVars
    <2>2. Top(w) \in Frames /\ n \in DOMAIN stack[w] /\ stack[w][n] = Top(w)
      <3>1. stack \in [Workers -> Seq(Frames)]
        BY DEF HomeInv, TypeOK
      <3>2. n \in DOMAIN stack[w]
        BY <2>1, <3>1 DEF Busy
      <3> QED  BY <3>1, <3>2 DEF Top
    <2>3. f.task = Top(w).task /\ f.phase = "take"
      BY <2>2 DEF Frames
    <2>4. Top(w).task = NoTask
      BY <2>1, <2>2 DEF HomeInv, FramesOK, FramesNameTasks
    <2> HIDE DEF f
    <2>5. SameTasks /\ FramesNameTasks'
      BY <2>1, <2>3, <2>4, BecomesKeeps DEF HomeInv, FramesOK
    <2>6. mutex = "done" /\ \A v \in Workers : \A i \in DOMAIN stack[v] :
            stack[v][i].phase = "count" => v = w /\ i = n
      BY <2>1, <2>2 DEF HomeInv, FramesOK, CountingLocked
    <2>7. \A v \in Workers : \A i \in DOMAIN stack'[v] : stack'[v][i].phase # "count"
      BY <2>1, <2>3, <2>6, BecomesFacts DEF HomeInv
    <2>8. CountingLocked' /\ RemovingLocked'
      BY <2>1, <2>6, <2>7 DEF HomeInv, CountingLocked, RemovingLocked
    <2> QED  BY <2>1, <2>5, <2>8, SameTasksKeepHome DEF HomeInv, FramesOK
  <1> QED  BY <1>1, <1>2

LEMMA HomeInit == Init => HomeInv
  <1> SUFFICES ASSUME Init PROVE HomeInv
    OBVIOUS
  <1>1. Ready = {} /\ Waiting = {} /\ Running = {}
    BY DEF Init, Ready, RangeOf, Waiting, Running, FrameTasks
  <1>2. OneHome
    BY <1>1 DEF Init, OneHome, HandsCover, HandsApart, StartedOnce, ListsApart, FramesApart
  <1>3. RemovingLocked /\ FramesOK
    BY DEF Init, RemovingLocked, FramesOK, FramesNameTasks, CountingLocked
  <1> QED  BY <1>2, <1>3, TypeInit DEF HomeInv

LEMMA HomeStep == HomeInv /\ [Next]_vars => HomeInv'
  <1> SUFFICES ASSUME HomeInv, [Next]_vars PROVE HomeInv'
    OBVIOUS
  <1>1. TypeOK'
    BY TypeStep DEF HomeInv
  <1>2. CASE CallerNext
    BY <1>1, <1>2, AcceptHome, CancelBeginHome DEF CallerNext, HomeInv
  <1>3. CASE CancelNext
    BY <1>1, <1>3, CancelHome DEF HomeInv
  <1>4. ASSUME NEW w \in Workers, WorkerNext(w) \/ UserNext(w)
        PROVE  HomeInv'
    BY <1>1, <1>4, LoopStepHome, TakeHome, DoneHome, CountHome DEF WorkerNext, UserNext, HomeInv
  <1>5. ASSUME NEW c \in Clients, ClientNext(c) \/ ClientCall(c)
        PROVE  HomeInv'
    BY <1>1, <1>5, ClientHome DEF HomeInv
  <1>6. CASE UNCHANGED vars
    <2>1. UNCHANGED <<mutex, ops, unfinished, waiting, tasks, removing, stack, started>>
      BY <1>6 DEF vars
    <2>2. FramesOK'
      BY <2>1, FramesStay DEF HomeInv
    <2> QED  BY <1>1, <2>1, <2>2, StillHome DEF HomeInv, RemovingLocked
  <1> QED  BY <1>2, <1>3, <1>4, <1>5, <1>6 DEF Next

\* However submit(), cancel(), take() and done() interleave, and whatever the
\* tasks, workers and bounds, no task accepted is lost and none runs twice.
\* The lock is part of the argument: only its holder has tasks in hand.
THEOREM NoTaskLostOrTwice == Spec => []OneHome
  <1>1. HomeInv => OneHome
    BY DEF HomeInv
  <1> QED  BY <1>1, HomeInit, HomeStep, PTL DEF Spec

=============================================================================
