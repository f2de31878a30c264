---------------------- MODULE OperationQueueOrderProofs ----------------------
(***************************************************************************)
(* Theorems of OperationQueue about tasks that run after others: their     *)
(* counts, what cancel() takes with it, and the order in which they start. *)
(***************************************************************************)
EXTENDS OperationQueueProofs

-----------------------------------------------------------------------------
(* The inductive invariant.                                                *)

\* How often a list has something in it.
Times(s, e) == Cardinality({i \in DOMAIN s : s[i] = e})

Names(o, state) == \E i \in DOMAIN ops[o].after : results[ops[o].after[i]] = state

\* A result is one task's, made after those it is to run after.
ResultsApart ==
    /\ \A o, p \in Orders : ops[o].result = ops[p].result /\ ops[o].result # NoResult => o = p
    /\ \A o, p \in Orders : \A i \in DOMAIN ops[o].after : ops[o].after[i] = ops[p].result => p < o

\* The queue keeps dependents for the results of unfinished tasks, and each task
\* that named such a result is among them as often as it did.
DependentsFit ==
    /\ DOMAIN dependents = {ops[o].result : o \in unfinished} \ {NoResult}
    /\ \A id \in DOMAIN dependents, o \in Orders :
         Times(dependents[id], o) = Times(ops[o].after, id)

\* A task waits for the results it named that are open, and for the countings off
\* that done() still has to do.
WaitingFits ==
    /\ \A o \in Waiting : /\ ops[o].after # <<>>
                          /\ waiting[o] = Cardinality(Open(ops[o].after)) + Times(counting, o)
    /\ mutex # "done" => counting = <<>>

\* A result stands where its task does.
PendingKept == \A id \in Ids : results[id] = "pending" => id \in DOMAIN dependents
ResultsFollow ==
    \A o \in Orders :
        LET id == ops[o].result
        IN  id # NoResult =>
              /\ results[id] = "returned" => o \in started
              /\ results[id] = "cancelled" => o \notin unfinished /\ o \notin started
FramesFollow ==
    \A w \in Workers : \A i \in DOMAIN stack[w] :
        stack[w][i].phase \in {"run", "returned"} =>
            LET id == ops[stack[w][i].task].result
            IN  /\ stack[w][i].task # NoTask
                /\ id # NoResult =>
                    results[id] = IF stack[w][i].phase = "run" THEN "pending" ELSE "returned"
ResultsFit == PendingKept /\ ResultsFollow /\ FramesFollow

\* Who names a cancelled result never starts, and is finished or with cancel(), which
\* has been asked for one task and takes the others for that reason alone.
CancelsFit ==
    /\ \A o \in Orders : Names(o, "cancelled") => o \notin started
                                                  /\ (o \in unfinished => o \in removing)
    /\ \A o \in removing : \/ Names(o, "cancelled")
                           \/ removing = {o} /\ ops[o].result # NoResult

DependsFit ==
    /\ ResultsApart
    /\ DependentsFit
    /\ WaitingFits
    /\ ResultsFit
    /\ CancelsFit
    /\ RunsAfterAll

DependenciesInv == HomeInv /\ DependsFit

-----------------------------------------------------------------------------
(* Counting.                                                               *)

LEMMA TimesFacts ==
    ASSUME NEW S, NEW s \in Seq(S), NEW e
    PROVE  /\ IsFiniteSet({i \in DOMAIN s : s[i] = e}) /\ Times(s, e) \in Nat
           /\ Times(s, e) = 0 <=> e \notin RangeOf(s)
  <1>1. IsFiniteSet(1..Len(s)) /\ DOMAIN s = 1..Len(s)
    BY FS_Interval
  <1>2. IsFiniteSet({i \in DOMAIN s : s[i] = e})
    BY <1>1, FS_Subset
  <1> QED  BY <1>2, FS_CardinalityType, FS_EmptySet DEF Times, RangeOf

LEMMA TimesOfNone ==
    ASSUME NEW e
    PROVE  Times(<<>>, e) = 0
  BY FS_EmptySet DEF Times

LEMMA TimesOfTail ==
    ASSUME NEW S, NEW s \in Seq(S), s # <<>>, NEW e
    PROVE  Times(s, e) = Times(Tail(s), e) + (IF e = Head(s) THEN 1 ELSE 0)
  <1> DEFINE A == {i \in DOMAIN s : s[i] = e}
             B == {i \in DOMAIN Tail(s) : Tail(s)[i] = e}
             f == [i \in B |-> i + 1]
             C == A \ {1}
  <1>1. /\ 1 \in DOMAIN s /\ Head(s) = s[1] /\ Tail(s) \in Seq(S)
        /\ DOMAIN Tail(s) = 1..(Len(s) - 1) /\ DOMAIN s = 1..Len(s) /\ Len(s) \in Nat
        /\ \A i \in DOMAIN Tail(s) : i + 1 \in DOMAIN s /\ Tail(s)[i] = s[i + 1]
    BY HeadTailFacts
  <1>2. IsFiniteSet(A) /\ IsFiniteSet(B)
    BY <1>1, TimesFacts, ZenonT(60)
  <1>3. f \in Bijection(B, C)
    <2>1. \A i \in B : i + 1 \in C
      BY <1>1
    <2>2. \A i, j \in B : i + 1 = j + 1 => i = j
      BY <1>1
    <2>3. \A k \in C : k - 1 \in B /\ (k - 1) + 1 = k
      BY <1>1
    <2> HIDE DEF B, C
    <2>4. f \in [B -> C] /\ \A i, j \in B : f[i] = f[j] => i = j
      BY <2>1, <2>2
    <2>5. \A k \in C : \E i \in B : f[i] = k
      BY <2>3
    <2> HIDE DEF f
    <2> QED  BY <2>4, <2>5 DEF Bijection, Injection, Surjection, IsInjective
  <1>4. Cardinality(C) = Cardinality(B)
    <2> HIDE DEF B, C, f
    <2> QED  BY <1>2, <1>3, FS_Bijection DEF ExistsBijection
  <1>5. Cardinality(A) = Cardinality(C) + (IF 1 \in A THEN 1 ELSE 0)
    <2> HIDE DEF A
    <2>1. Cardinality(A) \in Nat
      BY <1>2, FS_CardinalityType
    <2>2. Cardinality(A \ {1}) = IF 1 \in A THEN Cardinality(A) - 1 ELSE Cardinality(A)
      BY <1>2, FS_RemoveElement
    <2>3. C = A \ {1}
      OBVIOUS
    <2> HIDE DEF C
    <2> QED  BY <2>1, <2>2, <2>3
  <1>6. 1 \in A <=> e = Head(s)
    BY <1>1
  <1> QED  BY <1>4, <1>5, <1>6 DEF Times

\* A list with n more at its end: what queue() makes of a list of dependents.
More(s, n, o) == s \o [i \in 1..n |-> o]

LEMMA TimesOfMore ==
    ASSUME NEW S, NEW s \in Seq(S), NEW n \in Nat, NEW o, NEW e
    PROVE  Times(More(s, n, o), e) = Times(s, e) + (IF e = o THEN n ELSE 0)
  <1> DEFINE t == s \o [i \in 1..n |-> o]
             A == {i \in DOMAIN s : s[i] = e}
             B == IF e = o THEN (Len(s) + 1)..(Len(s) + n) ELSE {}
             N == {i \in DOMAIN t : t[i] = e}
  <1>1. /\ DOMAIN t = 1..(Len(s) + n) /\ DOMAIN s = 1..Len(s) /\ Len(s) \in Nat
        /\ \A i \in 1..(Len(s) + n) : t[i] = IF i <= Len(s) THEN s[i] ELSE o
    <2>1. s \in Seq(S \union {o}) /\ [i \in 1..n |-> o] \in Seq(S \union {o})
          /\ Len([i \in 1..n |-> o]) = n
      OBVIOUS
    <2>2. \A i \in 1..n : [j \in 1..n |-> o][i] = o
      OBVIOUS
    <2> DEFINE u == [i \in 1..n |-> o]
    <2> HIDE DEF u
    <2>3. DOMAIN (s \o u) = 1..(Len(s) + n)
      BY <2>1 DEF u
    <2>4. \A i \in 1..(Len(s) + n) : (s \o u)[i] = IF i <= Len(s) THEN s[i] ELSE u[i - Len(s)]
      BY <2>1, ConcatProperties DEF u
    <2>5. \A i \in 1..(Len(s) + n) : i > Len(s) => i - Len(s) \in 1..n
      OBVIOUS
    <2> QED  BY <2>2, <2>3, <2>4, <2>5 DEF u
  <1> HIDE DEF t
  <1>2. N = A \union B /\ A \intersect B = {}
    BY <1>1
  <1>3. IsFiniteSet(A) /\ Cardinality(A) \in Nat
    BY TimesFacts DEF Times
  <1>4. IsFiniteSet(B) /\ Cardinality(B) = IF e = o THEN n ELSE 0
    <2>1. IsFiniteSet((Len(s) + 1)..(Len(s) + n)) /\ Cardinality((Len(s) + 1)..(Len(s) + n)) = n
      BY <1>1, FS_Interval
    <2> QED  BY <2>1, FS_EmptySet
  <1> HIDE DEF A, B, N
  <1>5. Cardinality(A \union B) = Cardinality(A) + Cardinality(B)
    <2>1. Cardinality(A \union B) = Cardinality(A) + Cardinality(B) - Cardinality(A \intersect B)
      BY <1>3, <1>4, FS_Union
    <2>2. Cardinality(A \intersect B) = 0
      BY <1>2, FS_EmptySet
    <2>3. Cardinality(B) \in Nat
      BY <1>4, FS_CardinalityType
    <2> QED  BY <1>3, <2>1, <2>2, <2>3
  <1> QED  BY <1>2, <1>4, <1>5 DEF Times, More, A, N, t


-----------------------------------------------------------------------------
(* What a step leaves of each part.                                        *)

LEMMA NoIdIsNone == NoResult \notin Ids
  BY DEF NoResult, Ids

\* What the queue holds of an accepted task, wherever it is named.
LEMMA AfterFacts ==
    ASSUME TypeOK, NEW o \in Orders, NEW i \in DOMAIN ops[o].after
    PROVE  ops[o].after[i] \in Ids
  <1>1. ops[o].after \in Seq(Ids)
    BY OpFacts
  <1> QED  BY <1>1

LEMMA AcceptedFacts ==
    ASSUME TypeOK, NEW new, ops' = Append(ops, new)
    PROVE  /\ Orders' = Orders \union {Len(ops) + 1} /\ Len(ops) + 1 \notin Orders
           /\ \A x \in Orders : ops'[x] = ops[x] /\ x \in Nat /\ x < Len(ops) + 1
           /\ ops'[Len(ops) + 1] = new
  <1>1. ops \in Seq([priority: Priorities, after: Seq(Ids), result: Ids \union {NoResult}])
    BY DEF TypeOK
  <1>2. ops \in Seq(RangeOf(ops) \union {new}) /\ Len(ops) \in Nat
    BY <1>1 DEF RangeOf
  <1>3. Len(Append(ops, new)) = Len(ops) + 1 /\ Append(ops, new)[Len(ops) + 1] = new
        /\ \A x \in 1..Len(ops) : Append(ops, new)[x] = ops[x]
    BY <1>2
  <1> QED  BY <1>2, <1>3 DEF Orders

\* The frames in a task's call, or past it, were there before.
CallsAsBefore ==
    \A w \in Workers : \A i \in DOMAIN stack'[w] : stack'[w][i].phase \in {"run", "returned"} =>
        /\ i \in DOMAIN stack[w]
        /\ stack'[w][i].phase = stack[w][i].phase /\ stack'[w][i].task = stack[w][i].task

LEMMA CallsKept ==
    ASSUME TypeOK, FramesFollow, CallsAsBefore,
           \A o \in Orders : ops'[o] = ops[o],
           \A w \in Workers : \A i \in DOMAIN stack'[w] :
             stack'[w][i].phase \in {"run", "returned"} =>
                LET id == ops[stack[w][i].task].result IN id # NoResult => results'[id] = results[id]
    PROVE  FramesFollow'
  <1>1. stack \in [Workers -> Seq(Frames)]
    BY DEF TypeOK
  <1>2. SUFFICES ASSUME NEW w \in Workers, NEW i \in DOMAIN stack'[w],
                        stack'[w][i].phase \in {"run", "returned"}
                 PROVE  LET id == ops'[stack'[w][i].task].result
                        IN  /\ stack'[w][i].task # NoTask
                            /\ id # NoResult =>
                                results'[id] = IF stack'[w][i].phase = "run" THEN "pending" ELSE "returned"
    BY DEF FramesFollow
  <1>3. /\ i \in DOMAIN stack[w]
        /\ stack'[w][i].phase = stack[w][i].phase /\ stack'[w][i].task = stack[w][i].task
    BY <1>2 DEF CallsAsBefore
  <1>4. stack[w][i] \in Frames
    BY <1>1, <1>3
  <1>5. stack[w][i].task # NoTask
    BY <1>2, <1>3 DEF FramesFollow
  <1>6. stack[w][i].task \in Orders
    BY <1>4, <1>5 DEF Frames
  <1>7. ops'[stack'[w][i].task] = ops[stack[w][i].task]
    BY <1>3, <1>6
  <1> QED  BY <1>2, <1>3, <1>5, <1>7 DEF FramesFollow

\* queue() lists the task under each result it names that is open, as often as
\* it does, and counts those; a task with none to wait for names returned ones.
LEMMA QueueDepends ==
    ASSUME DependenciesInv, mutex = "free", NEW p \in Priorities, NEW after \in AfterLists,
           ~AnyCancelled(after), NEW result,
           Ids' = Ids \union ({result} \ {NoResult}), result \notin Ids,
           \A id \in Ids : results'[id] = results[id],
           result # NoResult => results'[result] = "pending",
           Queue(p, after, result), UNCHANGED <<mutex, counting, removing, stack, started>>
    PROVE  DependsFit'
  <1> DEFINE new == [priority |-> p, after |-> after, result |-> result]
             before(id) == IF id \in DOMAIN dependents THEN dependents[id] ELSE <<>>
             listed == DOMAIN dependents \union ({result} \ {NoResult})
  <1>0. PICK order : order = Len(ops) + 1
    OBVIOUS
  <1>1. /\ ops' = Append(ops, new)
        /\ unfinished' = unfinished \union {order}
        /\ dependents' = [id \in listed |-> More(before(id), Times(after, id), order)]
    BY <1>0 DEF Queue, Times, More
  <1>2. TypeOK /\ after \in Seq(Ids) /\ new.after = after /\ new.result = result
    BY NamedFinite DEF DependenciesInv, HomeInv
  <1> HIDE DEF new
  <1>3. /\ Orders' = Orders \union {order} /\ order \notin Orders
        /\ \A x \in Orders : ops'[x] = ops[x] /\ x \in Nat /\ x < order
        /\ ops'[order] = new
    BY <1>0, <1>1, <1>2, AcceptedFacts
  <1>4. removing = {} /\ counting = <<>>
    BY DEF DependenciesInv, DependsFit, HomeInv, RemovingLocked, WaitingFits
  <1>5. \A x \in Orders : \A i \in DOMAIN ops[x].after : ops[x].after[i] \in Ids
    BY <1>2, AfterFacts
  <1>6. \A x \in Orders : ops[x].result \in Ids \union {NoResult} /\ ops[x].after \in Seq(Ids)
    BY <1>2, OpFacts
  <1>7. (\A i \in DOMAIN after : after[i] \in Ids) /\ NoResult \notin Ids /\ order \in Nat
    BY <1>0, <1>2, NoIdIsNone DEF TypeOK
  <1>8. /\ DOMAIN dependents \subseteq Ids /\ unfinished \subseteq Orders /\ started \subseteq Orders
        /\ \A id \in DOMAIN dependents : dependents[id] \in Seq(Orders)
        /\ Waiting \subseteq Orders
    BY <1>2 DEF TypeOK
  <1>9. DOMAIN dependents' = listed
    BY <1>1
  <1>10. ResultsApart'
    <2>1. \A x, y \in Orders' : ops'[x].result = ops'[y].result /\ ops'[x].result # NoResult => x = y
      BY <1>2, <1>3, <1>6 DEF DependenciesInv, DependsFit, ResultsApart
    <2>2. \A x, y \in Orders' : \A i \in DOMAIN ops'[x].after : ops'[x].after[i] = ops'[y].result => y < x
      BY <1>2, <1>3, <1>5, <1>6, <1>7 DEF DependenciesInv, DependsFit, ResultsApart
    <2> QED  BY <2>1, <2>2 DEF ResultsApart
  <1>11. DependentsFit'
    <2>1. DOMAIN dependents' = {ops'[o].result : o \in unfinished'} \ {NoResult}
      <3>1. \A o \in unfinished : ops'[o] = ops[o]
        BY <1>3, <1>8
      <3>2. DOMAIN dependents = {ops[o].result : o \in unfinished} \ {NoResult}
        BY DEF DependenciesInv, DependsFit, DependentsFit
      <3>3. \A e : e \in listed <=> \/ e # NoResult /\ \E o \in unfinished : e = ops[o].result
                                    \/ e # NoResult /\ e = result
        BY <3>2
      <3>4. \A e : e \in {ops'[o].result : o \in unfinished'} \ {NoResult} <=>
                e # NoResult /\ ((\E o \in unfinished : e = ops[o].result) \/ e = ops'[order].result)
        BY <1>1, <3>1
      <3> QED  BY <1>2, <1>3, <1>9, <3>3, <3>4
    <2>2. ASSUME NEW id \in listed, NEW o \in Orders'
          PROVE  Times(dependents'[id], o) = Times(ops'[o].after, id)
      <3>1. before(id) \in Seq(Orders) /\ dependents'[id] = More(before(id), Times(after, id), order)
        BY <1>1, <1>8
      <3>2. Times(after, id) \in Nat
        BY <1>2, TimesFacts
      <3>3. Times(dependents'[id], o) = Times(before(id), o) + (IF o = order THEN Times(after, id) ELSE 0)
        <4> HIDE DEF before
        <4> QED  BY <3>1, <3>2, TimesOfMore
      <3>4. Times(before(id), o) \in Nat
        BY <3>1, TimesFacts
      <3>5. CASE o = order
        <4>1. o \notin RangeOf(before(id))
          <5> HIDE DEF before
          <5> QED  BY <1>3, <3>1, <3>5 DEF RangeOf
        <4>2. Times(before(id), o) = 0
          <5> HIDE DEF before
          <5> QED  BY <3>1, <4>1, TimesFacts
        <4> QED  BY <1>2, <1>3, <3>2, <3>3, <3>5, <4>2
      <3>6. CASE o \in Orders
        <4>1. o # order /\ ops'[o] = ops[o]
          BY <1>3, <3>6
        <4>2. CASE id \in DOMAIN dependents
          BY <3>3, <3>4, <3>6, <4>1, <4>2 DEF DependenciesInv, DependsFit, DependentsFit
        <4>3. CASE id \notin DOMAIN dependents
          <5>1. before(id) = <<>> /\ id \notin Ids
            BY <2>2, <4>3
          <5>2. Times(before(id), o) = 0
            BY <5>1, TimesOfNone
          <5>3. id \notin RangeOf(ops[o].after)
            BY <1>5, <3>6, <5>1 DEF RangeOf
          <5>4. Times(ops[o].after, id) = 0
            BY <1>6, <3>6, <5>3, TimesFacts
          <5> QED  BY <3>3, <4>1, <5>2, <5>4
        <4> QED  BY <4>2, <4>3
      <3> QED  BY <1>3, <3>5, <3>6
    <2> QED  BY <1>9, <2>1, <2>2 DEF DependentsFit
  <1>12. \A x \in Orders : {i \in DOMAIN ops'[x].after : ops'[x].after[i] \in DOMAIN dependents'}
                            = Open(ops[x].after)
    <2>1. \A x \in Orders : \A i \in DOMAIN ops[x].after :
            ops[x].after[i] \in listed <=> ops[x].after[i] \in DOMAIN dependents
      BY <1>5
    <2> QED  BY <1>3, <1>9, <2>1 DEF Open
  <1>13. {i \in DOMAIN ops'[order].after : ops'[order].after[i] \in DOMAIN dependents'} = Open(after)
    <2>1. \A i \in DOMAIN after : after[i] \in listed <=> after[i] \in DOMAIN dependents
      BY <1>7
    <2> QED  BY <1>2, <1>3, <1>9, <2>1 DEF Open
  <1>14. \A o \in Waiting : /\ ops[o].after # <<>>
                            /\ waiting[o] = Cardinality(Open(ops[o].after)) + Times(counting, o)
    BY DEF DependenciesInv, DependsFit, WaitingFits
  <1>15. WaitingFits' /\ Waiting' \subseteq Orders'
    <2>1. \A x \in Orders : /\ Cardinality({i \in DOMAIN ops'[x].after : ops'[x].after[i] \in DOMAIN dependents'})
                                = Cardinality(Open(ops[x].after))
                            /\ ops'[x].after = ops[x].after
      BY <1>3, <1>12
    <2>2. CASE Cardinality(Open(after)) > 0
      <3>1. waiting' = [o \in Waiting \union {order} |->
                            IF o = order THEN Cardinality(Open(after)) ELSE waiting[o]]
        BY <1>0, <2>2 DEF Queue
      <3>2. Waiting' = Waiting \union {order}
        BY <3>1 DEF Waiting
      <3>3. Cardinality(Open(after)) \in Nat /\ Open(after) # {}
        BY <2>2, NamedFinite DEF Open
      <3>4. after # <<>>
        BY <3>3 DEF Open
      <3>5. Times(counting, order) = 0 /\ counting' = counting
        BY <1>4, TimesOfNone
      <3>6. ASSUME NEW o \in Waiting'
            PROVE  /\ ops'[o].after # <<>>
                   /\ waiting'[o] = Cardinality({i \in DOMAIN ops'[o].after : ops'[o].after[i] \in DOMAIN dependents'})
                                    + Times(counting', o)
        <4>1. CASE o = order
          <5>1. Cardinality({i \in DOMAIN ops'[o].after : ops'[o].after[i] \in DOMAIN dependents'})
                  = Cardinality(Open(after))
            BY <1>13, <4>1
          <5>2. ops'[o].after = after /\ waiting'[o] = Cardinality(Open(after)) /\ Times(counting', o) = 0
            BY <1>2, <1>3, <3>1, <3>2, <3>5, <4>1
          <5> QED  BY <3>3, <3>4, <5>1, <5>2
        <4>2. CASE o \in Waiting
          BY <1>3, <1>8, <1>14, <2>1, <3>1, <3>2, <3>5, <4>2
        <4> QED  BY <3>2, <3>6, <4>1, <4>2
      <3>7. counting' = <<>>
        BY <1>4
      <3>8. Waiting' \subseteq Orders'
        BY <1>3, <1>8, <3>2
      <3> QED  BY <3>6, <3>7, <3>8 DEF WaitingFits, Open
    <2>3. CASE ~(Cardinality(Open(after)) > 0)
      <3>1. UNCHANGED waiting /\ Waiting' = Waiting /\ counting' = counting
        BY <2>3 DEF Queue, Waiting
      <3>2. ASSUME NEW o \in Waiting'
            PROVE  /\ ops'[o].after # <<>>
                   /\ waiting'[o] = Cardinality({i \in DOMAIN ops'[o].after : ops'[o].after[i] \in DOMAIN dependents'})
                                    + Times(counting', o)
        BY <1>8, <1>14, <2>1, <3>1, <3>2
      <3>3. counting' = <<>>
        BY <1>4
      <3>4. Waiting' \subseteq Orders'
        BY <1>3, <1>8, <3>1
      <3> QED  BY <3>2, <3>3, <3>4 DEF WaitingFits, Open
    <2> QED  BY <2>2, <2>3
  <1>16. Ready' \subseteq Ready \union {order} /\ (order \in Ready' => Open(after) = {})
    <2>1. Cardinality(Open(after)) > 0 <=> Open(after) # {}
      BY NamedFinite DEF Open
    <2>2. CASE Open(after) # {}
      <3>1. Ready' = Ready
        BY <2>1, <2>2 DEF Queue, Ready
      <3>2. Ready \subseteq Orders
        BY <1>8 DEF DependenciesInv, HomeInv, OneHome, HandsCover
      <3> QED  BY <1>3, <3>1, <3>2
    <2>3. CASE Open(after) = {}
      <3>1. MakeReady(order, p)
        BY <1>0, <2>1, <2>3 DEF Queue
      <3>2. tasks[p] \in Seq(Orders)
        BY <1>2 DEF TypeOK
      <3>3. tasks' = [tasks EXCEPT ![p] = Append(tasks[p], order)]
        BY <3>1 DEF MakeReady
      <3>4. \A q \in Priorities : RangeOf(tasks'[q]) \subseteq RangeOf(tasks[q]) \union {order}
        <4>1. Orders \subseteq Orders \union {order} /\ order \in Orders \union {order}
          OBVIOUS
        <4>2. tasks[p] \in Seq(Orders \union {order})
          BY <3>2, <4>1, SeqMonotone
        <4>3. RangeOf(Append(tasks[p], order)) = RangeOf(tasks[p]) \union {order}
          BY <4>1, <4>2, AppendFacts
        <4>4. \A q \in Priorities : tasks'[q] = IF q = p THEN Append(tasks[p], order) ELSE tasks[q]
          BY <1>2, <3>3 DEF TypeOK
        <4> QED  BY <4>3, <4>4
      <3>5. Ready' \subseteq Ready \union {order}
        BY <3>4 DEF Ready
      <3> QED  BY <2>3, <3>5
    <2> QED  BY <2>2, <2>3
  <1>17. \A x \in Orders : \A i \in DOMAIN ops'[x].after :
            /\ i \in DOMAIN ops[x].after /\ ops'[x].after[i] = ops[x].after[i]
            /\ results'[ops'[x].after[i]] = results[ops[x].after[i]]
    BY <1>3, <1>5
  <1>18. PendingKept'
    BY <1>9 DEF PendingKept, DependenciesInv, DependsFit, ResultsFit
  <1>19. ResultsFollow'
    <2>1. ASSUME NEW o \in Orders', ops'[o].result # NoResult
          PROVE  /\ results'[ops'[o].result] = "returned" => o \in started'
                 /\ results'[ops'[o].result] = "cancelled" => o \notin unfinished' /\ o \notin started'
      <3>1. CASE o = order
        <4>1. results'[ops'[o].result] = "pending"
          BY <1>2, <1>3, <2>1, <3>1
        <4> QED  BY <4>1
      <3>2. CASE o \in Orders
        <4>1. ops'[o] = ops[o] /\ results'[ops'[o].result] = results[ops[o].result] /\ o # order
          BY <1>3, <1>6, <2>1, <3>2
        <4> QED  BY <1>1, <2>1, <3>2, <4>1 DEF DependenciesInv, DependsFit, ResultsFit, ResultsFollow
      <3> QED  BY <1>3, <2>1, <3>1, <3>2
    <2> QED  BY <2>1 DEF ResultsFollow
  <1>20. FramesFollow'
    <2>1. CallsAsBefore
      BY DEF CallsAsBefore
    <2>2. ASSUME NEW w \in Workers, NEW i \in DOMAIN stack'[w],
                 stack'[w][i].phase \in {"run", "returned"}
          PROVE  LET id == ops[stack[w][i].task].result IN id # NoResult => results'[id] = results[id]
      <3>1. stack[w][i].task \in Orders
        <4>1. stack \in [Workers -> Seq(Frames)]
          BY <1>2 DEF TypeOK
        <4>2. stack[w][i] \in Frames /\ stack[w][i].task # NoTask
          BY <2>2, <4>1 DEF DependenciesInv, DependsFit, ResultsFit, FramesFollow
        <4> QED  BY <4>2 DEF Frames
      <3> QED  BY <1>6, <3>1
    <2> QED  BY <1>2, <1>3, <2>1, <2>2, CallsKept DEF DependenciesInv, DependsFit, ResultsFit
  <1>21. CancelsFit'
    <2>1. ASSUME NEW o \in Orders', NEW i \in DOMAIN ops'[o].after, results'[ops'[o].after[i]] = "cancelled"
          PROVE  o \notin started' /\ (o \in unfinished' => o \in removing')
      <3>1. CASE o = order
        BY <1>2, <1>3, <1>7, <2>1, <3>1 DEF AnyCancelled
      <3>2. CASE o \in Orders
        <4>1. Names(o, "cancelled") /\ o # order
          BY <1>3, <1>17, <2>1, <3>2 DEF Names
        <4> QED  BY <1>1, <3>2, <4>1 DEF DependenciesInv, DependsFit, CancelsFit
      <3> QED  BY <1>3, <2>1, <3>1, <3>2
    <2> QED  BY <1>4, <2>1 DEF CancelsFit, Names
  <1>22. RunsAfterAll'
    <2>1. ASSUME NEW o \in Ready' \union started', NEW i \in DOMAIN ops'[o].after
          PROVE  results'[ops'[o].after[i]] = "returned"
      <3>1. CASE o = order
        <4>1. o \in Ready'
          BY <1>3, <1>8, <2>1, <3>1
        <4>2. i \in DOMAIN after /\ after[i] \in Ids /\ after[i] \notin DOMAIN dependents
              /\ ops'[o].after[i] = after[i]
          BY <1>2, <1>3, <1>7, <1>16, <2>1, <3>1, <4>1 DEF Open
        <4>3. results[after[i]] \in States
          BY <1>2, <4>2, ResultFacts
        <4>4. results[after[i]] # "pending" /\ results[after[i]] # "cancelled"
          BY <4>2 DEF AnyCancelled, DependenciesInv, DependsFit, ResultsFit, PendingKept
        <4> QED  BY <4>2, <4>3, <4>4 DEF States
      <3>2. CASE o # order
        <4>1. o \in Ready \union started /\ o \in Orders
          <5>1. Ready \subseteq Orders
            BY <1>8 DEF DependenciesInv, HomeInv, OneHome, HandsCover
          <5> QED  BY <1>8, <1>16, <2>1, <3>2, <5>1
        <4> QED  BY <1>17, <2>1, <4>1 DEF DependenciesInv, DependsFit, RunsAfterAll
      <3> QED  BY <3>1, <3>2
    <2> QED  BY <2>1 DEF RunsAfterAll
  <1> QED  BY <1>10, <1>11, <1>15, <1>18, <1>19, <1>20, <1>21, <1>22 DEF DependsFit, ResultsFit

\* A step that leaves tasks, results and lists alone.
LEMMA DependsKept ==
    ASSUME DependenciesInv,
           UNCHANGED <<ops, results, dependents, unfinished, waiting, tasks, counting, removing, started>>,
           mutex' = mutex \/ counting = <<>>, CallsAsBefore
    PROVE  DependsFit'
  <1>1. Orders' = Orders /\ Ids' = Ids /\ Waiting' = Waiting /\ Ready' = Ready
    BY OpsKept, ResultsKept DEF Waiting, Ready
  <1>2. \A after : Open(after)' = {i \in DOMAIN after' : after'[i] \in DOMAIN dependents'}
    BY DEF Open
  <1>3. FramesFollow'
    BY CallsKept DEF DependenciesInv, DependsFit, ResultsFit, HomeInv
  <1>4. ResultsApart' /\ DependentsFit'
    BY <1>1 DEF DependenciesInv, DependsFit, ResultsApart, DependentsFit
  <1>5. WaitingFits'
    BY <1>1 DEF DependenciesInv, DependsFit, WaitingFits, Open
  <1>6. PendingKept' /\ ResultsFollow'
    BY <1>1 DEF DependenciesInv, DependsFit, ResultsFit, PendingKept, ResultsFollow
  <1>7. CancelsFit' /\ RunsAfterAll'
    BY <1>1 DEF DependenciesInv, DependsFit, CancelsFit, Names, RunsAfterAll
  <1> QED  BY <1>3, <1>4, <1>5, <1>6, <1>7 DEF DependsFit, ResultsFit

\* A result made cancelled is nobody's, and nobody named it yet.
LEMMA EnqueueCancelledDepends ==
    ASSUME DependenciesInv, NEW after \in AfterLists, EnqueueCancelled(after)
    PROVE  DependsFit'
  <1>1. /\ UNCHANGED <<ops, dependents, unfinished, waiting, tasks, counting, removing, started, mutex, stack>>
        /\ results' = Append(results, "cancelled")
    BY DEF EnqueueCancelled, workerVars
  <1>2. TypeOK /\ Orders' = Orders /\ Waiting' = Waiting /\ Ready' = Ready
    BY <1>1, OpsKept DEF DependenciesInv, HomeInv, Waiting, Ready
  <1>3. PICK new : new = Len(results) + 1
    OBVIOUS
  <1>4. /\ Ids' = Ids \union {new} /\ results'[new] = "cancelled"
        /\ \A id \in Ids : results'[id] = results[id]
    BY <1>1, <1>2, <1>3 DEF TypeOK, Ids, States
  <1>5. \A o \in Orders : /\ ops[o].result # NoResult => results'[ops[o].result] = results[ops[o].result]
                          /\ \A i \in DOMAIN ops[o].after : results'[ops[o].after[i]] = results[ops[o].after[i]]
    BY <1>2, <1>4, OpFacts, AfterFacts
  <1>6. ResultsApart' /\ DependentsFit' /\ WaitingFits'
    BY <1>1, <1>2 DEF DependenciesInv, DependsFit, ResultsApart, DependentsFit, WaitingFits, Open
  <1>7. PendingKept' /\ ResultsFollow'
    BY <1>1, <1>2, <1>4, <1>5 DEF DependenciesInv, DependsFit, ResultsFit, PendingKept, ResultsFollow
  <1>8. FramesFollow'
    <2>1. CallsAsBefore
      BY <1>1 DEF CallsAsBefore
    <2>2. ASSUME NEW w \in Workers, NEW i \in DOMAIN stack[w], stack[w][i].phase \in {"run", "returned"}
          PROVE  stack[w][i].task \in Orders
      <3>1. stack \in [Workers -> Seq(Frames)]
        BY <1>2 DEF TypeOK
      <3>2. stack[w][i] \in Frames /\ stack[w][i].task # NoTask
        BY <2>2, <3>1 DEF DependenciesInv, DependsFit, ResultsFit, FramesFollow
      <3> QED  BY <3>2 DEF Frames
    <2>3. \A w \in Workers : \A i \in DOMAIN stack'[w] : stack'[w][i].phase \in {"run", "returned"} =>
            LET id == ops[stack[w][i].task].result IN id # NoResult => results'[id] = results[id]
      BY <1>1, <1>5, <2>2
    <2>4. FramesFollow /\ \A o \in Orders : ops'[o] = ops[o]
      BY <1>1 DEF DependenciesInv, DependsFit, ResultsFit
    <2> QED  BY <1>2, <2>1, <2>3, <2>4, CallsKept
  <1>9. CancelsFit' /\ RunsAfterAll'
    <2>1. removing \subseteq Orders /\ Ready \union started \subseteq Orders
      BY <1>2 DEF TypeOK, DependenciesInv, HomeInv, OneHome, HandsCover
    <2>2. \A o \in Orders : (\E i \in DOMAIN ops'[o].after : results'[ops'[o].after[i]] = "cancelled")
                            <=> Names(o, "cancelled")
      BY <1>1, <1>5 DEF Names
    <2>3. CancelsFit
      BY DEF DependenciesInv, DependsFit
    <2>4. \A o \in Orders' : Names(o, "cancelled")' => o \notin started' /\ (o \in unfinished' => o \in removing')
      <3>1. \A o \in Orders : Names(o, "cancelled") => o \notin started /\ (o \in unfinished => o \in removing)
        BY <2>3 DEF CancelsFit
      <3> QED  BY <1>1, <1>2, <2>2, <3>1 DEF Names
    <2>5. \A o \in removing' : Names(o, "cancelled")' \/ (removing' = {o} /\ ops'[o].result # NoResult)
      <3>1. \A o \in removing : Names(o, "cancelled") \/ (removing = {o} /\ ops[o].result # NoResult)
        BY <2>3 DEF CancelsFit
      <3>2. \A o \in removing : o \in Orders
        BY <2>1
      <3>3. \A o \in removing : Names(o, "cancelled")' <=> Names(o, "cancelled")
        BY <2>2, <3>2 DEF Names
      <3> QED  BY <1>1, <3>1, <3>3
    <2>6. CancelsFit'
      BY <2>4, <2>5 DEF CancelsFit
    <2>7. RunsAfterAll'
      <3>1. \A o \in Ready \union started : \A i \in DOMAIN ops[o].after : results[ops[o].after[i]] = "returned"
        BY DEF DependenciesInv, DependsFit, RunsAfterAll
      <3>2. \A o \in Ready \union started : \A i \in DOMAIN ops[o].after :
              results'[ops[o].after[i]] = results[ops[o].after[i]]
        BY <1>5, <2>1
      <3>3. ops' = ops /\ Ready' \union started' = Ready \union started
        BY <1>1, <1>2
      <3>4. \A o \in Ready' \union started' : \A i \in DOMAIN ops'[o].after : results'[ops'[o].after[i]] = "returned"
        BY <3>1, <3>2, <3>3
      <3> QED  BY <3>4 DEF RunsAfterAll
    <2> QED  BY <2>6, <2>7
  <1> QED  BY <1>6, <1>7, <1>8, <1>9 DEF DependsFit, ResultsFit

\* cancel() takes one task out.
LEMMA CancelBeginDepends ==
    ASSUME DependenciesInv, NEW order \in Orders, CancelBegin(order)
    PROVE  DependsFit'
  <1>1. /\ UNCHANGED <<ops, results, dependents, unfinished, counting, started, stack>>
        /\ mutex = "free" /\ mutex' = "cancel" /\ removing' = {order} /\ ops[order].result # NoResult
    BY DEF CancelBegin, workerVars
  <1>2. TypeOK /\ removing = {} /\ counting = <<>>
    BY <1>1 DEF DependenciesInv, HomeInv, RemovingLocked, DependsFit, WaitingFits
  <1>3. Orders' = Orders /\ Ids' = Ids
    BY <1>1, OpsKept, ResultsKept
  <1>4. Waiting' \subseteq Waiting /\ \A o \in Waiting' : waiting'[o] = waiting[o]
    BY DEF CancelBegin, WithoutWaiting, Waiting
  <1>5. Ready' \subseteq Ready
    <2>1. CASE UNCHANGED tasks
      BY <2>1 DEF Ready
    <2>2. ASSUME NEW p \in Priorities, NEW i \in DOMAIN tasks[p],
                 tasks' = [tasks EXCEPT ![p] = RemoveAt(@, i)]
          PROVE  Ready' \subseteq Ready
      <3>1. PICK s : s = tasks[p]
        OBVIOUS
      <3>2. s \in Seq(Orders) /\ i \in DOMAIN s
        BY <1>2, <3>1 DEF TypeOK
      <3>3. \A j \in DOMAIN RemoveAt(s, i) : \E k \in DOMAIN s : RemoveAt(s, i)[j] = s[k]
        BY <3>2, RemoveAtFacts
      <3>4. RangeOf(RemoveAt(s, i)) \subseteq RangeOf(s)
        BY <3>3 DEF RangeOf
      <3>5. \A q \in Priorities : tasks'[q] = IF q = p THEN RemoveAt(s, i) ELSE tasks[q]
        BY <1>2, <2>2, <3>1 DEF TypeOK
      <3>6. \A q \in Priorities : RangeOf(tasks'[q]) \subseteq RangeOf(tasks[q])
        BY <3>1, <3>4, <3>5
      <3> QED  BY <3>6 DEF Ready
    <2> QED  BY <2>1, <2>2 DEF CancelBegin
  <1>6. FramesFollow'
    <2>1. CallsAsBefore
      BY <1>1 DEF CallsAsBefore
    <2> QED  BY <1>1, <1>2, <2>1, CallsKept DEF DependenciesInv, DependsFit, ResultsFit
  <1>7. ResultsApart' /\ DependentsFit'
    BY <1>1, <1>3 DEF DependenciesInv, DependsFit, ResultsApart, DependentsFit
  <1>8. WaitingFits'
    BY <1>1, <1>2, <1>4 DEF DependenciesInv, DependsFit, WaitingFits, Open
  <1>9. PendingKept' /\ ResultsFollow'
    BY <1>1, <1>3 DEF DependenciesInv, DependsFit, ResultsFit, PendingKept, ResultsFollow
  <1>10. CancelsFit' /\ RunsAfterAll'
    BY <1>1, <1>2, <1>3, <1>5 DEF DependenciesInv, DependsFit, CancelsFit, Names, RunsAfterAll
  <1> QED  BY <1>6, <1>7, <1>8, <1>9, <1>10 DEF DependsFit, ResultsFit

\* Who names a result the queue keeps dependents for is among them.
LEMMA NamersAreListed ==
    ASSUME DependenciesInv, NEW id \in DOMAIN dependents, NEW o \in Orders
    PROVE  o \in RangeOf(dependents[id]) <=> id \in RangeOf(ops[o].after)
  <1>1. dependents[id] \in Seq(Orders) /\ ops[o].after \in Seq(Ids)
    BY OpFacts DEF DependenciesInv, HomeInv, TypeOK
  <1>2. Times(dependents[id], o) = Times(ops[o].after, id)
    BY DEF DependenciesInv, DependsFit, DependentsFit
  <1>3. Times(dependents[id], o) = 0 <=> o \notin RangeOf(dependents[id])
    BY <1>1, TimesFacts
  <1>4. Times(ops[o].after, id) = 0 <=> id \notin RangeOf(ops[o].after)
    BY <1>1, TimesFacts
  <1> QED  BY <1>2, <1>3, <1>4

\* Each turn of cancel()'s loop cancels the result of one task, if it has one, and
\* takes those that wait to run after it.
LEMMA CancelStepDepends ==
    ASSUME DependenciesInv, NEW order \in Orders, CancelStep(order)
    PROVE  DependsFit'
  <1>1. PICK id : id = ops[order].result
    OBVIOUS
  <1>2. /\ UNCHANGED <<mutex, ops, tasks, counting, stack, started>>
        /\ mutex = "cancel" /\ order \in removing /\ unfinished' = unfinished \ {order}
    BY DEF CancelStep, workerVars
  <1>3. /\ TypeOK /\ Orders' = Orders /\ Ready' = Ready
        /\ unfinished = Ready \union Waiting \union Running \union removing
        /\ order \notin started /\ order \in unfinished /\ Running \subseteq started
        /\ unfinished \subseteq Orders /\ started \subseteq Orders
    BY <1>2, OpsKept
    DEF DependenciesInv, HomeInv, TypeOK, OneHome, HandsCover, StartedOnce, Ready
  <1>4. \A o \in Orders : \A i \in DOMAIN ops[o].after : ops[o].after[i] \in Ids
    BY <1>3, AfterFacts
  <1>5. \A o \in Orders : ops[o].result = id /\ id # NoResult => o = order
    BY <1>1 DEF DependenciesInv, DependsFit, ResultsApart
  <1>6. ResultsApart'
    BY <1>2, <1>3 DEF DependenciesInv, DependsFit, ResultsApart
  <1>7. CASE id = NoResult
    <2>1. UNCHANGED <<results, dependents, waiting>> /\ removing' = removing \ {order}
      BY <1>1, <1>7 DEF CancelStep
    <2>2. Ids' = Ids /\ Waiting' = Waiting
      BY <2>1, ResultsKept DEF Waiting
    <2>3. DependentsFit'
      <3>1. {ops[o].result : o \in unfinished} \ {NoResult} = {ops[o].result : o \in unfinished'} \ {NoResult}
        BY <1>1, <1>2, <1>7
      <3> QED  BY <1>2, <1>3, <2>1, <3>1 DEF DependenciesInv, DependsFit, DependentsFit
    <2>4. WaitingFits' /\ PendingKept'
      BY <1>2, <2>1, <2>2
      DEF DependenciesInv, DependsFit, WaitingFits, ResultsFit, PendingKept, Open
    <2>5. ResultsFollow'
      BY <1>2, <1>3, <2>1 DEF DependenciesInv, DependsFit, ResultsFit, ResultsFollow
    <2>6. FramesFollow'
      BY <1>2, <2>1 DEF DependenciesInv, DependsFit, ResultsFit, FramesFollow
    <2>7. CancelsFit'
      BY <1>1, <1>2, <1>3, <1>7, <2>1 DEF DependenciesInv, DependsFit, CancelsFit, Names
    <2>8. RunsAfterAll'
      BY <1>2, <1>3, <2>1 DEF DependenciesInv, DependsFit, RunsAfterAll
    <2> QED  BY <1>6, <2>3, <2>4, <2>5, <2>6, <2>7, <2>8 DEF DependsFit, ResultsFit
  <1>8. CASE id # NoResult
    <2> DEFINE taken == Followers(id)
    <2>1. /\ removing' = (removing \ {order}) \union taken
          /\ results' = [results EXCEPT ![id] = IF @ = "pending" THEN "cancelled" ELSE @]
          /\ dependents' = WithoutDependents(id)
          /\ waiting' = WithoutWaiting(taken)
      BY <1>1, <1>8 DEF CancelStep
    <2>2. id \in Ids /\ id \in DOMAIN dependents /\ results[id] = "pending"
      <3>1. id \in Ids /\ results[id] \in States
        BY <1>1, <1>3, <1>8, OpFacts, ResultFacts
      <3>2. id \in DOMAIN dependents
        BY <1>1, <1>3, <1>8 DEF DependenciesInv, DependsFit, DependentsFit
      <3>3. results[id] # "returned" /\ results[id] # "cancelled"
        BY <1>1, <1>3, <1>8 DEF DependenciesInv, DependsFit, ResultsFit, ResultsFollow
      <3> QED  BY <3>1, <3>2, <3>3 DEF States
    <2>3. /\ Ids' = Ids /\ results'[id] = "cancelled"
          /\ \A x : x # id => results'[x] = results[x]
      BY <1>3, <2>1, <2>2 DEF Ids, TypeOK
    <2>4. /\ taken = RangeOf(dependents[id]) \intersect Waiting
          /\ DOMAIN dependents' = DOMAIN dependents \ {id}
          /\ \A x \in DOMAIN dependents' : dependents'[x] = dependents[x]
          /\ Waiting' = Waiting \ taken /\ \A o \in Waiting' : waiting'[o] = waiting[o]
      BY <2>1, <2>2 DEF Followers, WithoutDependents, WithoutWaiting, Waiting
    <2> HIDE DEF taken
    <2>5. \A o \in Orders : o \in RangeOf(dependents[id]) <=> id \in RangeOf(ops[o].after)
      BY <2>2, NamersAreListed
    <2>6. DependentsFit'
      <3>1. {ops[o].result : o \in unfinished'} \ {NoResult} = ({ops[o].result : o \in unfinished} \ {NoResult}) \ {id}
        BY <1>1, <1>2, <1>3, <1>5, <1>8
      <3>2. DOMAIN dependents = {ops[o].result : o \in unfinished} \ {NoResult}
        BY DEF DependenciesInv, DependsFit, DependentsFit
      <3>3. \A x \in DOMAIN dependents, o \in Orders : Times(dependents[x], o) = Times(ops[o].after, x)
        BY DEF DependenciesInv, DependsFit, DependentsFit
      <3>4. \A x \in DOMAIN dependents', o \in Orders : Times(dependents'[x], o) = Times(ops[o].after, x)
        BY <2>4, <3>3
      <3>5. DOMAIN dependents' = {ops'[o].result : o \in unfinished'} \ {NoResult}
        <4>1. ops' = ops
          BY <1>2
        <4> QED  BY <2>4, <3>1, <3>2, <4>1, ZenonT(60)
      <3>6. \A x \in DOMAIN dependents', o \in Orders' : Times(dependents'[x], o) = Times(ops'[o].after, x)
        BY <1>2, <1>3, <3>4
      <3> QED  BY <3>5, <3>6 DEF DependentsFit
    <2>7. WaitingFits'
      <3>1. ASSUME NEW o \in Waiting'
            PROVE  {i \in DOMAIN ops[o].after : ops[o].after[i] \in DOMAIN dependents'} = Open(ops[o].after)
        <4>1. o \in Orders /\ o \in Waiting /\ o \notin RangeOf(dependents[id])
          BY <1>3, <2>4, <3>1
        <4>2. \A i \in DOMAIN ops[o].after : ops[o].after[i] # id
          BY <2>5, <4>1 DEF RangeOf
        <4> QED  BY <2>4, <4>2 DEF Open
      <3>2. \A o \in Waiting : /\ ops[o].after # <<>>
                               /\ waiting[o] = Cardinality(Open(ops[o].after)) + Times(counting, o)
        BY DEF DependenciesInv, DependsFit, WaitingFits
      <3>3. counting = <<>>
        BY <1>2 DEF DependenciesInv, DependsFit, WaitingFits
      <3> QED  BY <1>2, <2>4, <3>1, <3>2, <3>3 DEF WaitingFits, Open
    <2>8. PendingKept'
      BY <2>3, <2>4 DEF DependenciesInv, DependsFit, ResultsFit, PendingKept
    <2>9. ResultsFollow'
      <3>1. ASSUME NEW o \in Orders, ops[o].result # NoResult
            PROVE  /\ results'[ops[o].result] = "returned" => o \in started
                   /\ results'[ops[o].result] = "cancelled" => o \notin unfinished' /\ o \notin started
        <4>1. CASE o = order
          BY <1>1, <1>2, <1>3, <2>3, <4>1
        <4>2. CASE o # order
          <5>1. results'[ops[o].result] = results[ops[o].result]
            BY <1>5, <1>8, <2>3, <4>2
          <5> QED  BY <1>2, <3>1, <5>1 DEF DependenciesInv, DependsFit, ResultsFit, ResultsFollow
        <4> QED  BY <4>1, <4>2
      <3> QED  BY <1>2, <1>3, <3>1 DEF ResultsFollow
    <2>10. FramesFollow'
      <3>1. \A w \in Workers : \A i \in DOMAIN stack[w] :
              stack[w][i].phase \in {"run", "returned"} => stack[w][i].task \in Running
        BY RunningIs DEF DependenciesInv, DependsFit, ResultsFit, FramesFollow
      <3>2. \A w \in Workers : \A i \in DOMAIN stack[w] :
              stack[w][i].phase \in {"run", "returned"} => ops[stack[w][i].task].result # id
        BY <1>3, <1>5, <1>8, <3>1
      <3>3. \A w \in Workers : \A i \in DOMAIN stack'[w] : stack'[w][i].phase \in {"run", "returned"} =>
              LET x == ops[stack[w][i].task].result IN x # NoResult => results'[x] = results[x]
        BY <1>2, <2>3, <3>2
      <3>4. CallsAsBefore /\ FramesFollow /\ \A o \in Orders : ops'[o] = ops[o]
        BY <1>2 DEF CallsAsBefore, DependenciesInv, DependsFit, ResultsFit
      <3> QED  BY <1>3, <3>3, <3>4, CallsKept
    <2>11. CancelsFit'
      <3>1. \A o \in Orders : (\E i \in DOMAIN ops'[o].after : results'[ops'[o].after[i]] = "cancelled")
                              <=> Names(o, "cancelled") \/ id \in RangeOf(ops[o].after)
        <4>1. \A o \in Orders : \A i \in DOMAIN ops[o].after :
                results'[ops[o].after[i]] = "cancelled" <=> results[ops[o].after[i]] = "cancelled" \/ ops[o].after[i] = id
          BY <2>2, <2>3
        <4> QED  BY <1>2, <4>1 DEF Names, RangeOf
      <3>2. ASSUME NEW o \in Orders, Names(o, "cancelled") \/ id \in RangeOf(ops[o].after)
            PROVE  o \notin started /\ (o \in unfinished' => o \in removing')
        <4>1. CASE Names(o, "cancelled")
          BY <1>2, <2>1, <4>1 DEF DependenciesInv, DependsFit, CancelsFit
        <4>2. CASE id \in RangeOf(ops[o].after)
          <5>1. PICK i \in DOMAIN ops[o].after : ops[o].after[i] = id
            BY <4>2 DEF RangeOf
          <5>2. o \notin Ready \union started
            BY <2>2, <5>1 DEF DependenciesInv, DependsFit, RunsAfterAll
          <5>3. o \in RangeOf(dependents[id])
            BY <2>5, <4>2
          <5> QED  BY <1>2, <1>3, <2>1, <2>4, <5>2, <5>3
        <4> QED  BY <3>2, <4>1, <4>2
      <3>3. ASSUME NEW o \in removing'
            PROVE  o \in Orders /\ (Names(o, "cancelled") \/ id \in RangeOf(ops[o].after))
        <4>1. CASE o \in taken
          BY <1>3, <2>4, <2>5, <4>1
        <4>2. CASE o \in removing /\ o # order
          BY <1>2, <1>3, <4>2 DEF DependenciesInv, DependsFit, CancelsFit
        <4> QED  BY <2>1, <3>3, <4>1, <4>2
      <3>4. \A o \in Orders' : Names(o, "cancelled")' => o \notin started' /\ (o \in unfinished' => o \in removing')
        BY <1>2, <1>3, <3>1, <3>2 DEF Names
      <3>5. \A o \in removing' : \E i \in DOMAIN ops'[o].after : results'[ops'[o].after[i]] = "cancelled"
        BY <3>1, <3>3
      <3>6. \A o \in removing' : Names(o, "cancelled")'
        BY <3>5 DEF Names
      <3> QED  BY <3>4, <3>6 DEF CancelsFit
    <2>12. RunsAfterAll'
      <3>1. \A o \in Ready \union started : \A i \in DOMAIN ops[o].after : results[ops[o].after[i]] = "returned"
        BY DEF DependenciesInv, DependsFit, RunsAfterAll
      <3>2. \A o \in Ready \union started : \A i \in DOMAIN ops[o].after : results'[ops[o].after[i]] = "returned"
        BY <2>2, <2>3, <3>1
      <3>3. ops' = ops /\ Ready' \union started' = Ready \union started
        BY <1>2, <1>3
      <3>4. \A o \in Ready' \union started' : \A i \in DOMAIN ops'[o].after : results'[ops'[o].after[i]] = "returned"
        BY <3>2, <3>3
      <3> QED  BY <3>4 DEF RunsAfterAll
    <2> QED  BY <1>6, <2>6, <2>7, <2>8, <2>9, <2>10, <2>11, <2>12 DEF DependsFit, ResultsFit
  <1> QED  BY <1>7, <1>8

\* A task taken to be run has no result yet.
LEMMA TakeDepends ==
    ASSUME DependenciesInv, NEW w \in Workers, Take(w)
    PROVE  DependsFit'
  <1>1. PICK p \in Priorities :
          /\ tasks[p] # <<>>
          /\ tasks' = [tasks EXCEPT ![p] = Tail(@)]
          /\ Becomes(w, [Top(w) EXCEPT !.phase = "run", !.task = Head(tasks[p])])
          /\ started' = started \union {Head(tasks[p])}
    BY DEF Take, Foremost
  <1>2. PICK o : o = Head(tasks[p])
    OBVIOUS
  <1>3. PICK f : f = [Top(w) EXCEPT !.phase = "run", !.task = o]
    OBVIOUS
  <1>4. /\ UNCHANGED <<mutex, ops, unfinished, results, dependents, waiting, counting, removing>>
        /\ Busy(w) /\ Becomes(w, f) /\ started' = started \union {o}
    BY <1>1, <1>2, <1>3 DEF Take, At
  <1>5. TypeOK /\ Orders' = Orders /\ Ids' = Ids /\ Waiting' = Waiting
    BY <1>4, OpsKept, ResultsKept DEF DependenciesInv, HomeInv, Waiting
  <1>6. f.task = o /\ f.phase = "run"
    <2>1. stack \in [Workers -> Seq(Frames)]
      BY <1>5 DEF TypeOK
    <2>2. Top(w) \in Frames
      BY <1>4, <2>1 DEF Top, Busy
    <2> QED  BY <1>3, <2>2 DEF Frames
  <1>7. o \in Orders /\ o \in Ready /\ Ready' \subseteq Ready
    <2>1. PICK s : s = tasks[p]
      OBVIOUS
    <2>2. s \in Seq(Orders) /\ s # <<>>
      BY <1>1, <1>5, <2>1 DEF TypeOK
    <2>3. o \in Orders /\ o \in RangeOf(s) /\ RangeOf(Tail(s)) \subseteq RangeOf(s)
      BY <1>2, <2>1, <2>2, HeadTailFacts
    <2>4. \A q \in Priorities : tasks'[q] = IF q = p THEN Tail(s) ELSE tasks[q]
      BY <1>1, <1>5, <2>1 DEF TypeOK
    <2>5. \A q \in Priorities : RangeOf(tasks'[q]) \subseteq RangeOf(tasks[q])
      BY <2>1, <2>3, <2>4
    <2> QED  BY <2>1, <2>3, <2>5 DEF Ready
  <1>8. o \in unfinished /\ o \notin started /\ o # NoTask
    BY <1>7 DEF DependenciesInv, HomeInv, OneHome, HandsCover, StartedOnce, Orders, NoTask
  <1>9. ops[o].result # NoResult => results[ops[o].result] = "pending"
    <2>1. ops[o].result # NoResult => results[ops[o].result] \in States
      BY <1>5, <1>7, OpFacts, ResultFacts
    <2>2. ops[o].result # NoResult => results[ops[o].result] # "returned" /\ results[ops[o].result] # "cancelled"
      BY <1>7, <1>8 DEF DependenciesInv, DependsFit, ResultsFit, ResultsFollow
    <2> QED  BY <2>1, <2>2 DEF States
  <1>10. ResultsApart' /\ DependentsFit'
    BY <1>4, <1>5 DEF DependenciesInv, DependsFit, ResultsApart, DependentsFit
  <1>11. WaitingFits'
    BY <1>4, <1>5 DEF DependenciesInv, DependsFit, WaitingFits, Open
  <1>12. PendingKept' /\ ResultsFollow'
    <2>1. PendingKept'
      BY <1>4, <1>5 DEF DependenciesInv, DependsFit, ResultsFit, PendingKept
    <2>2. ASSUME NEW x \in Orders, ops[x].result # NoResult
          PROVE  /\ results[ops[x].result] = "returned" => x \in started'
                 /\ results[ops[x].result] = "cancelled" => x \notin unfinished /\ x \notin started'
      BY <1>4, <1>8, <2>2 DEF DependenciesInv, DependsFit, ResultsFit, ResultsFollow
    <2> QED  BY <1>4, <1>5, <2>1, <2>2 DEF ResultsFollow
  <1>13. FramesFollow'
    <2>1. /\ \A v \in Workers : DOMAIN stack'[v] = DOMAIN stack[v]
          /\ \A v \in Workers : \A i \in DOMAIN stack[v] :
               stack'[v][i] = IF v = w /\ i = Len(stack[w]) THEN f ELSE stack[v][i]
      BY <1>4, <1>5, BecomesFacts
    <2>2. ops' = ops /\ results' = results
      BY <1>4
    <2>3. ASSUME NEW v \in Workers, NEW i \in DOMAIN stack'[v], stack'[v][i].phase \in {"run", "returned"}
          PROVE  LET id == ops[stack'[v][i].task].result
                 IN  /\ stack'[v][i].task # NoTask
                     /\ id # NoResult =>
                          results[id] = IF stack'[v][i].phase = "run" THEN "pending" ELSE "returned"
      <3>1. CASE stack'[v][i] = f
        BY <1>6, <1>8, <1>9, <3>1
      <3>2. CASE stack'[v][i] = stack[v][i]
        BY <2>1, <2>3, <3>2 DEF DependenciesInv, DependsFit, ResultsFit, FramesFollow
      <3> QED  BY <2>1, <3>1, <3>2
    <2> QED  BY <2>2, <2>3 DEF FramesFollow
  <1>14. RunsAfterAll'
    <2>1. \A x \in Ready \union started : \A i \in DOMAIN ops[x].after : results[ops[x].after[i]] = "returned"
      BY DEF DependenciesInv, DependsFit, RunsAfterAll
    <2>2. Ready' \union started' \subseteq Ready \union started
      BY <1>4, <1>7
    <2> QED  BY <1>4, <2>1, <2>2 DEF RunsAfterAll
  <1>15. CancelsFit'
    <2>1. ~Names(o, "cancelled")
      BY <1>7 DEF DependenciesInv, DependsFit, RunsAfterAll, Names
    <2>2. \A x \in Orders : Names(x, "cancelled") => x \notin started' /\ (x \in unfinished => x \in removing)
      BY <1>4, <2>1 DEF DependenciesInv, DependsFit, CancelsFit
    <2> QED  BY <1>4, <1>5, <2>2 DEF DependenciesInv, DependsFit, CancelsFit, Names
  <1> QED  BY <1>10, <1>11, <1>12, <1>13, <1>14, <1>15 DEF DependsFit, ResultsFit

\* A task's call returns, and fills in its result if it has one.
LEMMA ReturnDepends ==
    ASSUME DependenciesInv, NEW w \in Workers, Return(w)
    PROVE  DependsFit'
  <1>1. PICK o : o = Top(w).task
    OBVIOUS
  <1>2. PICK id : id = ops[o].result
    OBVIOUS
  <1>3. PICK f : f = [Top(w) EXCEPT !.phase = "returned"]
    OBVIOUS
  <1>4. PICK n : n = Len(stack[w])
    OBVIOUS
  <1>5. /\ UNCHANGED <<mutex, ops, unfinished, dependents, waiting, tasks, counting, removing, started>>
        /\ Busy(w) /\ Top(w).phase = "run" /\ Becomes(w, f)
        /\ results' = IF id # NoResult /\ results[id] = "pending"
                        THEN [results EXCEPT ![id] = "returned"] ELSE results
    BY <1>1, <1>2, <1>3 DEF Return, At
  <1>6. TypeOK /\ Orders' = Orders /\ Waiting' = Waiting /\ Ready' = Ready
    BY <1>5, OpsKept DEF DependenciesInv, HomeInv, Waiting, Ready
  <1>7. /\ n \in DOMAIN stack[w] /\ stack[w][n] \in Frames
        /\ stack[w][n].task = o /\ stack[w][n].phase = "run"
        /\ f.task = o /\ f.phase = "returned"
    <2>1. stack \in [Workers -> Seq(Frames)]
      BY <1>6 DEF TypeOK
    <2>2. n \in DOMAIN stack[w] /\ Top(w) = stack[w][n] /\ Top(w) \in Frames
      BY <1>4, <1>5, <2>1 DEF Top, Busy
    <2> QED  BY <1>1, <1>3, <1>5, <2>2 DEF Frames
  <1>8. o # NoTask /\ (id # NoResult => results[id] = "pending")
    BY <1>2, <1>7 DEF DependenciesInv, DependsFit, ResultsFit, FramesFollow
  <1>9. o \in Orders /\ o \in Running /\ o \in started /\ id \in Ids \union {NoResult}
    <2>1. o \in Orders
      BY <1>7, <1>8 DEF Frames
    <2>2. o \in Running
      BY <1>7, <1>8, RunningIs
    <2> QED  BY <1>2, <1>6, <2>1, <2>2, OpFacts DEF DependenciesInv, HomeInv, OneHome, StartedOnce
  <1>10. /\ Ids' = Ids
         /\ id # NoResult => results'[id] = "returned"
         /\ \A x : x # id => results'[x] = results[x]
         /\ \A x : results'[x] = "pending" => results[x] = "pending"
         /\ \A x \in Ids : results'[x] = "cancelled" <=> results[x] = "cancelled"
         /\ \A x \in Ids : results[x] = "returned" => results'[x] = "returned"
    <2>1. CASE id = NoResult
      BY <1>5, <2>1 DEF Ids
    <2>2. CASE id # NoResult
      <3>1. results' = [results EXCEPT ![id] = "returned"] /\ id \in DOMAIN results
        BY <1>5, <1>6, <1>8, <1>9, <2>2, ResultFacts
      <3>2. results'[id] = "returned" /\ \A x : x # id => results'[x] = results[x]
        BY <3>1
      <3>3. Ids' = Ids
        BY <1>6, <3>1 DEF Ids, TypeOK
      <3> QED  BY <1>8, <2>2, <3>2, <3>3
    <2> QED  BY <2>1, <2>2
  <1>11. \A x \in Orders : /\ ops[x].result \in Ids \union {NoResult}
                           /\ \A i \in DOMAIN ops[x].after : ops[x].after[i] \in Ids
    BY <1>6, OpFacts, AfterFacts
  <1>12. ResultsApart' /\ DependentsFit'
    BY <1>5, <1>6 DEF DependenciesInv, DependsFit, ResultsApart, DependentsFit
  <1>13. WaitingFits'
    BY <1>5, <1>6 DEF DependenciesInv, DependsFit, WaitingFits, Open
  <1>14. PendingKept'
    BY <1>5, <1>10 DEF DependenciesInv, DependsFit, ResultsFit, PendingKept
  <1>15. ResultsFollow'
    <2>1. ASSUME NEW x \in Orders, ops[x].result # NoResult
          PROVE  /\ results'[ops[x].result] = "returned" => x \in started
                 /\ results'[ops[x].result] = "cancelled" => x \notin unfinished /\ x \notin started
      <3>1. CASE ops[x].result = id
        <4>1. x = o
          BY <1>2, <1>9, <2>1, <3>1 DEF DependenciesInv, DependsFit, ResultsApart
        <4> QED  BY <1>9, <1>10, <2>1, <3>1, <4>1
      <3>2. CASE ops[x].result # id
        <4>1. results'[ops[x].result] = results[ops[x].result]
          BY <1>10, <3>2
        <4> QED  BY <2>1, <4>1 DEF DependenciesInv, DependsFit, ResultsFit, ResultsFollow
      <3> QED  BY <3>1, <3>2
    <2> QED  BY <1>5, <1>6, <2>1 DEF ResultsFollow
  <1>16. FramesFollow'
    <2>1. /\ \A v \in Workers : DOMAIN stack'[v] = DOMAIN stack[v]
          /\ \A v \in Workers : \A i \in DOMAIN stack[v] :
               stack'[v][i] = IF v = w /\ i = n THEN f ELSE stack[v][i]
      BY <1>4, <1>5, <1>6, BecomesFacts
    <2>2. ops' = ops
      BY <1>5
    <2>3. ASSUME NEW v \in Workers, NEW i \in DOMAIN stack'[v], stack'[v][i].phase \in {"run", "returned"}
          PROVE  LET x == ops[stack'[v][i].task].result
                 IN  /\ stack'[v][i].task # NoTask
                     /\ x # NoResult =>
                          results'[x] = IF stack'[v][i].phase = "run" THEN "pending" ELSE "returned"
      <3>1. CASE v = w /\ i = n
        BY <1>2, <1>7, <1>8, <1>10, <2>1, <3>1
      <3>2. CASE ~(v = w /\ i = n)
        <4>1. i \in DOMAIN stack[v] /\ stack'[v][i] = stack[v][i]
          BY <2>1, <3>2
        <4>2. /\ stack[v][i].task # NoTask
              /\ LET x == ops[stack[v][i].task].result
                 IN  x # NoResult => results[x] = IF stack[v][i].phase = "run" THEN "pending" ELSE "returned"
          BY <2>3, <4>1 DEF DependenciesInv, DependsFit, ResultsFit, FramesFollow
        <4>3. stack[v][i].task # o
          BY <1>7, <3>2, <4>1, <4>2 DEF DependenciesInv, HomeInv, OneHome, FramesApart
        <4>4. stack[v][i].task \in Orders
          <5>1. stack \in [Workers -> Seq(Frames)]
            BY <1>6 DEF TypeOK
          <5>2. stack[v][i] \in Frames
            BY <4>1, <5>1
          <5> QED  BY <4>2, <5>2 DEF Frames
        <4>5. ops[stack[v][i].task].result # NoResult => ops[stack[v][i].task].result # id
          BY <1>2, <1>9, <4>3, <4>4 DEF DependenciesInv, DependsFit, ResultsApart
        <4> QED  BY <1>10, <4>1, <4>2, <4>5
      <3> QED  BY <3>1, <3>2
    <2> QED  BY <2>2, <2>3 DEF FramesFollow
  <1>17. CancelsFit'
    <2>1. \A x \in Orders : (\E i \in DOMAIN ops'[x].after : results'[ops'[x].after[i]] = "cancelled")
                            <=> Names(x, "cancelled")
      BY <1>5, <1>10, <1>11 DEF Names
    <2>2. removing \subseteq Orders /\ CancelsFit
      BY <1>6 DEF TypeOK, DependenciesInv, DependsFit
    <2>3. \A x \in Orders' : Names(x, "cancelled")' => x \notin started' /\ (x \in unfinished' => x \in removing')
      BY <1>5, <1>6, <2>1, <2>2 DEF Names, CancelsFit
    <2>4. \A x \in removing : (\E i \in DOMAIN ops'[x].after : results'[ops'[x].after[i]] = "cancelled")
                              \/ (removing = {x} /\ ops[x].result # NoResult)
      BY <2>1, <2>2 DEF CancelsFit
    <2>5. \A x \in removing' : Names(x, "cancelled")' \/ (removing' = {x} /\ ops'[x].result # NoResult)
      BY <1>5, <2>4 DEF Names
    <2> QED  BY <2>3, <2>5 DEF CancelsFit
  <1>18. RunsAfterAll'
    <2>1. \A x \in Ready \union started : \A i \in DOMAIN ops[x].after : results[ops[x].after[i]] = "returned"
      BY DEF DependenciesInv, DependsFit, RunsAfterAll
    <2>2. Ready \union started \subseteq Orders
      BY <1>6 DEF TypeOK, DependenciesInv, HomeInv, OneHome, HandsCover
    <2>3. \A x \in Ready \union started : \A i \in DOMAIN ops[x].after : results'[ops[x].after[i]] = "returned"
      BY <1>10, <1>11, <2>1, <2>2
    <2>4. ops' = ops /\ Ready' \union started' = Ready \union started
      BY <1>5, <1>6
    <2>5. \A x \in Ready' \union started' : \A i \in DOMAIN ops'[x].after : results'[ops'[x].after[i]] = "returned"
      BY <2>3, <2>4
    <2> QED  BY <2>5 DEF RunsAfterAll
  <1> QED  BY <1>12, <1>13, <1>14, <1>15, <1>16, <1>17, <1>18 DEF DependsFit, ResultsFit

\* The places of a task's list that are open are those of the result just taken out,
\* as many as times it was listed under it, and the others.
LEMMA OpenWithout ==
    ASSUME DependenciesInv, NEW id \in DOMAIN dependents, NEW o \in Orders
    PROVE  Cardinality(Open(ops[o].after)) =
             Cardinality({i \in DOMAIN ops[o].after : ops[o].after[i] \in DOMAIN dependents \ {id}})
             + Times(dependents[id], o)
  <1> DEFINE s == ops[o].after
             A == {i \in DOMAIN s : s[i] \in DOMAIN dependents \ {id}}
             B == {i \in DOMAIN s : s[i] = id}
  <1>1. s \in Seq(Ids)
    BY OpFacts DEF DependenciesInv, HomeInv
  <1>2. IsFiniteSet(1..Len(s)) /\ DOMAIN s = 1..Len(s)
    BY <1>1, FS_Interval
  <1>3. /\ IsFiniteSet(A) /\ Cardinality(A) \in Nat
        /\ IsFiniteSet(B) /\ Cardinality(B) \in Nat
    BY <1>2, FS_Subset, FS_CardinalityType
  <1>4. A \union B = Open(s) /\ A \intersect B = {}
    <2>1. \A i : i \in A \union B <=> i \in Open(s)
      BY DEF Open
    <2>2. \A i : ~(i \in A /\ i \in B)
      OBVIOUS
    <2> HIDE DEF A, B
    <2> QED  BY <2>1, <2>2
  <1>5. Cardinality(B) = Times(dependents[id], o)
    BY DEF DependenciesInv, DependsFit, DependentsFit, Times
  <1> HIDE DEF A, B, s
  <1>6. Cardinality(A \union B) = Cardinality(A) + Cardinality(B) - Cardinality(A \intersect B)
    BY <1>3, FS_Union
  <1>7. Cardinality(A \intersect B) = 0
    BY <1>4, FS_EmptySet
  <1>8. Cardinality(Open(s)) = Cardinality(A) + Cardinality(B)
    <2>1. Cardinality(Open(s)) = Cardinality(A \union B)
      BY <1>4
    <2> QED  BY <1>3, <1>6, <1>7, <2>1
  <1> QED  BY <1>5, <1>8 DEF A, s

\* done() takes the dependents of the task's result out, to be counted off.
LEMMA DoneDepends ==
    ASSUME DependenciesInv, NEW w \in Workers, Done(w)
    PROVE  DependsFit'
  <1>1. PICK o : o = Top(w).task
    OBVIOUS
  <1>2. PICK id : id = ops[o].result
    OBVIOUS
  <1>3. PICK f : f = [Top(w) EXCEPT !.phase = "count", !.task = NoTask]
    OBVIOUS
  <1>4. PICK n : n = Len(stack[w])
    OBVIOUS
  <1>5. /\ UNCHANGED <<ops, results, waiting, tasks, removing, started>>
        /\ mutex = "free" /\ mutex' = "done"
        /\ Busy(w) /\ Top(w).phase = "returned" /\ Becomes(w, f)
        /\ unfinished' = unfinished \ {o}
        /\ counting' = IF id \in DOMAIN dependents THEN dependents[id] ELSE <<>>
        /\ dependents' = WithoutDependents(id)
    BY <1>1, <1>2, <1>3 DEF Done, At
  <1>6. TypeOK /\ Orders' = Orders /\ Ids' = Ids /\ Waiting' = Waiting /\ Ready' = Ready
    BY <1>5, OpsKept, ResultsKept DEF DependenciesInv, HomeInv, Waiting, Ready
  <1>7. /\ n \in DOMAIN stack[w] /\ stack[w][n] \in Frames
        /\ stack[w][n].task = o /\ stack[w][n].phase = "returned"
        /\ f.phase = "count"
    <2>1. stack \in [Workers -> Seq(Frames)]
      BY <1>6 DEF TypeOK
    <2>2. n \in DOMAIN stack[w] /\ Top(w) = stack[w][n] /\ Top(w) \in Frames
      BY <1>4, <1>5, <2>1 DEF Top, Busy
    <2> QED  BY <1>1, <1>3, <1>5, <2>2 DEF Frames
  <1>8. o # NoTask /\ (id # NoResult => results[id] = "returned")
    BY <1>2, <1>7 DEF DependenciesInv, DependsFit, ResultsFit, FramesFollow
  <1>9. o \in Orders /\ o \in unfinished /\ NoResult \notin DOMAIN dependents /\ Waiting \subseteq Orders
    <2>1. o \in Orders
      BY <1>7, <1>8 DEF Frames
    <2>2. o \in Running
      BY <1>7, <1>8, RunningIs
    <2> QED  BY <1>6, <2>1, <2>2, NoIdIsNone DEF TypeOK, DependenciesInv, HomeInv, OneHome, HandsCover
  <1>10. \A x \in Orders : ops[x].result = id /\ id # NoResult => x = o
    BY <1>2, <1>9 DEF DependenciesInv, DependsFit, ResultsApart
  <1>11. /\ DOMAIN dependents' = DOMAIN dependents \ {id}
         /\ \A x \in DOMAIN dependents' : dependents'[x] = dependents[x]
    BY <1>5 DEF WithoutDependents
  <1>12. ResultsApart'
    BY <1>5, <1>6 DEF DependenciesInv, DependsFit, ResultsApart
  <1>13. DependentsFit'
    <2>1. {ops[x].result : x \in unfinished'} \ {NoResult} = ({ops[x].result : x \in unfinished} \ {NoResult}) \ {id}
      <3>1. unfinished \subseteq Orders
        BY <1>6 DEF TypeOK
      <3> QED  BY <1>2, <1>5, <1>9, <1>10, <3>1
    <2>2. DOMAIN dependents = {ops[x].result : x \in unfinished} \ {NoResult}
      BY DEF DependenciesInv, DependsFit, DependentsFit
    <2>3. \A x \in DOMAIN dependents, y \in Orders : Times(dependents[x], y) = Times(ops[y].after, x)
      BY DEF DependenciesInv, DependsFit, DependentsFit
    <2>4. ops' = ops
      BY <1>5
    <2>5. DOMAIN dependents' = {ops'[x].result : x \in unfinished'} \ {NoResult}
      BY <1>11, <2>1, <2>2, <2>4
    <2>6. \A x \in DOMAIN dependents', y \in Orders' : Times(dependents'[x], y) = Times(ops'[y].after, x)
      BY <1>6, <1>11, <2>3, <2>4
    <2> QED  BY <2>5, <2>6 DEF DependentsFit
  <1>14. WaitingFits'
    <2>1. counting = <<>>
      BY <1>5 DEF DependenciesInv, DependsFit, WaitingFits
    <2>2. ASSUME NEW x \in Waiting
          PROVE  waiting[x] = Cardinality({i \in DOMAIN ops[x].after : ops[x].after[i] \in DOMAIN dependents'})
                              + Times(counting', x)
      <3>1. waiting[x] = Cardinality(Open(ops[x].after)) + Times(counting, x)
        BY DEF DependenciesInv, DependsFit, WaitingFits
      <3>2. Times(<<>>, x) = 0
        BY TimesOfNone
      <3>3. IsFiniteSet(Open(ops[x].after)) /\ Cardinality(Open(ops[x].after)) \in Nat
        <4>1. ops[x].after \in Seq(Ids)
          BY <1>6, <1>9, OpFacts
        <4>2. IsFiniteSet(1..Len(ops[x].after)) /\ DOMAIN ops[x].after = 1..Len(ops[x].after)
          BY <4>1, FS_Interval
        <4>3. Open(ops[x].after) \subseteq DOMAIN ops[x].after
          BY DEF Open
        <4> QED  BY <4>2, <4>3, FS_Subset, FS_CardinalityType
      <3>4. CASE id \in DOMAIN dependents
        <4>1. counting' = dependents[id] /\ DOMAIN dependents' = DOMAIN dependents \ {id}
          BY <1>5, <1>11, <3>4
        <4>2. Cardinality(Open(ops[x].after)) =
                Cardinality({i \in DOMAIN ops[x].after : ops[x].after[i] \in DOMAIN dependents \ {id}})
                + Times(dependents[id], x)
          BY <1>9, <3>4, OpenWithout
        <4> QED  BY <2>1, <3>1, <3>2, <3>3, <4>1, <4>2
      <3>5. CASE id \notin DOMAIN dependents
        <4>1. counting' = <<>> /\ DOMAIN dependents' = DOMAIN dependents
          BY <1>5, <1>11, <3>5
        <4> QED  BY <2>1, <3>1, <3>2, <3>3, <4>1 DEF Open
      <3> QED  BY <3>4, <3>5
    <2>3. \A x \in Waiting : ops[x].after # <<>>
      BY DEF DependenciesInv, DependsFit, WaitingFits
    <2> QED  BY <1>5, <1>6, <2>2, <2>3 DEF WaitingFits, Open
  <1>15. PendingKept'
    BY <1>5, <1>6, <1>8, <1>9, <1>11 DEF DependenciesInv, DependsFit, ResultsFit, PendingKept
  <1>16. ResultsFollow'
    BY <1>5, <1>6 DEF DependenciesInv, DependsFit, ResultsFit, ResultsFollow
  <1>17. FramesFollow'
    <2>1. /\ \A v \in Workers : DOMAIN stack'[v] = DOMAIN stack[v]
          /\ \A v \in Workers : \A i \in DOMAIN stack[v] :
               stack'[v][i] = IF v = w /\ i = n THEN f ELSE stack[v][i]
      BY <1>4, <1>5, <1>6, BecomesFacts
    <2>2. CallsAsBefore
      BY <1>7, <2>1 DEF CallsAsBefore
    <2> QED  BY <1>5, <1>6, <2>2, CallsKept DEF DependenciesInv, DependsFit, ResultsFit
  <1>18. CancelsFit' /\ RunsAfterAll'
    BY <1>5, <1>6 DEF DependenciesInv, DependsFit, CancelsFit, Names, RunsAfterAll
  <1> QED  BY <1>12, <1>13, <1>14, <1>15, <1>16, <1>17, <1>18 DEF DependsFit, ResultsFit

\* Each turn of done()'s loop takes one off the count of the task at its head, and
\* makes it ready when nothing it named is open or still to be counted off.
LEMMA CountOffDepends ==
    ASSUME DependenciesInv, NEW w \in Workers, CountOff(w)
    PROVE  DependsFit'
  <1>1. PICK o : o = Head(counting)
    OBVIOUS
  <1>2. /\ UNCHANGED <<mutex, ops, unfinished, results, dependents, removing, started, stack>>
        /\ counting # <<>> /\ counting' = Tail(counting) /\ At(w, "count")
    BY DEF CountOff
  <1>3. TypeOK /\ Orders' = Orders /\ Ids' = Ids /\ counting \in Seq(Orders) /\ o \in Orders
    BY <1>1, <1>2, OpsKept, ResultsKept, HeadTailFacts DEF DependenciesInv, HomeInv, TypeOK
  <1>4. mutex = "done" /\ removing = {}
    <2>1. stack \in [Workers -> Seq(Frames)]
      BY <1>3 DEF TypeOK
    <2>2. Len(stack[w]) \in DOMAIN stack[w] /\ stack[w][Len(stack[w])].phase = "count"
      BY <1>2, <2>1 DEF At, Busy, Top
    <2>3. mutex = "done"
      BY <2>2 DEF DependenciesInv, HomeInv, FramesOK, CountingLocked
    <2> QED  BY <2>3 DEF DependenciesInv, HomeInv, RemovingLocked
  <1>5. \A x : Times(counting, x) = Times(counting', x) + (IF x = o THEN 1 ELSE 0)
    BY <1>1, <1>2, <1>3, TimesOfTail
  <1>6. \A x : Times(counting', x) \in Nat
    <2>1. counting' \in Seq(Orders)
      BY <1>2, <1>3, HeadTailFacts
    <2> QED  BY <2>1, TimesFacts
  <1>7. ASSUME NEW x \in Waiting
        PROVE  /\ ops[x].after # <<>> /\ x \in Orders
               /\ waiting[x] = Cardinality(Open(ops[x].after)) + Times(counting, x)
               /\ IsFiniteSet(Open(ops[x].after)) /\ Cardinality(Open(ops[x].after)) \in Nat
    <2>1. x \in Orders
      BY <1>3 DEF TypeOK
    <2>2. ops[x].after \in Seq(Ids)
      BY <1>3, <2>1, OpFacts
    <2>3. IsFiniteSet(1..Len(ops[x].after)) /\ DOMAIN ops[x].after = 1..Len(ops[x].after)
      BY <2>2, FS_Interval
    <2>4. Open(ops[x].after) \subseteq DOMAIN ops[x].after
      BY DEF Open
    <2>5. IsFiniteSet(Open(ops[x].after)) /\ Cardinality(Open(ops[x].after)) \in Nat
      BY <2>3, <2>4, FS_Subset, FS_CardinalityType
    <2> QED  BY <2>1, <2>5 DEF DependenciesInv, DependsFit, WaitingFits
  <1>8. WaitingFits'
    <2>1. \A x \in Waiting' : /\ x \in Waiting
                              /\ waiting'[x] = IF x = o THEN waiting[x] - 1 ELSE waiting[x]
      <3>1. CASE o \in Waiting /\ waiting' = WithoutWaiting({o})
        BY <3>1 DEF WithoutWaiting, Waiting
      <3>2. CASE o \in Waiting /\ waiting' = [waiting EXCEPT ![o] = @ - 1]
        BY <3>2 DEF Waiting
      <3>3. CASE o \notin Waiting /\ UNCHANGED waiting
        BY <3>3 DEF Waiting
      <3> QED  BY <1>1, <3>1, <3>2, <3>3 DEF CountOff
    <2>2. ASSUME NEW x \in Waiting'
          PROVE  ops[x].after # <<>> /\ waiting'[x] = Cardinality(Open(ops[x].after)) + Times(counting', x)
      <3>1. x \in Waiting /\ waiting'[x] = IF x = o THEN waiting[x] - 1 ELSE waiting[x]
        BY <2>1
      <3> QED  BY <1>5, <1>6, <1>7, <3>1
    <2>3. \A x : {i \in DOMAIN ops'[x].after : ops'[x].after[i] \in DOMAIN dependents'} = Open(ops[x].after)
      BY <1>2 DEF Open
    <2> QED  BY <1>2, <1>4, <2>2, <2>3 DEF WaitingFits, Open
  <1>9. ResultsApart' /\ DependentsFit' /\ CancelsFit'
    BY <1>2, <1>3 DEF DependenciesInv, DependsFit, ResultsApart, DependentsFit, CancelsFit, Names
  <1>10. ResultsFit'
    <2>1. PendingKept' /\ ResultsFollow'
      BY <1>2, <1>3 DEF DependenciesInv, DependsFit, ResultsFit, PendingKept, ResultsFollow
    <2>2. FramesFollow'
      BY <1>2 DEF DependenciesInv, DependsFit, ResultsFit, FramesFollow
    <2> QED  BY <2>1, <2>2 DEF ResultsFit
  <1>11. RunsAfterAll'
    <2>1. \A x \in Ready \union started : \A i \in DOMAIN ops[x].after : results[ops[x].after[i]] = "returned"
      BY DEF DependenciesInv, DependsFit, RunsAfterAll
    <2>2. CASE UNCHANGED tasks
      BY <1>2, <2>1, <2>2 DEF RunsAfterAll, Ready
    <2>3. CASE o \in Waiting /\ waiting[o] = 1 /\ MakeReady(o, ops[o].priority)
      <3>1. Cardinality(Open(ops[o].after)) = 0
        BY <1>5, <1>6, <1>7, <2>3
      <3>2. Open(ops[o].after) = {}
        BY <1>7, <2>3, <3>1, FS_EmptySet
      <3>3. \A i \in DOMAIN ops[o].after : results[ops[o].after[i]] = "returned"
        <4>1. SUFFICES ASSUME NEW i \in DOMAIN ops[o].after PROVE results[ops[o].after[i]] = "returned"
          OBVIOUS
        <4>2. ops[o].after[i] \in Ids /\ ops[o].after[i] \notin DOMAIN dependents
          BY <1>3, <3>2, AfterFacts DEF Open
        <4>3. results[ops[o].after[i]] \in States /\ results[ops[o].after[i]] # "pending"
          BY <1>3, <4>2, ResultFacts DEF DependenciesInv, DependsFit, ResultsFit, PendingKept
        <4>4. o \in unfinished
          BY <2>3 DEF DependenciesInv, HomeInv, OneHome, HandsCover
        <4>5. results[ops[o].after[i]] # "cancelled"
          BY <1>3, <1>4, <4>4 DEF DependenciesInv, DependsFit, CancelsFit, Names
        <4> QED  BY <4>3, <4>5 DEF States
      <3>4. Ready' = Ready \union {o}
        <4>1. o \notin Ready
          BY <2>3 DEF DependenciesInv, HomeInv, OneHome, HandsApart
        <4>2. /\ ops[o].priority \in Priorities /\ \A x \in Orders : ops'[x] = ops[x]
              /\ ops'[o].priority = ops[o].priority /\ o \in Orders' /\ ListsApart
          BY <1>2, <1>3, OpFacts DEF DependenciesInv, HomeInv, OneHome
        <4> QED  BY <1>3, <2>3, <4>1, <4>2, MadeReadyHome
      <3>5. \A x \in Ready' \union started' : \A i \in DOMAIN ops'[x].after : results'[ops'[x].after[i]] = "returned"
        BY <1>2, <2>1, <3>3, <3>4
      <3> QED  BY <3>5 DEF RunsAfterAll
    <2> QED  BY <1>1, <2>2, <2>3 DEF CountOff, LastRemaining
  <1> QED  BY <1>8, <1>9, <1>10, <1>11 DEF DependsFit

\* Steps of a worker that neither take a task nor return from one nor count one off.
QuietStep(w) ==
    \/ StartItem(w) \/ Pump(w) \/ TakeNone(w) \/ DoneEnd(w) \/ Check(w) \/ Leave(w) \/ UserReturn(w)
    \/ EndLoop(w) \/ ThreadEnd(w) \/ PostOwn(w) \/ PostOther(w) \/ QuitEarly(w)

LEMMA BecomesCalls ==
    ASSUME TypeOK, NEW w \in Workers, Busy(w), NEW f, Becomes(w, f),
           f.phase \in {"run", "returned"} => f.phase = Top(w).phase /\ f.task = Top(w).task
    PROVE  CallsAsBefore
  <1>1. /\ Len(stack[w]) \in DOMAIN stack[w]
        /\ \A v \in Workers : DOMAIN stack'[v] = DOMAIN stack[v]
        /\ \A v \in Workers : \A i \in DOMAIN stack[v] :
             stack'[v][i] = IF v = w /\ i = Len(stack[w]) THEN f ELSE stack[v][i]
    BY BecomesFacts
  <1>2. Top(w) = stack[w][Len(stack[w])]
    BY DEF Top
  <1> QED  BY <1>1, <1>2 DEF CallsAsBefore

LEMMA QuietCalls ==
    ASSUME TypeOK, NEW w \in Workers, QuietStep(w)
    PROVE  CallsAsBefore
  <1>1. Busy(w) => Top(w) \in Frames
    <2>1. stack \in [Workers -> Seq(Frames)]
      BY DEF TypeOK
    <2> QED  BY <2>1 DEF Busy, Top
  <1>2. ASSUME Busy(w), Pop(w)
        PROVE  CallsAsBefore
    BY <1>2, PopFacts DEF CallsAsBefore
  <1>3. ASSUME Busy(w), NEW phase, phase \notin {"run", "returned"},
               Becomes(w, [Top(w) EXCEPT !.phase = phase])
        PROVE  CallsAsBefore
    <2>1. PICK f : f = [Top(w) EXCEPT !.phase = phase]
      OBVIOUS
    <2>2. f.phase = phase
      BY <1>1, <1>3, <2>1 DEF Frames
    <2> QED  BY <1>3, <2>1, <2>2, BecomesCalls
  <1>4. CASE StartItem(w)
    <2>1. FrameOf(Head(loop[w])).phase \notin {"run", "returned"}
      BY DEF FrameOf
    <2> QED  BY <1>4, <2>1, StartFacts, ZenonT(60) DEF CallsAsBefore
  <1>5. CASE Pump(w)
    <2>1. PICK f : f = [Top(w) EXCEPT !.drain = Len(loop[w])]
      OBVIOUS
    <2>2. Busy(w) /\ Becomes(w, f)
      BY <1>5, <2>1 DEF Pump, InUserCode, At
    <2>3. f.phase = Top(w).phase /\ f.task = Top(w).task
      BY <1>1, <2>1, <2>2 DEF Frames
    <2> QED  BY <2>2, <2>3, BecomesCalls
  <1>6. CASE TakeNone(w)
    <2>1. Busy(w) /\ (Pop(w) \/ Becomes(w, [Top(w) EXCEPT !.phase = "check"]))
      BY <1>6 DEF TakeNone, At
    <2>2. "check" \notin {"run", "returned"}
      OBVIOUS
    <2> QED  BY <1>2, <1>3, <2>1, <2>2
  <1>7. CASE Check(w)
    <2>1. Busy(w) /\ (Pop(w) \/ Becomes(w, [Top(w) EXCEPT !.phase = "leave"]))
      BY <1>7 DEF Check, At
    <2>2. "leave" \notin {"run", "returned"}
      OBVIOUS
    <2> QED  BY <1>2, <1>3, <2>1, <2>2
  <1>8. CASE DoneEnd(w)
    <2>1. Busy(w) /\ Becomes(w, [Top(w) EXCEPT !.phase = "take"])
      BY <1>8 DEF DoneEnd, At
    <2>2. "take" \notin {"run", "returned"}
      OBVIOUS
    <2> QED  BY <1>3, <2>1, <2>2
  <1>9. CASE Leave(w) \/ UserReturn(w)
    BY <1>2, <1>9 DEF Leave, UserReturn, At
  <1>10. CASE EndLoop(w) \/ ThreadEnd(w) \/ PostOwn(w) \/ PostOther(w) \/ QuitEarly(w)
    BY <1>10 DEF EndLoop, ThreadEnd, PostOwn, PostOther, Post, QuitEarly, CallsAsBefore
  <1> QED  BY <1>4, <1>5, <1>6, <1>7, <1>8, <1>9, <1>10 DEF QuietStep

\* What such a step leaves as it was.
LEMMA QuietKeeps ==
    ASSUME NEW w \in Workers, QuietStep(w)
    PROVE  /\ UNCHANGED <<accepting, ops, results, dependents, unfinished, waiting, tasks,
                          counting, removing, started>>
           /\ mutex' = mutex \/ (counting = <<>> /\ mutex' = "free" /\ DoneEnd(w))
           /\ client' = client \/ DoneEnd(w)
  <1>1. CASE StartItem(w) \/ Pump(w) \/ Check(w) \/ Leave(w) \/ UserReturn(w)
    BY <1>1 DEF StartItem, Pump, Check, Leave, UserReturn, queueVars
  <1>2. CASE TakeNone(w)
    BY <1>2 DEF TakeNone
  <1>3. CASE DoneEnd(w)
    BY <1>3 DEF DoneEnd, queueVars
  <1>4. CASE EndLoop(w) \/ ThreadEnd(w) \/ PostOwn(w) \/ PostOther(w) \/ QuitEarly(w)
    BY <1>4 DEF EndLoop, ThreadEnd, PostOwn, PostOther, Post, QuitEarly, queueVars
  <1> QED  BY <1>1, <1>2, <1>3, <1>4 DEF QuietStep

\* A waiting call changes no task, result or list.
LEMMA ClientKeeps ==
    ASSUME NEW c \in Clients, ClientNext(c) \/ ClientCall(c)
    PROVE  UNCHANGED <<mutex, ops, unfinished, results, dependents, waiting, tasks, sweeping, counting,
                       removing, quitting, life, stack, posts, started, early>>
  <1>1. CASE WaitBegin(c) \/ ShutdownBegin(c)
    BY <1>1 DEF WaitBegin, ShutdownBegin, queueVars, workerVars
  <1>2. CASE WaitCheck(c) \/ WaitTimeout(c)
    BY <1>2 DEF WaitCheck, WaitTimeout, queueVars, workerVars
  <1>3. CASE ShutdownJoined(c) \/ ShutdownTimeout(c)
    BY <1>3 DEF ShutdownJoined, ShutdownTimeout, queueVars, workerVars
  <1>4. CASE ResultBegin(c) \/ ResultCheck(c) \/ ResultTimeout(c)
    BY <1>4 DEF ResultBegin, ResultCheck, ResultTimeout, queueVars, workerVars
  <1> QED  BY <1>1, <1>2, <1>3, <1>4 DEF ClientNext, ClientCall

LEMMA CallerDepends ==
    ASSUME DependenciesInv, CallerNext \/ CancelNext
    PROVE  DependsFit'
  <1>1. TypeOK /\ NoResult \notin Ids
    BY NoIdIsNone DEF DependenciesInv, HomeInv
  <1>2. ASSUME NEW p \in Priorities, NEW after \in AfterLists, Submit(p, after)
        PROVE  DependsFit'
    <2>1. /\ UNCHANGED <<mutex, results, counting, removing, stack, started>> /\ mutex = "free"
          /\ ~AnyCancelled(after) /\ Queue(p, after, NoResult)
      BY <1>2 DEF Submit
    <2>2. Ids' = Ids \union ({NoResult} \ {NoResult})
      BY <2>1, ResultsKept
    <2> QED  BY <1>1, <2>1, <2>2, QueueDepends
  <1>3. ASSUME NEW p \in Priorities, NEW after \in AfterLists, Enqueue(p, after)
        PROVE  DependsFit'
    <2>1. PICK new : new = Len(results) + 1
      OBVIOUS
    <2>2. /\ UNCHANGED <<mutex, counting, removing, stack, started>> /\ mutex = "free"
          /\ ~AnyCancelled(after) /\ Queue(p, after, new) /\ results' = Append(results, "pending")
      BY <1>3, <2>1 DEF Enqueue
    <2>3. /\ Ids' = Ids \union {new} /\ new \notin Ids /\ new # NoResult
          /\ results'[new] = "pending" /\ \A id \in Ids : results'[id] = results[id]
      BY <1>1, <2>1, <2>2 DEF TypeOK, Ids, States, NoResult
    <2>4. Ids' = Ids \union ({new} \ {NoResult})
      BY <2>3
    <2> QED  BY <2>2, <2>3, <2>4, QueueDepends
  <1>4. CASE Stop \/ CancelEnd
    <2>1. /\ UNCHANGED <<ops, results, dependents, unfinished, waiting, tasks, counting, removing, started, stack>>
          /\ mutex' = mutex \/ mutex = "cancel"
      BY <1>4 DEF Stop, CancelEnd, queueVars, workerVars
    <2>2. mutex' = mutex \/ counting = <<>>
      BY <2>1 DEF DependenciesInv, DependsFit, WaitingFits
    <2>3. CallsAsBefore
      BY <2>1 DEF CallsAsBefore
    <2> QED  BY <2>1, <2>2, <2>3, DependsKept
  <1> QED  BY <1>2, <1>3, <1>4, EnqueueCancelledDepends, CancelBeginDepends, CancelStepDepends
           DEF CallerNext, CancelNext

LEMMA DependsInit == Init => DependenciesInv
  <1> SUFFICES ASSUME Init PROVE DependenciesInv
    OBVIOUS
  <1>1. Orders = {} /\ Ids = {} /\ Waiting = {} /\ Ready = {}
    BY DEF Init, Orders, Ids, Waiting, Ready, RangeOf
  <1>2. ResultsApart /\ DependentsFit /\ WaitingFits
    BY <1>1 DEF Init, ResultsApart, DependentsFit, WaitingFits
  <1>3. ResultsFit
    BY <1>1 DEF Init, ResultsFit, PendingKept, ResultsFollow, FramesFollow
  <1>4. CancelsFit /\ RunsAfterAll
    BY <1>1 DEF Init, CancelsFit, RunsAfterAll
  <1> QED  BY <1>2, <1>3, <1>4, HomeInit DEF DependenciesInv, DependsFit

LEMMA DependsStep == DependenciesInv /\ [Next]_vars => DependenciesInv'
  <1> SUFFICES ASSUME DependenciesInv, [Next]_vars PROVE DependsFit'
    BY HomeStep DEF DependenciesInv
  <1>1. CASE CallerNext \/ CancelNext
    BY <1>1, CallerDepends
  <1>2. ASSUME NEW w \in Workers, WorkerNext(w) \/ UserNext(w)
        PROVE  DependsFit'
    <2>1. CASE QuietStep(w)
      <3>1. CallsAsBefore
        BY <2>1, QuietCalls DEF DependenciesInv, HomeInv
      <3> QED  BY <2>1, <3>1, QuietKeeps, DependsKept
    <2> QED  BY <1>2, <2>1, TakeDepends, ReturnDepends, DoneDepends, CountOffDepends
             DEF WorkerNext, UserNext, QuietStep
  <1>3. ASSUME NEW c \in Clients, ClientNext(c) \/ ClientCall(c)
        PROVE  DependsFit'
    <2>1. CallsAsBefore
      BY <1>3, ClientKeeps DEF CallsAsBefore
    <2> QED  BY <1>3, <2>1, ClientKeeps, DependsKept
  <1>4. CASE UNCHANGED vars
    <2>1. CallsAsBefore
      BY <1>4 DEF vars, CallsAsBefore
    <2> QED  BY <1>4, <2>1, DependsKept DEF vars
  <1> QED  BY <1>1, <1>2, <1>3, <1>4 DEF Next

LEMMA DependenciesAlways == Spec => []DependenciesInv
  BY DependsInit, DependsStep, PTL DEF Spec

\* "A task given results in operation_options::after starts only once every one of
\* them has returned", the counts of _waiting and the lists of _dependents are what is
\* still to come, and cancel() leaves nothing behind that follows what it cancelled:
\* for any tasks, naming one another in any order and as often as they like.
THEOREM DependenciesAreKept == Spec => []DependenciesHold
  <1>1. DependenciesInv => DependenciesHold
    <2> SUFFICES ASSUME DependenciesInv PROVE DependenciesHold
      OBVIOUS
    <2>1. TypeOK
      BY DEF DependenciesInv, HomeInv
    <2>2. CountsMatch
      <3> SUFFICES ASSUME mutex = "free" PROVE CountsMatch
        BY DEF CountsMatch
      <3>1. counting = <<>>
        BY DEF DependenciesInv, DependsFit, WaitingFits
      <3>2. DOMAIN dependents = {ops[o].result : o \in unfinished} \ {NoResult}
        BY DEF DependenciesInv, DependsFit, DependentsFit
      <3>3. ASSUME NEW o \in Waiting
            PROVE  waiting[o] = Cardinality(Open(ops[o].after))
        <4>1. waiting[o] = Cardinality(Open(ops[o].after)) + Times(counting, o)
          BY DEF DependenciesInv, DependsFit, WaitingFits
        <4>2. Times(counting, o) = 0
          BY <3>1, TimesOfNone
        <4>3. IsFiniteSet(Open(ops[o].after))
          <5>1. ops[o].after \in Seq(Ids)
            BY <2>1, OpFacts DEF TypeOK
          <5>2. IsFiniteSet(1..Len(ops[o].after)) /\ DOMAIN ops[o].after = 1..Len(ops[o].after)
            BY <5>1, FS_Interval
          <5>3. Open(ops[o].after) \subseteq DOMAIN ops[o].after
            BY DEF Open
          <5> QED  BY <5>2, <5>3, FS_Subset
        <4>4. Cardinality(Open(ops[o].after)) \in Nat
          BY <4>3, FS_CardinalityType
        <4> QED  BY <4>1, <4>2, <4>4
      <3> QED  BY <3>2, <3>3 DEF CountsMatch
    <2>3. CancelledTogether
      <3> SUFFICES ASSUME mutex # "cancel", NEW o \in Orders
                   PROVE  LET own == ops[o].result # NoResult /\ results[ops[o].result] = "cancelled"
                          IN  /\ Names(o, "cancelled") \/ own => o \notin unfinished /\ o \notin started
                              /\ Names(o, "cancelled") /\ ops[o].result # NoResult => own
        BY DEF CancelledTogether, Names
      <3>1. removing = {}
        BY DEF DependenciesInv, HomeInv, RemovingLocked
      <3>2. Names(o, "cancelled") => o \notin unfinished /\ o \notin started
        BY <3>1 DEF DependenciesInv, DependsFit, CancelsFit
      <3>3. ops[o].result # NoResult /\ results[ops[o].result] = "cancelled" => o \notin unfinished /\ o \notin started
        BY DEF DependenciesInv, DependsFit, ResultsFit, ResultsFollow
      <3>4. ASSUME Names(o, "cancelled"), ops[o].result # NoResult
            PROVE  results[ops[o].result] = "cancelled"
        <4>1. ops[o].result \in Ids /\ results[ops[o].result] \in States
          BY <2>1, <3>4, OpFacts, ResultFacts
        <4>2. results[ops[o].result] # "returned"
          BY <3>2, <3>4 DEF DependenciesInv, DependsFit, ResultsFit, ResultsFollow
        <4>3. results[ops[o].result] # "pending"
          <5>1. unfinished \subseteq Orders
            BY <2>1 DEF TypeOK
          <5>2. ops[o].result \notin DOMAIN dependents
            BY <3>2, <3>4, <5>1 DEF DependenciesInv, DependsFit, DependentsFit, ResultsApart
          <5> QED  BY <4>1, <5>2 DEF DependenciesInv, DependsFit, ResultsFit, PendingKept
        <4> QED  BY <4>1, <4>2, <4>3 DEF States
      <3> QED  BY <3>2, <3>3, <3>4
    <2> QED  BY <2>2, <2>3 DEF DependenciesHold, DependenciesInv, DependsFit
  <1> QED  BY <1>1, DependenciesAlways, PTL

-----------------------------------------------------------------------------
(* The order tasks start in.                                               *)

\* Of one priority, the tasks that wait for no other are in the order they were accepted.
ListsInOrder ==
    \A p \in Priorities : \A i, j \in DOMAIN tasks[p] :
        i < j /\ ops[tasks[p][i]].after = <<>> /\ ops[tasks[p][j]].after = <<>>
            => tasks[p][i] < tasks[p][j]

OrderInv == DependenciesInv /\ ListsInOrder

\* Last in its list goes a task accepted last, or one that had others to wait for.
LEMMA AppendInOrder ==
    ASSUME TypeOK, ListsInOrder, NEW p \in Priorities, NEW o,
           tasks' = [tasks EXCEPT ![p] = Append(@, o)],
           \A x \in Orders : ops'[x] = ops[x],
           ops'[o].after # <<>> \/ \A x \in Orders : x < o
    PROVE  ListsInOrder'
  <1>1. PICK s : s = tasks[p]
    OBVIOUS
  <1>2. s \in Seq(Orders) /\ s \in Seq(Orders \union {o})
    <2>1. s \in Seq(Orders)
      BY <1>1 DEF TypeOK
    <2> QED  BY <2>1, SeqMonotone
  <1>3. \A q \in Priorities : tasks'[q] = IF q = p THEN Append(s, o) ELSE tasks[q]
    BY <1>1 DEF TypeOK
  <1>4. /\ DOMAIN Append(s, o) = DOMAIN s \union {Len(s) + 1} /\ Len(s) \in Nat
        /\ \A i \in DOMAIN s : Append(s, o)[i] = s[i] /\ i < Len(s) + 1 /\ s[i] \in Orders
        /\ Append(s, o)[Len(s) + 1] = o
    BY <1>2
  <1>5. ASSUME NEW q \in Priorities, NEW i \in DOMAIN tasks'[q], NEW j \in DOMAIN tasks'[q],
               i < j, ops'[tasks'[q][i]].after = <<>>, ops'[tasks'[q][j]].after = <<>>
        PROVE  tasks'[q][i] < tasks'[q][j]
    <2>1. CASE q # p
      <3>1. tasks'[q] = tasks[q] /\ tasks[q][i] \in Orders /\ tasks[q][j] \in Orders
        BY <1>3, <1>5, <2>1 DEF TypeOK
      <3> QED  BY <1>5, <3>1 DEF ListsInOrder
    <2>2. CASE q = p
      <3>1. tasks'[q] = Append(s, o) /\ i \in DOMAIN s
        <4>1. tasks'[q] = Append(s, o)
          BY <1>3, <2>2
        <4>2. i # Len(s) + 1
          <5>1. j \in DOMAIN s \/ j = Len(s) + 1
            BY <1>4, <1>5, <4>1
          <5>2. j \in Nat /\ j <= Len(s) + 1
            BY <1>2, <1>4, <5>1
          <5> QED  BY <1>4, <1>5, <5>2
        <4> QED  BY <1>4, <1>5, <4>1, <4>2
      <3>2. s[i] \in Orders /\ ops[s[i]].after = <<>> /\ Append(s, o)[i] = s[i]
        BY <1>4, <1>5, <3>1
      <3>3. CASE j = Len(s) + 1
        BY <1>4, <1>5, <3>1, <3>2, <3>3
      <3>4. CASE j \in DOMAIN s
        <4>1. ops[s[j]].after = <<>> /\ Append(s, o)[j] = s[j]
          BY <1>4, <1>5, <3>1, <3>4
        <4> QED  BY <1>1, <1>5, <3>1, <3>2, <3>4, <4>1 DEF ListsInOrder
      <3> QED  BY <1>4, <1>5, <3>1, <3>3, <3>4
    <2> QED  BY <2>1, <2>2
  <1> QED  BY <1>5 DEF ListsInOrder

\* A list that loses tasks keeps the order of the others.
LEMMA ShorterInOrder ==
    ASSUME TypeOK, ListsInOrder, UNCHANGED ops, NEW p \in Priorities, NEW t, NEW i \in DOMAIN tasks[p],
           tasks' = [tasks EXCEPT ![p] = t],
           \A j \in DOMAIN t : /\ j \in DOMAIN tasks[p] /\ j + 1 \in DOMAIN tasks[p]
                               /\ t[j] = IF j < i THEN tasks[p][j] ELSE tasks[p][j + 1]
    PROVE  ListsInOrder'
  <1>1. \A q \in Priorities : tasks'[q] = IF q = p THEN t ELSE tasks[q]
    BY DEF TypeOK
  <1>2. \A j \in DOMAIN tasks[p] : j \in Nat
    BY DEF TypeOK
  <1> DEFINE from(j) == IF j < i THEN j ELSE j + 1
  <1>3. \A j \in DOMAIN t : from(j) \in DOMAIN tasks[p] /\ t[j] = tasks[p][from(j)]
    OBVIOUS
  <1>4. \A j, k \in DOMAIN t : j < k => from(j) < from(k)
    BY <1>2
  <1> HIDE DEF from
  <1>5. \A j, k \in DOMAIN t : j < k /\ ops[t[j]].after = <<>> /\ ops[t[k]].after = <<>> => t[j] < t[k]
    BY <1>3, <1>4 DEF ListsInOrder
  <1> QED  BY <1>1, <1>5 DEF ListsInOrder

LEMMA OrderStep == OrderInv /\ [Next]_vars => OrderInv'
  <1> SUFFICES ASSUME OrderInv, [Next]_vars PROVE ListsInOrder'
    BY DependsStep DEF OrderInv
  <1>1. TypeOK /\ ListsInOrder
    BY DEF OrderInv, DependenciesInv, HomeInv
  <1>2. ASSUME UNCHANGED <<ops, tasks>>
        PROVE  ListsInOrder'
    BY <1>1, <1>2 DEF ListsInOrder
  <1>3. ASSUME NEW p \in Priorities, NEW after \in AfterLists, NEW result, Queue(p, after, result)
        PROVE  ListsInOrder'
    <2>1. PICK order : order = Len(ops) + 1
      OBVIOUS
    <2>2. PICK new : new = [priority |-> p, after |-> after, result |-> result]
      OBVIOUS
    <2>3. ops' = Append(ops, new)
      BY <1>3, <2>2 DEF Queue
    <2>4. \A x \in Orders : ops'[x] = ops[x] /\ x < order
      BY <1>1, <2>1, <2>3, AcceptedFacts
    <2>5. CASE UNCHANGED tasks
      <3>1. \A q \in Priorities : \A i \in DOMAIN tasks[q] : tasks[q][i] \in Orders
        BY <1>1 DEF TypeOK
      <3> QED  BY <1>1, <2>4, <2>5, <3>1 DEF ListsInOrder
    <2>6. CASE MakeReady(order, p)
      BY <1>1, <2>4, <2>6, AppendInOrder DEF MakeReady
    <2> QED  BY <1>3, <2>1, <2>5, <2>6 DEF Queue
  <1>4. CASE CallerNext \/ CancelNext
    <2>1. ASSUME NEW order \in Orders, CancelBegin(order)
          PROVE  ListsInOrder'
      <3>1. ASSUME NEW p \in Priorities, NEW i \in DOMAIN tasks[p],
                   tasks' = [tasks EXCEPT ![p] = RemoveAt(@, i)]
            PROVE  ListsInOrder'
        <4>1. PICK s : s = tasks[p]
          OBVIOUS
        <4>2. s \in Seq(Orders) /\ i \in DOMAIN s
          BY <1>1, <4>1 DEF TypeOK
        <4>3. PICK t : t = RemoveAt(s, i)
          OBVIOUS
        <4>4. \A j \in DOMAIN t : j \in DOMAIN s /\ j + 1 \in DOMAIN s /\ t[j] = IF j < i THEN s[j] ELSE s[j + 1]
          BY <4>2, <4>3, RemoveAtFacts
        <4>5. tasks' = [tasks EXCEPT ![p] = t] /\ UNCHANGED ops
          BY <2>1, <3>1, <4>1, <4>3 DEF CancelBegin
        <4> QED  BY <1>1, <4>1, <4>4, <4>5, ShorterInOrder
      <3>2. UNCHANGED ops
        BY <2>1 DEF CancelBegin
      <3> QED  BY <1>2, <2>1, <3>1, <3>2 DEF CancelBegin
    <2>2. ASSUME NEW p \in Priorities, NEW after \in AfterLists, Submit(p, after) \/ Enqueue(p, after)
          PROVE  ListsInOrder'
      BY <1>3, <2>2 DEF Submit, Enqueue
    <2>3. ASSUME Stop \/ CancelEnd \/ (\E after \in AfterLists : EnqueueCancelled(after))
                 \/ (\E order \in Orders : CancelStep(order))
          PROVE  UNCHANGED <<ops, tasks>>
      BY <2>3 DEF Stop, CancelEnd, EnqueueCancelled, CancelStep, queueVars
    <2> QED  BY <1>2, <1>4, <2>1, <2>2, <2>3 DEF CallerNext, CancelNext
  <1>5. ASSUME NEW w \in Workers, WorkerNext(w) \/ UserNext(w)
        PROVE  ListsInOrder'
    <2>1. CASE QuietStep(w) \/ Return(w) \/ Done(w)
      BY <1>2, <2>1, QuietKeeps DEF Return, Done
    <2>2. CASE Take(w)
      <3>1. PICK p \in Priorities : tasks[p] # <<>> /\ tasks' = [tasks EXCEPT ![p] = Tail(@)] /\ UNCHANGED ops
        BY <2>2 DEF Take, Foremost
      <3>2. PICK s : s = tasks[p]
        OBVIOUS
      <3>3. s \in Seq(Orders) /\ s # <<>>
        BY <1>1, <3>1, <3>2 DEF TypeOK
      <3>4. PICK t : t = Tail(s)
        OBVIOUS
      <3>5. /\ 1 \in DOMAIN s /\ DOMAIN t = 1..(Len(s) - 1) /\ DOMAIN s = 1..Len(s) /\ Len(s) \in Nat
            /\ \A j \in DOMAIN t : j + 1 \in DOMAIN s /\ t[j] = s[j + 1]
        BY <3>3, <3>4, HeadTailFacts
      <3>6. \A j \in DOMAIN t : j \in DOMAIN s /\ j + 1 \in DOMAIN s /\ t[j] = IF j < 1 THEN s[j] ELSE s[j + 1]
        BY <3>5
      <3>7. tasks' = [tasks EXCEPT ![p] = t]
        BY <3>1, <3>2, <3>4
      <3>8. /\ 1 \in DOMAIN tasks[p]
            /\ \A j \in DOMAIN t : /\ j \in DOMAIN tasks[p] /\ j + 1 \in DOMAIN tasks[p]
                                  /\ t[j] = IF j < 1 THEN tasks[p][j] ELSE tasks[p][j + 1]
        BY <3>2, <3>5, <3>6
      <3>9. UNCHANGED ops
        BY <3>1
      <3> QED  BY <1>1, <3>7, <3>8, <3>9, ShorterInOrder
    <2>3. CASE CountOff(w)
      <3>1. PICK o : o = Head(counting)
        OBVIOUS
      <3>2. UNCHANGED ops /\ (UNCHANGED tasks \/ (o \in Waiting /\ MakeReady(o, ops[o].priority)))
        BY <2>3, <3>1 DEF CountOff
      <3>3. CASE o \in Waiting /\ MakeReady(o, ops[o].priority)
        <4>1. ops[o].priority \in Priorities /\ ops[o].after # <<>>
          <5>1. o \in Orders
            BY <1>1, <3>3 DEF TypeOK
          <5> QED  BY <1>1, <3>3, <5>1, OpFacts DEF OrderInv, DependenciesInv, DependsFit, WaitingFits
        <4>2. tasks' = [tasks EXCEPT ![ops[o].priority] = Append(@, o)]
          BY <3>3 DEF MakeReady
        <4> QED  BY <1>1, <3>2, <4>1, <4>2, AppendInOrder
      <3> QED  BY <1>2, <3>2, <3>3
    <2> QED  BY <1>5, <2>1, <2>2, <2>3 DEF WorkerNext, UserNext, QuietStep
  <1>6. ASSUME NEW c \in Clients, ClientNext(c) \/ ClientCall(c)
        PROVE  ListsInOrder'
    BY <1>2, <1>6, ClientKeeps
  <1>7. CASE UNCHANGED vars
    BY <1>2, <1>7 DEF vars
  <1> QED  BY <1>4, <1>5, <1>6, <1>7 DEF Next

LEMMA OrderInit == Init => OrderInv
  BY DependsInit DEF OrderInv, ListsInOrder, Init

\* Only take() starts a task.
LEMMA OnlyTakeStarts ==
    ASSUME [Next]_vars, started' # started
    PROVE  \E w \in Workers : Take(w)
  <1>1. CallerNext \/ CancelNext => started' = started
    <2>1. \A p \in Priorities, after \in AfterLists : Submit(p, after) \/ Enqueue(p, after) => started' = started
      BY DEF Submit, Enqueue
    <2>2. \A order \in Orders : CancelBegin(order) \/ CancelStep(order) => started' = started
      BY DEF CancelBegin, CancelStep
    <2>3. Stop \/ CancelEnd \/ (\E after \in AfterLists : EnqueueCancelled(after)) => started' = started
      BY DEF Stop, CancelEnd, EnqueueCancelled
    <2> QED  BY <2>1, <2>2, <2>3 DEF CallerNext, CancelNext
  <1>2. ASSUME NEW w \in Workers, WorkerNext(w) \/ UserNext(w), ~Take(w)
        PROVE  started' = started
    <2>1. QuietStep(w) \/ Return(w) \/ Done(w) \/ CountOff(w)
      BY <1>2 DEF WorkerNext, UserNext, QuietStep
    <2> QED  BY <2>1, QuietKeeps DEF Return, Done, CountOff
  <1>3. \A c \in Clients : ClientNext(c) \/ ClientCall(c) => started' = started
    BY ClientKeeps
  <1>4. UNCHANGED vars => started' = started
    BY DEF vars
  <1> QED  BY <1>1, <1>2, <1>3, <1>4 DEF Next

\* "A worker takes the task of the highest operation_priority waiting", and of one
\* priority those given nothing to run after in the order they were accepted, though
\* others join the lists late, as they are counted off, or leave them by cancel().
THEOREM TasksStartInOrder == Spec => StartsInOrder
  <1> DEFINE A == \A o \in started' \ started : \A r \in Ready \ {o} :
                    /\ ops[r].priority <= ops[o].priority
                    /\ (/\ ops[r].priority = ops[o].priority
                        /\ ops[o].after = <<>> /\ ops[r].after = <<>>) => o < r
  <1>1. OrderInv /\ [Next]_vars => [A]_vars
    <2> SUFFICES ASSUME OrderInv, [Next]_vars, started' # started PROVE A
      OBVIOUS
    <2>1. PICK w \in Workers : Take(w)
      BY OnlyTakeStarts
    <2>2. PICK p \in Priorities : Foremost(p) /\ started' = started \union {Head(tasks[p])}
      BY <2>1 DEF Take
    <2>3. PICK s : s = tasks[p]
      OBVIOUS
    <2>4. TypeOK /\ s \in Seq(Orders) /\ s # <<>> /\ Priorities \subseteq Int
      BY <2>2, <2>3, PrioritiesAssumption DEF OrderInv, DependenciesInv, HomeInv, TypeOK, Foremost
    <2>5. 1 \in DOMAIN s /\ Head(s) = s[1] /\ \A j \in DOMAIN s : j # 1 => 1 < j
      BY <2>4, HeadTailFacts
    <2>6. \A q \in Priorities : \A j \in DOMAIN tasks[q] : ops[tasks[q][j]].priority = q
      BY DEF OrderInv, DependenciesInv, HomeInv, OneHome, ListsApart
    <2>7. ASSUME NEW o \in started' \ started, NEW r \in Ready \ {o}
          PROVE  /\ ops[r].priority <= ops[o].priority
                 /\ (/\ ops[r].priority = ops[o].priority
                     /\ ops[o].after = <<>> /\ ops[r].after = <<>>) => o < r
      <3>1. o = tasks[p][1] /\ ops[o].priority = p
        BY <2>2, <2>3, <2>5, <2>6, <2>7
      <3>2. PICK q \in Priorities : \E j \in DOMAIN tasks[q] : tasks[q][j] = r
        BY <2>7, ReadyIs
      <3>3. PICK j \in DOMAIN tasks[q] : tasks[q][j] = r
        BY <3>2
      <3>4. ops[r].priority = q /\ tasks[q] # <<>>
        BY <2>6, <3>3
      <3>5. ~(q > p)
        BY <2>2, <3>4 DEF Foremost
      <3>6. q <= p
        BY <2>4, <3>5
      <3>7. ASSUME q = p, ops[o].after = <<>>, ops[r].after = <<>>
            PROVE  o < r
        <4>1. j \in DOMAIN s /\ j # 1
          BY <2>3, <2>7, <3>1, <3>3, <3>7
        <4>2. 1 < j
          BY <2>5, <4>1
        <4> QED  BY <2>3, <2>5, <3>1, <3>3, <3>7, <4>1, <4>2 DEF OrderInv, ListsInOrder
      <3> QED  BY <3>1, <3>4, <3>6, <3>7
    <2> QED  BY <2>7
  <1> QED  BY <1>1, OrderInit, OrderStep, PTL DEF Spec, StartsInOrder

=============================================================================
