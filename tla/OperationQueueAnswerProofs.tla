--------------------- MODULE OperationQueueAnswerProofs ---------------------
(***************************************************************************)
(* Theorems of OperationQueue about what its callers are told: that a wait *)
(* is answered as the tasks stand, and that the queue implements the life  *)
(* of a task its header promises (OperationLifecycle); and about its       *)
(* workers: while a task is to be run one of them is on the way to it, and *)
(* they end having left none behind.                                       *)
(***************************************************************************)
EXTENDS OperationQueueOrderProofs, WellFoundedInduction

-----------------------------------------------------------------------------
(* Waits are answered as the tasks stand.                                  *)

\* What a client waits for is there, and shutdown() has stopped the queue first.
ClientsFit ==
    \A c \in Clients :
        /\ client[c].phase \in {"waiting", "woken", "waited"} => client[c].target \in 0..Len(ops)
        /\ client[c].phase \in {"resulting", "told", "resulted"} => client[c].target \in Ids
        /\ client[c].phase \in {"joining", "joined"} => ~accepting

AnswersInv == DependenciesInv /\ ClientsFit /\ AnswersHold

\* What no step takes back.
Onward ==
    /\ Len(ops) <= Len(ops') /\ \A o \in Orders : ops'[o] = ops[o]
    /\ \A o \in unfinished' : o \in unfinished \/ o > Len(ops)
    /\ Ids \subseteq Ids' /\ \A id \in Ids : results[id] # "pending" => results'[id] # "pending"
    /\ AllEnded => AllEnded'
    /\ ~accepting => ~accepting'

\* A step of somebody else's wakes a client or leaves it as it was; one left asleep
\* on a result is asleep on one still pending.
ClientsStand ==
    \A c \in Clients :
        /\ client'[c].target = client[c].target /\ client'[c].answer = client[c].answer
        /\ \/ client'[c].phase = client[c].phase
           \/ client[c].phase = "waiting" /\ client'[c].phase = "woken"
           \/ client[c].phase = "resulting" /\ client'[c].phase = "told"
        /\ client'[c].phase = "resulting" /\ client[c].target \in Ids
             => results'[client[c].target] = results[client[c].target]

LEMMA UnchangedStands ==
    ASSUME UNCHANGED <<client, results>>
    PROVE  ClientsStand
  BY DEF ClientsStand

LEMMA NotifiedStands ==
    ASSUME TypeOK, client' = Notified, UNCHANGED results
    PROVE  ClientsStand
  BY DEF ClientsStand, Notified, TypeOK

\* Whose result changes is told.
LEMMA ToldStands ==
    ASSUME TypeOK, NEW id, client' = Told(id),
           \A i \in Ids \ {id} : results'[i] = results[i]
    PROVE  ClientsStand
  BY DEF ClientsStand, Told, TypeOK

LEMMA StandingAnswers ==
    ASSUME AnswersInv, TypeOK', Onward, ClientsStand
    PROVE  ClientsFit' /\ AnswersHold'
  <1>1. /\ TypeOK /\ Len(ops) \in Nat /\ Len(ops') \in Nat
        /\ \A c \in Clients : client[c].target \in Nat
    BY DEF AnswersInv, DependenciesInv, HomeInv, TypeOK
  <1>2. ClientsFit'
    <2>1. ASSUME NEW c \in Clients
          PROVE  /\ client'[c].phase \in {"waiting", "woken", "waited"} => client'[c].target \in 0..Len(ops')
                 /\ client'[c].phase \in {"resulting", "told", "resulted"} => client'[c].target \in Ids'
                 /\ client'[c].phase \in {"joining", "joined"} => ~accepting'
      <3>1. client'[c].target = client[c].target
        BY DEF ClientsStand
      <3>2. /\ client'[c].phase \in {"waiting", "woken", "waited"} =>
                 client[c].phase \in {"waiting", "woken", "waited"}
            /\ client'[c].phase \in {"resulting", "told", "resulted"} =>
                 client[c].phase \in {"resulting", "told", "resulted"}
            /\ client'[c].phase \in {"joining", "joined"} => client[c].phase \in {"joining", "joined"}
        BY DEF ClientsStand
      <3>3. 0..Len(ops) \subseteq 0..Len(ops')
        BY <1>1 DEF Onward
      <3> QED  BY <3>1, <3>2, <3>3 DEF AnswersInv, ClientsFit, Onward
    <2> QED  BY <2>1 DEF ClientsFit
  <1>3. ASSUME NEW c \in Clients, client'[c].phase = "waited", client'[c].answer
        PROVE  /\ \A o \in unfinished' : o > client'[c].target
               /\ \A o \in 1..client'[c].target :
                    ops'[o].result # NoResult => results'[ops'[o].result] # "pending"
    <2>1. client[c].phase = "waited" /\ client[c].answer /\ client'[c].target = client[c].target
      BY <1>3 DEF ClientsStand
    <2>2. client[c].target \in 0..Len(ops)
      BY <2>1 DEF AnswersInv, ClientsFit
    <2>3. /\ \A o \in unfinished : o > client[c].target
          /\ \A o \in 1..client[c].target :
               ops[o].result # NoResult => results[ops[o].result] # "pending"
      BY <2>1 DEF AnswersInv, AnswersHold, Settled
    <2>4. \A o \in unfinished' : o > client[c].target
      <3>1. unfinished' \subseteq 1..Len(ops')
        BY DEF TypeOK, Orders
      <3> QED  BY <1>1, <2>2, <2>3, <3>1 DEF Onward
    <2>5. ASSUME NEW o \in 1..client[c].target, ops'[o].result # NoResult
          PROVE  results'[ops'[o].result] # "pending"
      <3>1. o \in Orders
        BY <1>1, <2>2 DEF Orders
      <3>2. ops'[o] = ops[o]
        BY <3>1 DEF Onward
      <3>3. ops[o].result \in Ids
        BY <1>1, <2>5, <3>1, <3>2, OpFacts
      <3> QED  BY <2>3, <2>5, <3>2, <3>3 DEF Onward
    <2> QED  BY <2>1, <2>4, <2>5
  <1>4. ASSUME NEW c \in Clients, client'[c].phase = "joined", client'[c].answer
        PROVE  AllEnded' /\ ~accepting'
    <2>1. client[c].phase = "joined" /\ client[c].answer
      BY <1>4 DEF ClientsStand
    <2> QED  BY <2>1 DEF AnswersInv, AnswersHold, Onward
  <1>5. ASSUME NEW c \in Clients, client'[c].phase = "resulted", client'[c].answer
        PROVE  results'[client'[c].target] # "pending"
    <2>1. client[c].phase = "resulted" /\ client[c].answer /\ client'[c].target = client[c].target
      BY <1>5 DEF ClientsStand
    <2>2. client[c].target \in Ids /\ results[client[c].target] # "pending"
      BY <2>1 DEF AnswersInv, ClientsFit, AnswersHold, Finished
    <2> QED  BY <2>1, <2>2 DEF Onward
  <1>6. ASSUME NEW c \in Clients, client'[c].phase = "resulting"
        PROVE  results'[client'[c].target] = "pending"
    <2>1. client[c].phase = "resulting" /\ client'[c].target = client[c].target
      BY <1>6 DEF ClientsStand
    <2>2. client[c].target \in Ids /\ results[client[c].target] = "pending"
      BY <2>1 DEF AnswersInv, ClientsFit, AnswersHold, Finished
    <2> QED  BY <1>6, <2>1, <2>2 DEF ClientsStand
  <1>7. AnswersHold'
    <2> SUFFICES ASSUME NEW c \in Clients
                 PROVE  /\ client'[c].phase = "waited" /\ client'[c].answer =>
                            /\ \A o \in unfinished' : o > client'[c].target
                            /\ \A o \in 1..client'[c].target :
                                 ops'[o].result # NoResult => results'[ops'[o].result] # "pending"
                        /\ client'[c].phase = "joined" /\ client'[c].answer => AllEnded' /\ ~accepting'
                        /\ client'[c].phase = "resulted" /\ client'[c].answer
                             => results'[client'[c].target] # "pending"
                        /\ client'[c].phase = "resulting" => results'[client'[c].target] = "pending"
      BY DEF AnswersHold, Settled, Finished
    <2> QED  BY <1>3, <1>4, <1>5, <1>6
  <1> QED  BY <1>2, <1>7

\* What holds of every task is done to all of them by a wait that is answered.
LEMMA SettledFacts ==
    ASSUME DependenciesInv, NEW target \in 0..Len(ops), Settled(target), NEW o \in 1..target,
           ops[o].result # NoResult
    PROVE  results[ops[o].result] # "pending"
  <1>1. TypeOK /\ Len(ops) \in Nat /\ o \in Orders
    <2>1. TypeOK
      BY DEF DependenciesInv, HomeInv
    <2>2. Len(ops) \in Nat
      BY <2>1 DEF TypeOK
    <2> QED  BY <2>1, <2>2 DEF Orders
  <1>2. o \notin unfinished
    BY <1>1 DEF Settled
  <1>3. ops[o].result \in Ids
    BY <1>1, OpFacts
  <1>4. unfinished \subseteq Orders
    BY <1>1 DEF TypeOK
  <1>5. ops[o].result \notin DOMAIN dependents
    BY <1>1, <1>2, <1>4 DEF DependenciesInv, DependsFit, DependentsFit, ResultsApart
  <1> QED  BY <1>3, <1>5 DEF DependenciesInv, DependsFit, ResultsFit, PendingKept

-----------------------------------------------------------------------------
(* No step takes back what a wait was told.                                *)

LEMMA AcceptOnward ==
    ASSUME TypeOK, NEW p, NEW after, NEW result, Queue(p, after, result)
    PROVE  /\ Len(ops) <= Len(ops') /\ \A o \in Orders : ops'[o] = ops[o]
           /\ \A o \in unfinished' : o \in unfinished \/ o > Len(ops)
  <1>1. PICK new : new = [priority |-> p, after |-> after, result |-> result]
    OBVIOUS
  <1>2. ops' = Append(ops, new) /\ unfinished' = unfinished \union {Len(ops) + 1}
    BY <1>1 DEF Queue
  <1>3. \A o \in Orders : ops'[o] = ops[o]
    BY <1>2, AcceptedFacts
  <1>4. ops \in Seq(RangeOf(ops) \union {new}) /\ Len(ops) \in Nat
    BY DEF TypeOK, RangeOf
  <1>5. Len(ops') = Len(ops) + 1
    BY <1>2, <1>4
  <1>6. \A o \in unfinished' : o \in unfinished \/ o > Len(ops)
    BY <1>2, <1>4
  <1>7. Len(ops) <= Len(ops')
    BY <1>4, <1>5
  <1> QED  BY <1>3, <1>6, <1>7

LEMMA NoneOnward ==
    ASSUME TypeOK, UNCHANGED ops, unfinished' \subseteq unfinished
    PROVE  /\ Len(ops) <= Len(ops') /\ \A o \in Orders : ops'[o] = ops[o]
           /\ \A o \in unfinished' : o \in unfinished \/ o > Len(ops)
  <1>1. Len(ops) \in Nat
    BY DEF TypeOK
  <1> QED  BY <1>1

\* A result made leaves the others as they were.
LEMMA MadeFacts ==
    ASSUME TypeOK, NEW state, results' = Append(results, state)
    PROVE  Ids \subseteq Ids' /\ \A id \in Ids : results'[id] = results[id]
  <1>1. results \in Seq(RangeOf(results) \union {state})
    BY DEF TypeOK, RangeOf
  <1> QED  BY <1>1 DEF Ids

\* Steps of the callers and of cancel().
LEMMA CallerOnward ==
    ASSUME TypeOK, CallerNext \/ CancelNext
    PROVE  Onward /\ ClientsStand
  <1>1. UNCHANGED life /\ (~accepting => ~accepting')
    <2>1. \A p \in Priorities, after \in AfterLists :
            Submit(p, after) \/ Enqueue(p, after) => UNCHANGED <<life, accepting>>
      BY DEF Submit, Enqueue
    <2>2. \A order \in Orders : CancelBegin(order) \/ CancelStep(order) => UNCHANGED <<life, accepting>>
      BY DEF CancelBegin, CancelStep, workerVars
    <2>3. CancelEnd \/ (\E after \in AfterLists : EnqueueCancelled(after)) => UNCHANGED <<life, accepting>>
      BY DEF CancelEnd, EnqueueCancelled, workerVars
    <2>4. Stop => UNCHANGED life /\ ~accepting'
      BY DEF Stop, Stopped
    <2> QED  BY <2>1, <2>2, <2>3, <2>4 DEF CallerNext, CancelNext
  <1>2. AllEnded => AllEnded'
    BY <1>1 DEF AllEnded
  <1>4. ASSUME NEW p \in Priorities, NEW after \in AfterLists, Submit(p, after)
        PROVE  Onward /\ ClientsStand
    <2>1. Queue(p, after, NoResult) /\ UNCHANGED <<results, client>>
      BY <1>4 DEF Submit
    <2>2. Ids' = Ids
      BY <2>1, ResultsKept
    <2>3. ClientsStand
      BY <2>1, UnchangedStands
    <2> QED  BY <1>1, <1>2, <2>1, <2>2, <2>3, AcceptOnward DEF Onward
  <1>5. ASSUME NEW p \in Priorities, NEW after \in AfterLists, Enqueue(p, after)
        PROVE  Onward /\ ClientsStand
    <2>1. Queue(p, after, Len(results) + 1) /\ results' = Append(results, "pending") /\ UNCHANGED client
      BY <1>5 DEF Enqueue
    <2>2. Ids \subseteq Ids' /\ \A id \in Ids : results'[id] = results[id]
      BY <2>1, MadeFacts
    <2>3. ClientsStand
      BY <2>1, <2>2 DEF ClientsStand
    <2> QED  BY <1>1, <1>2, <2>1, <2>2, <2>3, AcceptOnward DEF Onward
  <1>6. ASSUME NEW after \in AfterLists, EnqueueCancelled(after)
        PROVE  Onward /\ ClientsStand
    <2>1. results' = Append(results, "cancelled") /\ UNCHANGED <<ops, unfinished, client>>
      BY <1>6 DEF EnqueueCancelled
    <2>2. Ids \subseteq Ids' /\ \A id \in Ids : results'[id] = results[id]
      BY <2>1, MadeFacts
    <2>3. ClientsStand
      BY <2>1, <2>2 DEF ClientsStand
    <2> QED  BY <1>1, <1>2, <2>1, <2>2, <2>3, NoneOnward DEF Onward
  <1>7. ASSUME NEW order \in Orders, CancelStep(order)
        PROVE  Onward /\ ClientsStand
    <2>1. PICK id : id = ops[order].result
      OBVIOUS
    <2>2. UNCHANGED ops /\ unfinished' \subseteq unfinished
      BY <1>7 DEF CancelStep
    <2>3. CASE id = NoResult
      <3>1. UNCHANGED <<results, client>>
        BY <1>7, <2>1, <2>3 DEF CancelStep
      <3>2. Ids' = Ids /\ ClientsStand
        BY <3>1, ResultsKept, UnchangedStands
      <3> QED  BY <1>1, <1>2, <2>2, <3>1, <3>2, NoneOnward DEF Onward
    <2>4. CASE id # NoResult
      <3>1. /\ client' = Told(id)
            /\ results' = [results EXCEPT ![id] = IF @ = "pending" THEN "cancelled" ELSE @]
        BY <1>7, <2>1, <2>4 DEF CancelStep
      <3>2. results \in Seq(States)
        BY DEF TypeOK
      <3>3. Ids' = Ids /\ \A i \in Ids \ {id} : results'[i] = results[i]
        BY <3>1, <3>2 DEF Ids
      <3>4. \A i \in Ids : results[i] # "pending" => results'[i] # "pending"
        BY <3>1, <3>2 DEF Ids
      <3>5. ClientsStand
        BY <3>1, <3>3, ToldStands
      <3> QED  BY <1>1, <1>2, <2>2, <3>3, <3>4, <3>5, NoneOnward DEF Onward
    <2> QED  BY <2>3, <2>4
  <1>8. ASSUME (\E order \in Orders : CancelBegin(order)) \/ Stop \/ CancelEnd
        PROVE  Onward /\ ClientsStand
    <2>1. UNCHANGED <<ops, unfinished, results>> /\ (client' = client \/ client' = Notified)
      BY <1>8 DEF CancelBegin, Stop, CancelEnd, queueVars
    <2>2. Ids' = Ids /\ ClientsStand
      BY <2>1, ResultsKept, UnchangedStands, NotifiedStands
    <2> QED  BY <1>1, <1>2, <2>1, <2>2, NoneOnward DEF Onward
  <1> QED  BY <1>4, <1>5, <1>6, <1>7, <1>8 DEF CallerNext, CancelNext

\* Steps of the workers.
LEMMA WorkerOnward ==
    ASSUME TypeOK, NEW w \in Workers, WorkerNext(w) \/ UserNext(w)
    PROVE  Onward /\ ClientsStand
  <1>2. UNCHANGED <<accepting, ops>> /\ unfinished' \subseteq unfinished
    <2>1. QuietStep(w) \/ Take(w) \/ Return(w) \/ Done(w) \/ CountOff(w)
      BY DEF WorkerNext, UserNext, QuietStep
    <2> QED  BY <2>1, QuietKeeps DEF Take, Return, Done, CountOff
  <1>3. AllEnded => AllEnded'
    <2>1. \A v \in Workers : life[v] = "ended" => life'[v] = "ended"
      <3>1. CASE UNCHANGED life
        BY <3>1
      <3>2. CASE EndLoop(w) \/ ThreadEnd(w)
        BY <3>2 DEF EndLoop, ThreadEnd, TypeOK
      <3> QED  BY <3>1, <3>2 DEF WorkerNext, UserNext, StartItem, Take, TakeNone, Return, Done, CountOff,
                  DoneEnd, Check, Leave, UserReturn, Pump, PostOwn, PostOther, Post, QuitEarly
    <2> QED  BY <2>1 DEF AllEnded
  <1>4. /\ Ids' = Ids
        /\ \A id \in Ids : results[id] # "pending" => results'[id] # "pending"
        /\ ClientsStand
    <2>1. CASE Return(w)
      <3>1. PICK id : id = ops[Top(w).task].result
        OBVIOUS
      <3>2. /\ client' = Told(id)
            /\ results' = IF id # NoResult /\ results[id] = "pending"
                            THEN [results EXCEPT ![id] = "returned"] ELSE results
        BY <2>1, <3>1 DEF Return
      <3>3. results \in Seq(States)
        BY DEF TypeOK
      <3>4. Ids' = Ids /\ \A i \in Ids \ {id} : results'[i] = results[i]
        BY <3>2, <3>3 DEF Ids
      <3>5. \A i \in Ids : results[i] # "pending" => results'[i] # "pending"
        BY <3>2, <3>3 DEF Ids
      <3> QED  BY <3>2, <3>4, <3>5, ToldStands
    <2>2. CASE QuietStep(w)
      <3>1. UNCHANGED results /\ (client' = client \/ client' = Notified)
        BY <2>2, QuietKeeps DEF DoneEnd
      <3> QED  BY <3>1, ResultsKept, UnchangedStands, NotifiedStands
    <2>3. CASE Take(w) \/ Done(w) \/ CountOff(w)
      <3>1. UNCHANGED <<client, results>>
        BY <2>3 DEF Take, Done, CountOff
      <3> QED  BY <3>1, ResultsKept, UnchangedStands
    <2> QED  BY <2>1, <2>2, <2>3 DEF WorkerNext, UserNext, QuietStep
  <1> QED  BY <1>2, <1>3, <1>4, NoneOnward DEF Onward

-----------------------------------------------------------------------------
(* A waiting call answers for its own client.                              *)

\* What one client is told, and what it waits for.
FitsNow(c) ==
    /\ client[c].phase \in {"waiting", "woken", "waited"} => client[c].target \in 0..Len(ops)
    /\ client[c].phase \in {"resulting", "told", "resulted"} => client[c].target \in Ids
    /\ client[c].phase \in {"joining", "joined"} => ~accepting
    /\ client[c].phase = "waited" /\ client[c].answer => Settled(client[c].target)
    /\ client[c].phase = "joined" /\ client[c].answer => AllEnded
    /\ client[c].phase = "resulted" /\ client[c].answer => Finished(client[c].target)
    /\ client[c].phase = "resulting" => ~Finished(client[c].target)

AllFit == \A c \in Clients : FitsNow(c)

LEMMA FitsAreAnswers == DependenciesInv => (ClientsFit /\ AnswersHold <=> AllFit)
  <1> SUFFICES ASSUME DependenciesInv
               PROVE  ClientsFit /\ AnswersHold <=> \A c \in Clients : FitsNow(c)
    BY DEF AllFit
  <1>1. ASSUME ClientsFit, AnswersHold
        PROVE  \A c \in Clients : FitsNow(c)
    BY <1>1 DEF ClientsFit, AnswersHold, FitsNow
  <1>2. ASSUME \A c \in Clients : FitsNow(c)
        PROVE  ClientsFit /\ AnswersHold
    <2>1. ClientsFit
      BY <1>2 DEF ClientsFit, FitsNow
    <2>2. ASSUME NEW c \in Clients, client[c].phase = "waited", client[c].answer
          PROVE  \A o \in 1..client[c].target : ops[o].result # NoResult => results[ops[o].result] # "pending"
      <3>1. client[c].target \in 0..Len(ops) /\ Settled(client[c].target)
        BY <1>2, <2>2 DEF FitsNow
      <3> QED  BY <3>1, SettledFacts
    <2> QED  BY <1>2, <2>1, <2>2 DEF AnswersHold, FitsNow
  <1> QED  BY <1>1, <1>2

\* The other clients stand where they did, and so does all they were told.
LEMMA ClientAnswers ==
    ASSUME AnswersInv, NEW c \in Clients, ClientNext(c) \/ ClientCall(c)
    PROVE  AllFit'
  <1>1. /\ UNCHANGED <<ops, unfinished, results, life>>
        /\ ~accepting => ~accepting'
    <2>1. UNCHANGED <<ops, unfinished, results, life>>
      BY ClientKeeps
    <2>2. ~accepting => ~accepting'
      BY DEF ClientNext, ClientCall, WaitBegin, WaitCheck, WaitTimeout, ShutdownBegin, Stopped, ShutdownJoined,
         ShutdownTimeout, ResultBegin, ResultCheck, ResultTimeout
    <2> QED  BY <2>1, <2>2
  <1>2. TypeOK /\ Len(ops) \in Nat /\ client \in [Clients -> [phase: ClientPhases, target: Nat, answer: BOOLEAN]]
    BY DEF AnswersInv, DependenciesInv, HomeInv, TypeOK
  <1>3. \A d \in Clients : FitsNow(d)
    BY FitsAreAnswers DEF AnswersInv, AllFit
  <1>4. \A d \in Clients \ {c} : client'[d] = client[d]
    BY <1>2 DEF ClientNext, ClientCall, WaitBegin, WaitCheck, WaitTimeout, ShutdownBegin, ShutdownJoined,
       ShutdownTimeout, ResultBegin, ResultCheck, ResultTimeout, Answer
  <1>5. \A d \in Clients \ {c} : FitsNow(d)'
    BY <1>1, <1>3, <1>4 DEF FitsNow, Ids, Settled, AllEnded, Finished
  <1>6. /\ client'[c].phase \in {"waiting", "woken", "waited"} => client'[c].target \in 0..Len(ops)
        /\ client'[c].phase \in {"resulting", "told", "resulted"} => client'[c].target \in Ids
        /\ client'[c].phase \in {"joining", "joined"} => ~accepting'
        /\ client'[c].phase = "waited" /\ client'[c].answer => Settled(client'[c].target)
        /\ client'[c].phase = "joined" /\ client'[c].answer => AllEnded
        /\ client'[c].phase = "resulted" /\ client'[c].answer => Finished(client'[c].target)
        /\ client'[c].phase = "resulting" => ~Finished(client'[c].target)
    <2>1. CASE WaitBegin(c)
      BY <1>2, <2>1 DEF WaitBegin
    <2> DEFINE Answered(phase, answer) == /\ client'[c].phase = phase /\ client'[c].answer = answer
                                          /\ client'[c].target = client[c].target
    <2>7. \A phase, answer : Answer(c, phase, answer) => Answered(phase, answer)
      BY <1>2 DEF Answer
    <2>2. CASE WaitCheck(c) \/ WaitTimeout(c)
      <3>1. PICK settled \in BOOLEAN : settled = Settled(client[c].target)
        BY DEF Settled
      <3>2. client[c].target \in 0..Len(ops)
        BY <1>3, <2>2 DEF WaitCheck, WaitTimeout, FitsNow
      <3>3. Answered("waited", settled) \/ Answered("waiting", FALSE)
        BY <2>2, <2>7, <3>1 DEF WaitCheck, WaitTimeout
      <3> QED  BY <3>1, <3>2, <3>3
    <2>3. CASE ShutdownBegin(c)
      BY <1>2, <2>3 DEF ShutdownBegin, Stopped
    <2>4. CASE ShutdownJoined(c) \/ ShutdownTimeout(c)
      <3>1. ~accepting'
        BY <1>1, <1>3, <2>4 DEF ShutdownJoined, ShutdownTimeout, FitsNow
      <3>2. (Answered("joined", TRUE) /\ AllEnded) \/ Answered("joined", FALSE)
        BY <2>4, <2>7 DEF ShutdownJoined, ShutdownTimeout
      <3> QED  BY <3>1, <3>2
    <2>5. CASE ResultBegin(c)
      BY <1>2, <2>5 DEF ResultBegin
    <2>6. CASE ResultCheck(c) \/ ResultTimeout(c)
      <3>1. PICK finished \in BOOLEAN : finished = Finished(client[c].target)
        BY DEF Finished
      <3>2. client[c].target \in Ids
        BY <1>3, <2>6 DEF ResultCheck, ResultTimeout, FitsNow
      <3>3. Answered("resulted", finished) \/ (Answered("resulting", FALSE) /\ ~finished)
        BY <2>6, <2>7, <3>1 DEF ResultCheck, ResultTimeout
      <3> QED  BY <3>1, <3>2, <3>3
    <2> QED  BY <2>1, <2>2, <2>3, <2>4, <2>5, <2>6 DEF ClientNext, ClientCall
  <1>7. FitsNow(c)'
    BY <1>1, <1>6 DEF FitsNow, Ids, Settled, AllEnded, Finished
  <1> QED  BY <1>5, <1>7 DEF AllFit

LEMMA AnswersStep == AnswersInv /\ [Next]_vars => AnswersInv'
  <1> SUFFICES ASSUME AnswersInv, [Next]_vars PROVE ClientsFit' /\ AnswersHold'
    BY DependsStep DEF AnswersInv
  <1>1. DependenciesInv' /\ TypeOK /\ TypeOK'
    BY DependsStep, TypeStep DEF AnswersInv, DependenciesInv, HomeInv
  <1>2. CASE CallerNext \/ CancelNext
    BY <1>1, <1>2, CallerOnward, StandingAnswers
  <1>3. ASSUME NEW w \in Workers, WorkerNext(w) \/ UserNext(w)
        PROVE  ClientsFit' /\ AnswersHold'
    BY <1>1, <1>3, WorkerOnward, StandingAnswers
  <1>4. ASSUME NEW c \in Clients, ClientNext(c) \/ ClientCall(c)
        PROVE  ClientsFit' /\ AnswersHold'
    <2>1. AllFit'
      BY <1>4, ClientAnswers
    <2>2. (DependenciesInv => (ClientsFit /\ AnswersHold <=> AllFit))'
      BY FitsAreAnswers, PTL
    <2> QED  BY <1>1, <2>1, <2>2
  <1>5. CASE UNCHANGED vars
    <2>1. ClientsFit'
      BY <1>5 DEF vars, AnswersInv, ClientsFit, Ids
    <2>2. AnswersHold'
      BY <1>5 DEF vars, AnswersInv, AnswersHold, Settled, AllEnded, Finished
    <2> QED  BY <2>1, <2>2
  <1> QED  BY <1>2, <1>3, <1>4, <1>5 DEF Next

LEMMA AnswersInit == Init => AnswersInv
  <1> SUFFICES ASSUME Init PROVE ClientsFit /\ AnswersHold
    BY DependsInit DEF AnswersInv
  <1>1. \A c \in Clients : client[c].phase = "idle"
    BY DEF Init
  <1> QED  BY <1>1 DEF ClientsFit, AnswersHold

\* wait_for() answers true only when every task accepted before the call has finished
\* and its result says so, shutdown() only when every worker has ended, a result's own
\* wait_for() only once it is filled in or cancelled, and nobody is asleep on a result
\* past that: whoever else waits, cancels or accepts tasks meanwhile.
THEOREM WaitersAreAnsweredRight == Spec => []AnswersHold
  <1>1. AnswersInv => AnswersHold
    BY DEF AnswersInv
  <1> QED  BY <1>1, AnswersInit, AnswersStep, PTL DEF Spec

-----------------------------------------------------------------------------
(* The queue implements the life of a task its header promises.            *)

\* The state OperationLifecycle sees.
TaskView == [o \in Orders |-> [after |-> ops[o].after, result |-> ops[o].result]]
StatusView == [o \in Orders |-> Status(o)]

LEMMA ViewFacts ==
    ASSUME TypeOK
    PROVE  /\ Len(TaskView) = Len(ops) /\ Len(StatusView) = Len(ops) /\ Len(ops) \in Nat
           /\ TaskView \in Seq([after: Seq(Ids), result: Ids \union {NoResult}])
           /\ StatusView \in Seq({"queued", "running", "returned", "cancelled"})
           /\ \A o \in Orders : /\ TaskView[o].after = ops[o].after
                                /\ TaskView[o].result = ops[o].result
                                /\ StatusView[o] = Status(o)
  <1>1. PICK n \in Nat : n = Len(ops)
    <2>1. Len(ops) \in Nat
      BY DEF TypeOK
    <2> QED  BY <2>1
  <1>2. \A o \in 1..n : [after |-> ops[o].after, result |-> ops[o].result]
                          \in [after: Seq(Ids), result: Ids \union {NoResult}]
    BY <1>1, OpFacts DEF Orders
  <1>3. \A o \in 1..n : Status(o) \in {"queued", "running", "returned", "cancelled"}
    BY DEF Status
  <1>4. PICK R : R = [after: Seq(Ids), result: Ids \union {NoResult}]
    OBVIOUS
  <1>5. TaskView = [o \in 1..n |-> [after |-> ops[o].after, result |-> ops[o].result]]
    BY <1>1 DEF TaskView, Orders
  <1>6. StatusView = [o \in 1..n |-> Status(o)]
    BY <1>1 DEF StatusView, Orders
  <1>7. TaskView \in [1..n -> R] /\ StatusView \in [1..n -> {"queued", "running", "returned", "cancelled"}]
    BY <1>2, <1>3, <1>4, <1>5, <1>6
  <1>8. /\ TaskView \in Seq(R) /\ Len(TaskView) = n
        /\ StatusView \in Seq({"queued", "running", "returned", "cancelled"}) /\ Len(StatusView) = n
    BY <1>7
  <1>9. \A o \in 1..n : /\ TaskView[o].after = ops[o].after
                        /\ TaskView[o].result = ops[o].result
                        /\ StatusView[o] = Status(o)
    BY <1>5, <1>6
  <1> QED  BY <1>1, <1>4, <1>8, <1>9 DEF Orders

\* What happens to an accepted task is seen at its own place.
LEMMA ViewsKept ==
    ASSUME TypeOK, UNCHANGED ops
    PROVE  TaskView' = TaskView /\ Orders' = Orders
  BY DEF TaskView, Orders

LEMMA StatusKept ==
    ASSUME TypeOK, UNCHANGED ops, \A o \in Orders : Status(o)' = Status(o)
    PROVE  StatusView' = StatusView
  <1>1. Orders' = Orders
    BY DEF Orders
  <1> QED  BY <1>1 DEF StatusView

LEMMA StatusMoves ==
    ASSUME TypeOK, UNCHANGED ops, NEW t \in Orders, \A o \in Orders \ {t} : Status(o)' = Status(o)
    PROVE  StatusView' = [StatusView EXCEPT ![t] = Status(t)']
  <1>1. Orders' = Orders
    BY DEF Orders
  <1> QED  BY <1>1 DEF StatusView

\* The tasks that can never start any more.
LEMMA DoomedIs ==
    ASSUME DependenciesInv
    PROVE  /\ Lifecycle!Doomed = {o \in Orders : o \in unfinished /\ Names(o, "cancelled")}
           /\ mutex # "cancel" => Lifecycle!Doomed = {}
  <1>1. TypeOK
    BY DEF DependenciesInv, HomeInv
  <1>2. Lifecycle!Doomed = {o \in 1..Len(TaskView) :
                              /\ StatusView[o] = "queued"
                              /\ \E i \in DOMAIN TaskView[o].after : results[TaskView[o].after[i]] = "cancelled"}
    BY DEF Lifecycle!Doomed, Lifecycle!Names, TaskView, StatusView
  <1>3. 1..Len(TaskView) = Orders
    BY <1>1, ViewFacts DEF Orders
  <1>4. \A o \in Orders : Names(o, "cancelled") => o \notin started
    BY DEF DependenciesInv, DependsFit, CancelsFit
  <1>5. \A o \in Orders : o \notin started => (Status(o) = "queued" <=> o \in unfinished)
    BY DEF Status
  <1>6. \A o \in Orders : /\ StatusView[o] = Status(o)
                          /\ (\E i \in DOMAIN TaskView[o].after : results[TaskView[o].after[i]] = "cancelled")
                               <=> Names(o, "cancelled")
    BY <1>1, ViewFacts DEF Names
  <1>7. Lifecycle!Doomed = {o \in Orders : o \in unfinished /\ Names(o, "cancelled")}
    BY <1>2, <1>3, <1>4, <1>5, <1>6
  <1>8. mutex # "cancel" => \A o \in Orders : ~(o \in unfinished /\ Names(o, "cancelled"))
    BY DEF DependenciesInv, DependsFit, CancelsFit, HomeInv, RemovingLocked
  <1> QED  BY <1>7, <1>8

-----------------------------------------------------------------------------
(* The steps of OperationLifecycle, in terms of those views.               *)

LEMMA LifeStutters ==
    ASSUME TypeOK, UNCHANGED <<accepting, ops, results>>, \A o \in Orders : Status(o)' = Status(o)
    PROVE  UNCHANGED Lifecycle!lifecycle
  <1>1. TaskView' = TaskView /\ StatusView' = StatusView
    BY ViewsKept, StatusKept
  <1> QED  BY <1>1 DEF Lifecycle!lifecycle, TaskView, StatusView

LEMMA LifeAccepts ==
    ASSUME accepting, Lifecycle!Doomed = {}, NEW after \in AfterLists, ~AnyCancelled(after),
           NEW result \in {NoResult, Len(results) + 1},
           results' = IF result = NoResult THEN results ELSE Append(results, "pending"),
           TaskView' = Append(TaskView, [after |-> after, result |-> result]),
           StatusView' = Append(StatusView, "queued"), UNCHANGED accepting
    PROVE  Lifecycle!Next
  <1>1. Lifecycle!Accept(after, result)
    BY DEF Lifecycle!Accept, Lifecycle!Names, Lifecycle!None, NoResult, AnyCancelled, TaskView, StatusView
  <1>2. after \in Lifecycle!Lists /\ result \in {Lifecycle!None, Len(results) + 1}
    BY DEF Lifecycle!Lists, AfterLists, Ids, Lifecycle!None, NoResult
  <1> QED  BY <1>1, <1>2 DEF Lifecycle!Next

LEMMA LifeAcceptsCancelled ==
    ASSUME accepting, Lifecycle!Doomed = {}, NEW after \in AfterLists, AnyCancelled(after),
           results' = Append(results, "cancelled"),
           TaskView' = TaskView, StatusView' = StatusView, UNCHANGED accepting
    PROVE  Lifecycle!Next
  <1>1. Lifecycle!AcceptCancelled(after)
    BY DEF Lifecycle!AcceptCancelled, Lifecycle!Names, AnyCancelled, TaskView, StatusView
  <1>2. after \in Lifecycle!Lists
    BY DEF Lifecycle!Lists, AfterLists, Ids
  <1> QED  BY <1>1, <1>2 DEF Lifecycle!Next

LEMMA LifeStarts ==
    ASSUME TypeOK, Lifecycle!Doomed = {}, NEW t \in Orders, UNCHANGED <<accepting, ops, results>>,
           Status(t) = "queued", Status(t)' = "running", \A o \in Orders \ {t} : Status(o)' = Status(o),
           \A i \in DOMAIN ops[t].after : results[ops[t].after[i]] = "returned"
    PROVE  Lifecycle!Next
  <1>1. /\ StatusView[t] = "queued" /\ StatusView' = [StatusView EXCEPT ![t] = "running"]
        /\ TaskView' = TaskView /\ t \in 1..Len(TaskView)
        /\ \A i \in DOMAIN TaskView[t].after : results[TaskView[t].after[i]] = "returned"
    BY ViewFacts, ViewsKept, StatusMoves DEF Orders
  <1>2. Lifecycle!Start(t)
    BY <1>1 DEF Lifecycle!Start, TaskView, StatusView
  <1>3. t \in 1..Len([o \in Orders |-> [after |-> ops[o].after, result |-> ops[o].result]])
    BY <1>1 DEF TaskView
  <1> QED  BY <1>2, <1>3 DEF Lifecycle!Next

LEMMA LifeReturns ==
    ASSUME TypeOK, NEW t \in Orders, UNCHANGED <<accepting, ops>>,
           results' = IF ops[t].result = NoResult THEN results
                      ELSE [results EXCEPT ![ops[t].result] = "returned"],
           Status(t) = "running", Status(t)' = "returned", \A o \in Orders \ {t} : Status(o)' = Status(o)
    PROVE  Lifecycle!Next
  <1>1. /\ StatusView[t] = "running" /\ StatusView' = [StatusView EXCEPT ![t] = "returned"]
        /\ TaskView' = TaskView /\ t \in 1..Len(TaskView)
        /\ results' = IF TaskView[t].result = NoResult THEN results
                      ELSE [results EXCEPT ![TaskView[t].result] = "returned"]
    BY ViewFacts, ViewsKept, StatusMoves DEF Orders
  <1>2. Lifecycle!Return(t)
    BY <1>1 DEF Lifecycle!Return, Lifecycle!ResultBecomes, Lifecycle!None, NoResult, TaskView, StatusView
  <1>3. t \in 1..Len([o \in Orders |-> [after |-> ops[o].after, result |-> ops[o].result]])
    BY <1>1 DEF TaskView
  <1> QED  BY <1>2, <1>3 DEF Lifecycle!Next

LEMMA LifeCancels ==
    ASSUME TypeOK, NEW t \in Orders, UNCHANGED <<accepting, ops>>,
           t \in Lifecycle!Doomed \/ (Lifecycle!Doomed = {} /\ ops[t].result # NoResult),
           results' = IF ops[t].result = NoResult THEN results
                      ELSE [results EXCEPT ![ops[t].result] = "cancelled"],
           Status(t) = "queued", Status(t)' = "cancelled", \A o \in Orders \ {t} : Status(o)' = Status(o)
    PROVE  Lifecycle!Next
  <1>1. /\ StatusView[t] = "queued" /\ StatusView' = [StatusView EXCEPT ![t] = "cancelled"]
        /\ TaskView' = TaskView /\ t \in 1..Len(TaskView)
        /\ t \in Lifecycle!Doomed \/ (Lifecycle!Doomed = {} /\ TaskView[t].result # NoResult)
        /\ results' = IF TaskView[t].result = NoResult THEN results
                      ELSE [results EXCEPT ![TaskView[t].result] = "cancelled"]
    BY ViewFacts, ViewsKept, StatusMoves DEF Orders
  <1>2. Lifecycle!Cancel(t)
    BY <1>1 DEF Lifecycle!Cancel, Lifecycle!ResultBecomes, Lifecycle!None, NoResult, TaskView, StatusView
  <1>3. t \in 1..Len([o \in Orders |-> [after |-> ops[o].after, result |-> ops[o].result]])
    BY <1>1 DEF TaskView
  <1> QED  BY <1>2, <1>3 DEF Lifecycle!Next

LEMMA LifeCloses ==
    ASSUME TypeOK, accepting, ~accepting', Lifecycle!Doomed = {}, UNCHANGED <<ops, results>>,
           \A o \in Orders : Status(o)' = Status(o)
    PROVE  Lifecycle!Next
  <1>1. TaskView' = TaskView /\ StatusView' = StatusView
    BY ViewsKept, StatusKept
  <1>2. Lifecycle!Close
    BY <1>1 DEF Lifecycle!Close, TaskView, StatusView
  <1> QED  BY <1>2 DEF Lifecycle!Next

-----------------------------------------------------------------------------
(* What each step of the queue does to where the tasks stand.              *)

\* The tasks in their call before are so after.
CallsStand ==
    \A w \in Workers : \A i \in DOMAIN stack[w] : stack[w][i].phase = "run" =>
        /\ i \in DOMAIN stack'[w]
        /\ stack'[w][i].phase = "run" /\ stack'[w][i].task = stack[w][i].task

LEMMA InCallKept ==
    ASSUME CallsStand, CallsAsBefore
    PROVE  \A o : InCall(o)' = InCall(o)
  <1>1. \A o : InCall(o)' <=> \E w \in Workers : \E i \in DOMAIN stack'[w] :
                                stack'[w][i].task = o /\ stack'[w][i].phase = "run"
    BY DEF InCall
  <1>2. \A o : InCall(o)' <=> InCall(o)
    BY <1>1 DEF InCall, CallsStand, CallsAsBefore
  <1>3. \A o : InCall(o) \in BOOLEAN /\ InCall(o)' \in BOOLEAN
    BY DEF InCall
  <1> QED  BY <1>2, <1>3

\* A frame that runs no task may go, or change, unseen.
LEMMA BecomesStands ==
    ASSUME TypeOK, NEW w \in Workers, Busy(w), NEW f, Becomes(w, f),
           Top(w).phase = "run" => f.phase = "run" /\ f.task = Top(w).task
    PROVE  CallsStand
  <1>1. /\ Len(stack[w]) \in DOMAIN stack[w]
        /\ \A v \in Workers : DOMAIN stack'[v] = DOMAIN stack[v]
        /\ \A v \in Workers : \A i \in DOMAIN stack[v] :
             stack'[v][i] = IF v = w /\ i = Len(stack[w]) THEN f ELSE stack[v][i]
    BY BecomesFacts
  <1>2. Top(w) = stack[w][Len(stack[w])]
    BY DEF Top
  <1> QED  BY <1>1, <1>2 DEF CallsStand

LEMMA PopStands ==
    ASSUME TypeOK, NEW w \in Workers, Busy(w), Pop(w), Top(w).phase # "run"
    PROVE  CallsStand
  BY PopFacts DEF CallsStand, Top

LEMMA QuietStands ==
    ASSUME TypeOK, NEW w \in Workers, QuietStep(w)
    PROVE  CallsStand
  <1>1. Busy(w) => Top(w) \in Frames
    <2>1. stack \in [Workers -> Seq(Frames)]
      BY DEF TypeOK
    <2> QED  BY <2>1 DEF Busy, Top
  <1>2. CASE StartItem(w)
    BY <1>2, StartFacts DEF CallsStand
  <1>3. CASE Pump(w)
    <2>1. PICK f : f = [Top(w) EXCEPT !.drain = Len(loop[w])]
      OBVIOUS
    <2>2. Busy(w) /\ Becomes(w, f)
      BY <1>3, <2>1 DEF Pump, InUserCode, At
    <2>3. f.phase = Top(w).phase /\ f.task = Top(w).task
      BY <1>1, <2>1, <2>2 DEF Frames
    <2> QED  BY <2>2, <2>3, BecomesStands
  <1>4. CASE TakeNone(w) \/ DoneEnd(w) \/ Check(w) \/ Leave(w) \/ UserReturn(w)
    <2>1. Busy(w) /\ Top(w).phase # "run" /\ (Pop(w) \/ \E f : Becomes(w, f))
      BY <1>4 DEF TakeNone, DoneEnd, Check, Leave, UserReturn, At
    <2> QED  BY <2>1, PopStands, BecomesStands
  <1>5. CASE EndLoop(w) \/ ThreadEnd(w) \/ PostOwn(w) \/ PostOther(w) \/ QuitEarly(w)
    BY <1>5 DEF EndLoop, ThreadEnd, PostOwn, PostOther, Post, QuitEarly, CallsStand
  <1> QED  BY <1>2, <1>3, <1>4, <1>5 DEF QuietStep

LEMMA StandsStill ==
    ASSUME UNCHANGED stack
    PROVE  CallsStand /\ CallsAsBefore
  BY DEF CallsStand, CallsAsBefore

LEMMA SameStatus ==
    ASSUME CallsStand, CallsAsBefore, NEW o,
           (o \in started') <=> (o \in started), (o \in unfinished') <=> (o \in unfinished)
    PROVE  Status(o)' = Status(o)
  <1>1. InCall(o)' = InCall(o)
    BY InCallKept
  <1>2. Status(o)' = IF o \in started' THEN IF InCall(o)' THEN "running" ELSE "returned"
                     ELSE IF o \in unfinished' THEN "queued" ELSE "cancelled"
    BY DEF Status
  <1> QED  BY <1>1, <1>2 DEF Status

\* Accepting a task is seen as such: it is the next one, and queued.
LEMMA QueueAppears ==
    ASSUME TypeOK, NEW p \in Priorities, NEW after \in AfterLists, NEW result \in Ids' \union {NoResult},
           Ids \subseteq Ids', Queue(p, after, result), UNCHANGED <<started, stack>>
    PROVE  /\ TaskView' = Append(TaskView, [after |-> after, result |-> result])
           /\ StatusView' = Append(StatusView, "queued")
  <1>1. PICK n \in Nat : n = Len(ops)
    BY ViewFacts
  <1>2. PICK new : new = [priority |-> p, after |-> after, result |-> result]
    OBVIOUS
  <1>3. PICK seen : seen = [after |-> after, result |-> result]
    OBVIOUS
  <1>4. ops' = Append(ops, new) /\ unfinished' = unfinished \union {n + 1}
    BY <1>1, <1>2 DEF Queue
  <1>5. /\ Orders' = 1..(n + 1) /\ Orders = 1..n /\ ops'[n + 1] = new
        /\ \A o \in 1..n : ops'[o] = ops[o]
    <2>1. Orders = 1..n
      BY <1>1 DEF Orders
    <2>2. Orders' = 1..n \union {n + 1} /\ ops'[n + 1] = new /\ \A o \in 1..n : ops'[o] = ops[o]
      BY <1>1, <1>4, <2>1, AcceptedFacts
    <2>3. 1..n \union {n + 1} = 1..(n + 1)
      OBVIOUS
    <2> QED  BY <2>1, <2>2, <2>3
  <1>6. TaskView' = [o \in 1..(n + 1) |-> IF o \in 1..n THEN TaskView[o] ELSE seen]
    <2>1. TaskView' = [o \in Orders' |-> [after |-> ops'[o].after, result |-> ops'[o].result]]
      BY DEF TaskView
    <2>2. \A o \in 1..n : [after |-> ops'[o].after, result |-> ops'[o].result] = TaskView[o]
      BY <1>5 DEF TaskView
    <2>3. [after |-> ops'[n + 1].after, result |-> ops'[n + 1].result] = seen
      BY <1>2, <1>3, <1>5
    <2>4. \A o \in 1..(n + 1) : o \in 1..n \/ o = n + 1
      OBVIOUS
    <2> QED  BY <1>5, <2>1, <2>2, <2>3, <2>4
  <1>7. StatusView' = [o \in 1..(n + 1) |-> IF o \in 1..n THEN StatusView[o] ELSE "queued"]
    <2>1. StatusView' = [o \in Orders' |-> Status(o)']
      BY DEF StatusView
    <2>2. \A o \in 1..n : Status(o)' = StatusView[o]
      <3>1. \A o \in 1..n : o \in unfinished' <=> o \in unfinished
        BY <1>4
      <3>2. \A o \in 1..n : StatusView[o] = Status(o)
        BY <1>5 DEF StatusView
      <3> QED  BY <3>1, <3>2, StandsStill, SameStatus
    <2>3. Status(n + 1)' = "queued"
      <3>1. n + 1 \notin started'
        BY <1>5 DEF TypeOK
      <3> QED  BY <1>4, <3>1 DEF Status
    <2>4. \A o \in 1..(n + 1) : o \in 1..n \/ o = n + 1
      OBVIOUS
    <2> QED  BY <1>5, <2>1, <2>2, <2>3, <2>4
  <1>8. \A s, e : DOMAIN s = 1..n /\ s = [o \in 1..n |-> s[o]]
            => Append(s, e) = [o \in 1..(n + 1) |-> IF o \in 1..n THEN s[o] ELSE e]
    OBVIOUS
  <1>9. /\ DOMAIN TaskView = 1..n /\ TaskView = [o \in 1..n |-> TaskView[o]]
        /\ DOMAIN StatusView = 1..n /\ StatusView = [o \in 1..n |-> StatusView[o]]
    BY <1>5 DEF TaskView, StatusView
  <1>10. TaskView' = Append(TaskView, seen)
    BY <1>6, <1>8, <1>9
  <1>11. StatusView' = Append(StatusView, "queued")
    BY <1>7, <1>8, <1>9
  <1> QED  BY <1>3, <1>10, <1>11

LEMMA CallerLives ==
    ASSUME DependenciesInv, CallerNext
    PROVE  [Lifecycle!Next]_(Lifecycle!lifecycle)
  <1>1. TypeOK
    BY DEF DependenciesInv, HomeInv
  <1>2. Lifecycle!Doomed = {}
    <2>1. mutex = "free"
      BY DEF CallerNext, Submit, Enqueue, EnqueueCancelled, CancelBegin, Stop
    <2> QED  BY <2>1, DoomedIs
  <1>3. ASSUME UNCHANGED <<stack, started, unfinished>>
        PROVE  \A o : Status(o)' = Status(o)
    BY <1>3, StandsStill, SameStatus
  <1>4. ASSUME NEW p \in Priorities, NEW after \in AfterLists, Submit(p, after)
        PROVE  Lifecycle!Next
    <2>1. /\ accepting /\ ~AnyCancelled(after) /\ Queue(p, after, NoResult)
          /\ UNCHANGED <<accepting, results, stack, started>>
      BY <1>4 DEF Submit
    <2>2. Ids' = Ids
      BY <2>1, ResultsKept
    <2>3. /\ TaskView' = Append(TaskView, [after |-> after, result |-> NoResult])
          /\ StatusView' = Append(StatusView, "queued")
      BY <1>1, <2>1, <2>2, QueueAppears
    <2> QED  BY <1>2, <2>1, <2>3, LifeAccepts
  <1>5. ASSUME NEW p \in Priorities, NEW after \in AfterLists, Enqueue(p, after)
        PROVE  Lifecycle!Next
    <2>1. PICK new : new = Len(results) + 1
      OBVIOUS
    <2>2. /\ accepting /\ ~AnyCancelled(after) /\ Queue(p, after, new)
          /\ results' = Append(results, "pending")
          /\ UNCHANGED <<accepting, stack, started>>
      BY <1>5, <2>1 DEF Enqueue
    <2>3. Ids \subseteq Ids' /\ new \in Ids' /\ new # NoResult
      BY <1>1, <2>1, <2>2 DEF TypeOK, Ids, States, NoResult
    <2>4. /\ TaskView' = Append(TaskView, [after |-> after, result |-> new])
          /\ StatusView' = Append(StatusView, "queued")
      BY <1>1, <2>2, <2>3, QueueAppears
    <2>5. /\ new \in {NoResult, Len(results) + 1}
          /\ results' = IF new = NoResult THEN results ELSE Append(results, "pending")
      BY <2>1, <2>2, <2>3
    <2> QED  BY <1>2, <2>2, <2>4, <2>5, LifeAccepts
  <1>6. ASSUME NEW after \in AfterLists, EnqueueCancelled(after)
        PROVE  Lifecycle!Next
    <2>1. /\ accepting /\ AnyCancelled(after) /\ results' = Append(results, "cancelled")
          /\ UNCHANGED <<accepting, ops, stack, started, unfinished>>
      BY <1>6 DEF EnqueueCancelled, workerVars
    <2>2. TaskView' = TaskView /\ StatusView' = StatusView
      BY <1>1, <1>3, <2>1, ViewsKept, StatusKept
    <2> QED  BY <1>2, <2>1, <2>2, LifeAcceptsCancelled
  <1>7. ASSUME NEW order \in Orders, CancelBegin(order)
        PROVE  UNCHANGED Lifecycle!lifecycle
    <2>1. UNCHANGED <<accepting, ops, results, stack, started, unfinished>>
      BY <1>7 DEF CancelBegin, workerVars
    <2> QED  BY <1>1, <1>3, <2>1, LifeStutters
  <1>8. ASSUME Stop
        PROVE  Lifecycle!Next
    <2>1. accepting /\ ~accepting' /\ UNCHANGED <<ops, results, stack, started, unfinished>>
      BY <1>8 DEF Stop, Stopped, queueVars
    <2> QED  BY <1>1, <1>2, <1>3, <2>1, LifeCloses
  <1> QED  BY <1>4, <1>5, <1>6, <1>7, <1>8 DEF CallerNext

\* cancel() takes a task that follows what it cancelled, or the one it was asked for.
LEMMA CancelLives ==
    ASSUME DependenciesInv, CancelNext
    PROVE  [Lifecycle!Next]_(Lifecycle!lifecycle)
  <1>1. TypeOK
    BY DEF DependenciesInv, HomeInv
  <1>2. CASE CancelEnd
    <2>1. UNCHANGED <<accepting, ops, results, stack, started, unfinished>>
      BY <1>2 DEF CancelEnd, queueVars, workerVars
    <2>2. \A o \in Orders : Status(o)' = Status(o)
      BY <2>1, StandsStill, SameStatus
    <2> QED  BY <1>1, <2>1, <2>2, LifeStutters
  <1>3. ASSUME NEW t \in Orders, CancelStep(t)
        PROVE  Lifecycle!Next
    <2>1. PICK id : id = ops[t].result
      OBVIOUS
    <2>2. /\ t \in removing /\ unfinished' = unfinished \ {t}
          /\ UNCHANGED <<accepting, ops, started, stack>>
          /\ id = NoResult => UNCHANGED results
          /\ id # NoResult => results' = [results EXCEPT ![id] = IF @ = "pending" THEN "cancelled" ELSE @]
      BY <1>3, <2>1 DEF CancelStep, workerVars
    <2>3. t \in unfinished /\ t \notin started
      BY <2>2 DEF DependenciesInv, HomeInv, OneHome, HandsCover, StartedOnce
    <2>4. id # NoResult => id \in Ids /\ results[id] = "pending"
      <3> SUFFICES ASSUME id # NoResult PROVE id \in Ids /\ results[id] = "pending"
        OBVIOUS
      <3>1. id \in Ids /\ results[id] \in States
        BY <1>1, <2>1, OpFacts, ResultFacts
      <3>2. results[id] # "returned" /\ results[id] # "cancelled"
        BY <2>1, <2>3 DEF DependenciesInv, DependsFit, ResultsFit, ResultsFollow
      <3> QED  BY <3>1, <3>2 DEF States
    <2>5. results' = IF id = NoResult THEN results ELSE [results EXCEPT ![id] = "cancelled"]
      BY <2>2, <2>4
    <2>6. t \in Lifecycle!Doomed \/ (Lifecycle!Doomed = {} /\ id # NoResult)
      <3>1. CASE Names(t, "cancelled")
        BY <2>3, <3>1, DoomedIs
      <3>2. CASE ~Names(t, "cancelled")
        <4>1. removing = {t} /\ id # NoResult
          BY <2>1, <2>2, <3>2 DEF DependenciesInv, DependsFit, CancelsFit
        <4>2. \A o \in Orders : ~(o \in unfinished /\ Names(o, "cancelled"))
          BY <3>2, <4>1 DEF DependenciesInv, DependsFit, CancelsFit
        <4> QED  BY <4>1, <4>2, DoomedIs
      <3> QED  BY <3>1, <3>2
    <2>7. Status(t) = "queued"
      BY <2>3 DEF Status
    <2>8. Status(t)' = "cancelled"
      BY <2>2, <2>3 DEF Status
    <2>9. \A o \in Orders \ {t} : Status(o)' = Status(o)
      BY <2>2, StandsStill, SameStatus
    <2> QED  BY <1>1, <2>1, <2>2, <2>5, <2>6, <2>7, <2>8, <2>9, LifeCancels
  <1> QED  BY <1>2, <1>3 DEF CancelNext

\* take() starts a task all of whose results have returned.
LEMMA TakeLives ==
    ASSUME DependenciesInv, NEW w \in Workers, Take(w)
    PROVE  Lifecycle!Next
  <1>1. TypeOK
    BY DEF DependenciesInv, HomeInv
  <1>2. PICK p \in Priorities : /\ Foremost(p) /\ started' = started \union {Head(tasks[p])}
                                /\ Becomes(w, [Top(w) EXCEPT !.phase = "run", !.task = Head(tasks[p])])
    BY DEF Take
  <1>3. PICK t : t = Head(tasks[p])
    OBVIOUS
  <1>4. PICK f : f = [Top(w) EXCEPT !.phase = "run", !.task = t]
    OBVIOUS
  <1>5. /\ mutex = "free" /\ Busy(w) /\ Top(w).phase = "take" /\ Becomes(w, f)
        /\ started' = started \union {t}
        /\ UNCHANGED <<accepting, ops, results, unfinished>>
    BY <1>2, <1>3, <1>4 DEF Take, At
  <1>6. t \in Ready /\ t \in Orders
    <2>1. tasks[p] \in Seq(Orders) /\ tasks[p] # <<>>
      BY <1>1, <1>2 DEF TypeOK, Foremost
    <2>2. t = tasks[p][1] /\ 1 \in DOMAIN tasks[p] /\ t \in Orders
      BY <1>3, <2>1, HeadTailFacts
    <2> QED  BY <2>2, ReadyIs
  <1>7. Status(t) = "queued"
    BY <1>6 DEF Status, DependenciesInv, HomeInv, OneHome, HandsCover, StartedOnce
  <1>8. /\ Len(stack[w]) \in DOMAIN stack[w]
        /\ \A v \in Workers : DOMAIN stack'[v] = DOMAIN stack[v]
        /\ \A v \in Workers : \A i \in DOMAIN stack[v] :
             stack'[v][i] = IF v = w /\ i = Len(stack[w]) THEN f ELSE stack[v][i]
    BY <1>1, <1>5, BecomesFacts
  <1>9. f.phase = "run" /\ f.task = t
    <2>1. stack \in [Workers -> Seq(Frames)]
      BY <1>1 DEF TypeOK
    <2>2. Top(w) \in Frames
      BY <1>5, <2>1 DEF Busy, Top
    <2> QED  BY <1>4, <2>2 DEF Frames
  <1>10. Status(t)' = "running"
    <2>1. stack'[w][Len(stack[w])].phase = "run" /\ stack'[w][Len(stack[w])].task = t
      BY <1>8, <1>9
    <2>2. InCall(t)'
      BY <1>8, <2>1 DEF InCall
    <2> QED  BY <1>5, <2>2 DEF Status
  <1>11. ASSUME NEW o \in Orders \ {t}
         PROVE  Status(o)' = Status(o)
    <2>1. stack[w][Len(stack[w])].phase # "run"
      BY <1>5 DEF Top
    <2>2. InCall(o)' <=> \E v \in Workers : \E i \in DOMAIN stack'[v] :
                            stack'[v][i].task = o /\ stack'[v][i].phase = "run"
      BY DEF InCall
    <2>3. InCall(o)' <=> InCall(o)
      BY <1>8, <1>9, <2>1, <2>2 DEF InCall
    <2>4. Status(o)' = IF o \in started' THEN IF InCall(o)' THEN "running" ELSE "returned"
                       ELSE IF o \in unfinished' THEN "queued" ELSE "cancelled"
      BY DEF Status
    <2> QED  BY <1>5, <2>3, <2>4 DEF Status
  <1>12. \A i \in DOMAIN ops[t].after : results[ops[t].after[i]] = "returned"
    BY <1>6 DEF DependenciesInv, DependsFit, RunsAfterAll
  <1>13. Lifecycle!Doomed = {}
    BY <1>5, DoomedIs
  <1> QED  BY <1>1, <1>5, <1>6, <1>7, <1>10, <1>11, <1>12, <1>13, LifeStarts

\* A task that returns was in its call once, and its result still pending.
LEMMA ReturnLives ==
    ASSUME DependenciesInv, NEW w \in Workers, Return(w)
    PROVE  Lifecycle!Next
  <1>1. TypeOK
    BY DEF DependenciesInv, HomeInv
  <1>2. PICK t : t = Top(w).task
    OBVIOUS
  <1>3. PICK id : id = ops[t].result
    OBVIOUS
  <1>4. PICK f : f = [Top(w) EXCEPT !.phase = "returned"]
    OBVIOUS
  <1>5. /\ Busy(w) /\ Top(w).phase = "run" /\ Becomes(w, f)
        /\ results' = IF id # NoResult /\ results[id] = "pending"
                        THEN [results EXCEPT ![id] = "returned"] ELSE results
        /\ UNCHANGED <<accepting, ops, started, unfinished>>
    BY <1>2, <1>3, <1>4 DEF Return, At
  <1>6. /\ Len(stack[w]) \in DOMAIN stack[w] /\ Top(w) = stack[w][Len(stack[w])]
        /\ \A v \in Workers : DOMAIN stack'[v] = DOMAIN stack[v]
        /\ \A v \in Workers : \A i \in DOMAIN stack[v] :
             stack'[v][i] = IF v = w /\ i = Len(stack[w]) THEN f ELSE stack[v][i]
    BY <1>1, <1>5, BecomesFacts DEF Top
  <1>7. Top(w) \in Frames /\ f.phase = "returned" /\ f.task = t
    <2>1. stack \in [Workers -> Seq(Frames)]
      BY <1>1 DEF TypeOK
    <2>2. Top(w) \in Frames
      BY <1>5, <2>1 DEF Busy, Top
    <2> QED  BY <1>2, <1>4, <2>2 DEF Frames
  <1>8. t # NoTask /\ (id # NoResult => results[id] = "pending")
    BY <1>2, <1>3, <1>5, <1>6 DEF DependenciesInv, DependsFit, ResultsFit, FramesFollow
  <1>9. t \in Orders
    BY <1>2, <1>7, <1>8 DEF Frames
  <1>10. t \in started
    <2>1. t \in Running
      BY <1>2, <1>6, <1>8, RunningIs
    <2> QED  BY <2>1 DEF DependenciesInv, HomeInv, OneHome, StartedOnce
  <1>11. Status(t) = "running"
    <2>1. InCall(t)
      BY <1>2, <1>5, <1>6 DEF InCall
    <2> QED  BY <1>10, <2>1 DEF Status
  <1>12. Status(t)' = "returned"
    <2>1. \A v \in Workers : \A i \in DOMAIN stack[v] :
             stack[v][i].task = t => v = w /\ i = Len(stack[w])
      BY <1>2, <1>6, <1>8 DEF DependenciesInv, HomeInv, OneHome, FramesApart
    <2>2. ~InCall(t)'
      BY <1>6, <1>7, <2>1 DEF InCall
    <2> QED  BY <1>5, <1>10, <2>2 DEF Status
  <1>13. ASSUME NEW o \in Orders \ {t}
         PROVE  Status(o)' = Status(o)
    <2>1. InCall(o)' <=> \E v \in Workers : \E i \in DOMAIN stack'[v] :
                            stack'[v][i].task = o /\ stack'[v][i].phase = "run"
      BY DEF InCall
    <2>2. InCall(o)' <=> InCall(o)
      BY <1>2, <1>6, <1>7, <2>1 DEF InCall
    <2>3. Status(o)' = IF o \in started' THEN IF InCall(o)' THEN "running" ELSE "returned"
                       ELSE IF o \in unfinished' THEN "queued" ELSE "cancelled"
      BY DEF Status
    <2> QED  BY <1>5, <2>2, <2>3 DEF Status
  <1>14. results' = IF id = NoResult THEN results ELSE [results EXCEPT ![id] = "returned"]
    BY <1>5, <1>8
  <1> QED  BY <1>1, <1>3, <1>5, <1>9, <1>11, <1>12, <1>13, <1>14, LifeReturns

\* A worker's other steps are seen by nobody.
LEMMA WorkerLives ==
    ASSUME DependenciesInv, NEW w \in Workers, WorkerNext(w) \/ UserNext(w), ~Take(w), ~Return(w)
    PROVE  UNCHANGED Lifecycle!lifecycle
  <1>1. TypeOK
    BY DEF DependenciesInv, HomeInv
  <1>2. CASE QuietStep(w)
    <2>1. \A o \in Orders : Status(o)' = Status(o)
      BY <1>1, <1>2, QuietStands, QuietCalls, QuietKeeps, SameStatus
    <2> QED  BY <1>1, <1>2, <2>1, QuietKeeps, LifeStutters
  <1>3. CASE CountOff(w)
    <2>1. UNCHANGED <<accepting, ops, results, stack, started, unfinished>>
      BY <1>3 DEF CountOff
    <2>2. \A o \in Orders : Status(o)' = Status(o)
      BY <2>1, StandsStill, SameStatus
    <2> QED  BY <1>1, <2>1, <2>2, LifeStutters
  <1>4. CASE Done(w)
    <2>1. PICK f : f = [Top(w) EXCEPT !.phase = "count", !.task = NoTask]
      OBVIOUS
    <2>2. /\ Busy(w) /\ Top(w).phase = "returned" /\ Becomes(w, f)
          /\ unfinished' = unfinished \ {Top(w).task}
          /\ UNCHANGED <<accepting, ops, results, started>>
      BY <1>4, <2>1 DEF Done, At
    <2>3. stack[w][Len(stack[w])] = Top(w) /\ Len(stack[w]) \in DOMAIN stack[w]
      BY <1>1, <2>2, BecomesFacts DEF Top
    <2>4. f.phase = "count"
      <3>1. stack \in [Workers -> Seq(Frames)]
        BY <1>1 DEF TypeOK
      <3>2. Top(w) \in Frames
        BY <2>2, <3>1 DEF Busy, Top
      <3> QED  BY <2>1, <3>2 DEF Frames
    <2>5. CallsStand /\ CallsAsBefore
      BY <1>1, <2>2, <2>4, BecomesStands, BecomesCalls
    <2>6. Top(w).task \in started
      <3>1. Top(w).task # NoTask
        BY <2>2, <2>3 DEF DependenciesInv, DependsFit, ResultsFit, FramesFollow
      <3>2. Top(w).task \in Running
        BY <2>3, <3>1, RunningIs
      <3> QED  BY <3>2 DEF DependenciesInv, HomeInv, OneHome, StartedOnce
    <2>7. ASSUME NEW o \in Orders
          PROVE  Status(o)' = Status(o)
      <3>1. CASE o = Top(w).task
        <4>1. InCall(o)' = InCall(o)
          BY <2>5, InCallKept
        <4>2. Status(o)' = IF o \in started' THEN IF InCall(o)' THEN "running" ELSE "returned"
                           ELSE IF o \in unfinished' THEN "queued" ELSE "cancelled"
          BY DEF Status
        <4> QED  BY <2>2, <2>6, <3>1, <4>1, <4>2 DEF Status
      <3>2. CASE o # Top(w).task
        BY <2>2, <2>5, <3>2, SameStatus
      <3> QED  BY <3>1, <3>2
    <2> QED  BY <1>1, <2>2, <2>7, LifeStutters
  <1> QED  BY <1>2, <1>3, <1>4 DEF WorkerNext, UserNext, QuietStep

\* shutdown() may be who stops the queue; no other wait is seen.
LEMMA ClientLives ==
    ASSUME DependenciesInv, NEW c \in Clients, ClientNext(c) \/ ClientCall(c)
    PROVE  [Lifecycle!Next]_(Lifecycle!lifecycle)
  <1>1. TypeOK
    BY DEF DependenciesInv, HomeInv
  <1>2. UNCHANGED <<ops, results, stack, started, unfinished>>
    BY ClientKeeps
  <1>3. \A o \in Orders : Status(o)' = Status(o)
    BY <1>2, StandsStill, SameStatus
  <1>4. CASE UNCHANGED accepting
    BY <1>1, <1>2, <1>3, <1>4, LifeStutters
  <1>5. CASE ~UNCHANGED accepting
    <2>1. ShutdownBegin(c)
      BY <1>5 DEF ClientNext, ClientCall, WaitBegin, WaitCheck, WaitTimeout, ShutdownJoined, ShutdownTimeout,
         ResultBegin, ResultCheck, ResultTimeout
    <2>2. mutex = "free" /\ accepting' = FALSE
      BY <2>1 DEF ShutdownBegin, Stopped
    <2>3. accepting /\ Lifecycle!Doomed = {}
      BY <1>1, <1>5, <2>2, DoomedIs DEF TypeOK
    <2> QED  BY <1>1, <1>2, <1>3, <2>2, <2>3, LifeCloses
  <1> QED  BY <1>4, <1>5

LEMMA LifeStep == DependenciesInv /\ [Next]_vars => [Lifecycle!Next]_(Lifecycle!lifecycle)
  <1> SUFFICES ASSUME DependenciesInv, [Next]_vars PROVE [Lifecycle!Next]_(Lifecycle!lifecycle)
    OBVIOUS
  <1>1. ASSUME NEW w \in Workers, WorkerNext(w) \/ UserNext(w)
        PROVE  [Lifecycle!Next]_(Lifecycle!lifecycle)
    BY <1>1, TakeLives, ReturnLives, WorkerLives
  <1>2. CASE UNCHANGED vars
    <2>1. UNCHANGED <<accepting, ops, results, stack, started, unfinished>>
      BY <1>2 DEF vars
    <2>2. \A o \in Orders : Status(o)' = Status(o)
      BY <2>1, StandsStill, SameStatus
    <2> QED  BY <2>1, <2>2, LifeStutters DEF DependenciesInv, HomeInv
  <1> QED  BY <1>1, <1>2, CallerLives, CancelLives, ClientLives DEF Next

\* The queue does of tasks and results what operation_queue.h and operation.h promise,
\* whatever its workers, lists and counts: a task starts once all it runs after has
\* returned, one that has started is never cancelled, and cancelling one is seen to
\* cancel all that follow it before anything else is accepted or started.
THEOREM QueueImplementsLifecycle == Spec => ImplementsLifecycle
  <1>1. Init => Lifecycle!Init
    <2> SUFFICES ASSUME Init PROVE Lifecycle!Init
      OBVIOUS
    <2>1. Orders = {}
      BY DEF Init, Orders
    <2>2. TaskView = <<>> /\ StatusView = <<>>
      BY <2>1 DEF TaskView, StatusView
    <2> QED  BY <2>2 DEF Init, Lifecycle!Init, TaskView, StatusView
  <1> QED  BY <1>1, LifeStep, DependenciesAlways, PTL DEF Spec, ImplementsLifecycle, Lifecycle!Spec

-----------------------------------------------------------------------------
(* The inductive invariant of the workers.                                 *)

\* Between taking tasks and finding none left.
SweepPhases == {"take", "run", "returned", "count"}
InSweep(w) == \E i \in DOMAIN stack[w] : stack[w][i].phase \in SweepPhases

\* An item the queue handed the worker is on its loop.
Called(w, items) == \E i \in DOMAIN loop[w] : loop[w][i] \in items

FrameFits(w) ==
    \A i \in DOMAIN stack[w] :
        /\ stack[w][i].phase \in SweepPhases => stack[w][i].job \in QueueItems
        /\ stack[w][i].phase \in {"check", "leave"} => stack[w][i].job = "finish"
        /\ stack[w][i].phase = "leave" => ~Called(w, {"sweep"})

\* A worker has one finishing item, from stop() to its last look at its loop.
Finishing(w) == \E i \in DOMAIN stack[w] : stack[w][i].job = "finish"
FinishFits(w) ==
    /\ \A i, j \in DOMAIN loop[w] : loop[w][i] = "finish" /\ loop[w][j] = "finish" => i = j
    /\ \A i, j \in DOMAIN stack[w] : stack[w][i].job = "finish" /\ stack[w][j].job = "finish" => i = j
    /\ Finishing(w) => ~Called(w, {"finish"})
    /\ accepting => ~Called(w, {"finish"}) /\ ~Finishing(w)

\* One that ends on its own does so after stop(), with nothing of the queue's to do.
LifeFits(w) ==
    /\ life[w] # "running" => loop[w] = <<>> /\ stack[w] = <<>>
    /\ life[w] # "running" /\ w \notin early => ~accepting
    /\ quitting[w] /\ w \notin early => ~accepting /\ ~Called(w, QueueItems) /\ ~Finishing(w)

SweepFits(w) == sweeping[w] /\ life[w] = "running" => Called(w, QueueItems) \/ InSweep(w)

WorkerFits(w) == FrameFits(w) /\ FinishFits(w) /\ LifeFits(w) /\ SweepFits(w)

\* While the queue accepts, a ready task is swept for by every worker.
ReadySwept == accepting /\ Ready # {} => \A w \in Workers : sweeping[w]

\* While a task is unfinished, one worker at least will look for ready tasks: one
\* with a task in hand, or else every one that nobody else quit.
Attended ==
    unfinished # {} => \A u \in Workers \ early : Called(u, QueueItems) \/ \E w \in Workers : InSweep(w)

EndingInv == DependenciesInv /\ (\A w \in Workers : WorkerFits(w)) /\ ReadySwept /\ Attended

-----------------------------------------------------------------------------
(* Numbers and lists.                                                      *)

LEMMA LeastNumber ==
    ASSUME NEW T, T \subseteq Nat, T # {}
    PROVE  \E x \in T : \A y \in T : x <= y
  <1>1. PICK x \in T : \A y \in T : ~(<<y, x>> \in OpToRel(<, Nat))
    BY WFMin, NatLessThanWellFounded, Zenon
  <1>2. \A y \in T : ~(y < x)
    BY <1>1, Zenon DEF OpToRel
  <1> QED  BY <1>2

LEMMA AppendCalls ==
    ASSUME NEW s \in Seq(Items), NEW item \in Items
    PROVE  /\ DOMAIN Append(s, item) = DOMAIN s \union {Len(s) + 1} /\ Len(s) + 1 \notin DOMAIN s
           /\ \A i \in DOMAIN s : Append(s, item)[i] = s[i]
           /\ Append(s, item)[Len(s) + 1] = item
  OBVIOUS

\* A worker nothing happens to.
LEMMA AloneFits ==
    ASSUME NEW w \in Workers, WorkerFits(w), accepting' => accepting,
           loop'[w] = loop[w], stack'[w] = stack[w], life'[w] = life[w],
           quitting'[w] => quitting[w], sweeping'[w] => sweeping[w], w \in early => w \in early'
    PROVE  WorkerFits(w)'
  <1>1. FrameFits(w)' /\ FinishFits(w)'
    BY DEF WorkerFits, FrameFits, FinishFits, Called, Finishing
  <1>2. LifeFits(w)' /\ SweepFits(w)'
    BY DEF WorkerFits, LifeFits, SweepFits, Called, Finishing, InSweep
  <1> QED  BY <1>1, <1>2 DEF WorkerFits

\* The innermost item goes on.
LEMMA GoesOnFits ==
    ASSUME TypeOK, NEW w \in Workers, WorkerFits(w), Busy(w), NEW f, Becomes(w, f),
           f.job = Top(w).job, UNCHANGED <<accepting, loop, life, quitting, early>>,
           sweeping'[w] => sweeping[w],
           f.phase \in SweepPhases => Top(w).phase \in SweepPhases,
           Top(w).phase \in SweepPhases /\ sweeping'[w] => f.phase \in SweepPhases,
           f.phase \in {"check", "leave"} => f.job = "finish",
           f.phase = "leave" => ~Called(w, {"sweep"})
    PROVE  WorkerFits(w)'
  <1>1. PICK n : n = Len(stack[w])
    OBVIOUS
  <1>2. /\ n \in DOMAIN stack[w] /\ DOMAIN stack'[w] = DOMAIN stack[w] /\ stack[w][n] = Top(w)
        /\ \A i \in DOMAIN stack[w] : stack'[w][i] = IF i = n THEN f ELSE stack[w][i]
    BY <1>1, BecomesFacts DEF Top
  <1>3. \A i \in DOMAIN stack[w] : stack'[w][i].job = stack[w][i].job
    BY <1>2
  <1>4. Finishing(w)' = Finishing(w) /\ \A items : Called(w, items)' = Called(w, items)
    BY <1>2, <1>3 DEF Finishing, Called
  <1>5. FrameFits(w)'
    <2>1. ASSUME NEW i \in DOMAIN stack'[w]
          PROVE  /\ stack'[w][i].phase \in SweepPhases => stack'[w][i].job \in QueueItems
                 /\ stack'[w][i].phase \in {"check", "leave"} => stack'[w][i].job = "finish"
                 /\ stack'[w][i].phase = "leave" => ~Called(w, {"sweep"})
      <3>1. CASE i = n
        BY <1>2, <1>3, <3>1 DEF WorkerFits, FrameFits
      <3>2. CASE i # n
        BY <1>2, <3>2 DEF WorkerFits, FrameFits
      <3> QED  BY <3>1, <3>2
    <2>2. Called(w, {"sweep"})' = Called(w, {"sweep"})
      BY <1>4
    <2> QED  BY <2>1, <2>2 DEF FrameFits, SweepPhases, QueueItems
  <1>6. FinishFits(w)'
    BY <1>2, <1>3, <1>4 DEF WorkerFits, FinishFits
  <1>7. LifeFits(w)'
    <2>1. stack[w] # <<>>
      BY DEF Busy
    <2> QED  BY <1>4, <2>1 DEF WorkerFits, LifeFits
  <1>8. SweepFits(w)'
    <2> SUFFICES ASSUME sweeping'[w], life[w] = "running"
                 PROVE  Called(w, QueueItems)' \/ \E i \in DOMAIN stack'[w] : stack'[w][i].phase \in SweepPhases
      BY DEF SweepFits, InSweep, SweepPhases
    <2>1. Called(w, QueueItems) \/ \E i \in DOMAIN stack[w] : stack[w][i].phase \in SweepPhases
      BY DEF WorkerFits, SweepFits, InSweep
    <2>2. Called(w, QueueItems)' = Called(w, QueueItems)
      BY DEF Called, QueueItems
    <2> QED  BY <1>2, <2>1, <2>2
  <1> QED  BY <1>5, <1>6, <1>7, <1>8 DEF WorkerFits

\* The innermost item is over: the frames below it stay.
LEMMA PopFits ==
    ASSUME TypeOK, NEW w \in Workers, WorkerFits(w), Busy(w), Pop(w)
    PROVE  /\ \A i \in DOMAIN stack'[w] : i \in DOMAIN stack[w] /\ stack'[w][i] = stack[w][i]
           /\ Finishing(w)' => Finishing(w)
           /\ Top(w).job = "finish" => ~Finishing(w)'
           /\ InSweep(w)' => InSweep(w)
           /\ InSweep(w) /\ Top(w).phase \notin SweepPhases => InSweep(w)'
  <1>1. PICK n : n = Len(stack[w])
    OBVIOUS
  <1>2. /\ n \in DOMAIN stack[w] /\ DOMAIN stack'[w] = DOMAIN stack[w] \ {n} /\ stack[w][n] = Top(w)
        /\ \A i \in DOMAIN stack'[w] : stack'[w][i] = stack[w][i]
    BY <1>1, PopFacts DEF Top
  <1>3. Top(w).job = "finish" => ~Finishing(w)'
    <2> SUFFICES ASSUME Top(w).job = "finish", NEW i \in DOMAIN stack'[w], stack'[w][i].job = "finish"
                 PROVE  FALSE
      BY DEF Finishing
    <2>1. i # n /\ stack[w][i].job = "finish" /\ stack[w][n].job = "finish" /\ i \in DOMAIN stack[w]
      BY <1>2
    <2> QED  BY <1>2, <2>1 DEF WorkerFits, FinishFits
  <1>4. InSweep(w) /\ Top(w).phase \notin SweepPhases => InSweep(w)'
    BY <1>2 DEF InSweep, SweepPhases
  <1>5. (Finishing(w)' => Finishing(w)) /\ (InSweep(w)' => InSweep(w))
    BY <1>2 DEF Finishing, InSweep, SweepPhases
  <1> QED  BY <1>2, <1>3, <1>4, <1>5

\* It is over, and leaves its loop as it is or, its last look, queued again or quit.
LEMMA OverFits ==
    ASSUME TypeOK, NEW w \in Workers, WorkerFits(w), Busy(w), Pop(w), UNCHANGED <<accepting, life, early>>,
           sweeping'[w] => sweeping[w], sweeping'[w] => Top(w).phase \notin SweepPhases,
           \/ UNCHANGED <<loop, quitting>>
           \/ Top(w).job = "finish" /\ loop' = [loop EXCEPT ![w] = Append(@, "finish")] /\ UNCHANGED quitting
           \/ Top(w).phase = "leave" /\ UNCHANGED loop /\ quitting' = [quitting EXCEPT ![w] = TRUE]
    PROVE  WorkerFits(w)'
  <1>1. /\ \A i \in DOMAIN stack'[w] : i \in DOMAIN stack[w] /\ stack'[w][i] = stack[w][i]
        /\ Finishing(w)' => Finishing(w)
        /\ Top(w).job = "finish" => ~Finishing(w)'
        /\ InSweep(w) /\ Top(w).phase \notin SweepPhases => InSweep(w)'
    BY PopFits
  <1>2. stack[w] # <<>> /\ life[w] = "running"
    BY DEF Busy, WorkerFits, LifeFits, TypeOK
  <1>3. SweepFits(w)' <=> (sweeping'[w] /\ life'[w] = "running" => Called(w, QueueItems)' \/ InSweep(w)')
    BY DEF SweepFits
  <1>4. ASSUME UNCHANGED loop
        PROVE  FrameFits(w)' /\ FinishFits(w)' /\ SweepFits(w)' /\ \A items : Called(w, items)' = Called(w, items)
    <2>1. \A items : Called(w, items)' = Called(w, items)
      BY <1>4 DEF Called
    <2>2. FrameFits(w)' /\ FinishFits(w)'
      BY <1>1, <1>4 DEF WorkerFits, FrameFits, FinishFits, Called
    <2>3. Called(w, QueueItems)' = Called(w, QueueItems)
      BY <1>4 DEF Called, QueueItems
    <2> QED  BY <1>1, <1>3, <2>1, <2>2, <2>3 DEF WorkerFits, SweepFits
  <1>5. CASE UNCHANGED <<loop, quitting>>
    BY <1>1, <1>2, <1>4, <1>5 DEF WorkerFits, LifeFits, QueueItems, Called
  <1>6. CASE /\ Top(w).phase = "leave" /\ UNCHANGED loop
             /\ quitting' = [quitting EXCEPT ![w] = TRUE]
    <2>1. Len(stack[w]) \in DOMAIN stack[w] /\ stack[w][Len(stack[w])] = Top(w)
      BY PopFacts DEF Top
    <2>2. Top(w).job = "finish" /\ ~Called(w, {"sweep"})
      BY <1>6, <2>1 DEF WorkerFits, FrameFits
    <2>3. Finishing(w)
      BY <2>1, <2>2 DEF Finishing
    <2>4. ~accepting /\ ~Called(w, {"finish"}) /\ ~Finishing(w)'
      BY <1>1, <2>2, <2>3 DEF WorkerFits, FinishFits
    <2>5. ~Called(w, QueueItems)
      BY <2>2, <2>4 DEF Called, QueueItems
    <2>6. LifeFits(w)'
      <3>1. ~Called(w, QueueItems)'
        BY <1>6, <2>5 DEF Called, QueueItems
      <3> QED  BY <1>2, <2>4, <3>1 DEF LifeFits
    <2> QED  BY <1>4, <1>6, <2>6 DEF WorkerFits
  <1>7. CASE /\ Top(w).job = "finish" /\ loop' = [loop EXCEPT ![w] = Append(@, "finish")]
             /\ UNCHANGED quitting
    <2>1. Len(stack[w]) \in DOMAIN stack[w] /\ stack[w][Len(stack[w])].job = "finish"
      BY <1>7, PopFacts DEF Top
    <2>2. Finishing(w)
      BY <2>1 DEF Finishing
    <2>3. ~accepting /\ ~Called(w, {"finish"}) /\ ~Finishing(w)' /\ (quitting[w] => w \in early)
      BY <1>1, <1>7, <2>2 DEF WorkerFits, FinishFits, LifeFits
    <2>4. loop[w] \in Seq(Items) /\ loop'[w] = Append(loop[w], "finish") /\ "finish" \in Items
      BY <1>7 DEF TypeOK, Items
    <2>5. /\ DOMAIN loop'[w] = DOMAIN loop[w] \union {Len(loop[w]) + 1} /\ Len(loop[w]) + 1 \notin DOMAIN loop[w]
          /\ \A i \in DOMAIN loop[w] : loop'[w][i] = loop[w][i] /\ loop[w][i] # "finish"
          /\ loop'[w][Len(loop[w]) + 1] = "finish"
      BY <2>3, <2>4, AppendCalls DEF Called
    <2>6. Called(w, {"sweep"})' => Called(w, {"sweep"})
      BY <2>5 DEF Called
    <2>7. Called(w, QueueItems)'
      BY <2>5 DEF Called, QueueItems
    <2>8. FrameFits(w)'
      BY <1>1, <2>6 DEF WorkerFits, FrameFits
    <2>9. FinishFits(w)'
      <3>1. \A i, j \in DOMAIN loop'[w] : loop'[w][i] = "finish" /\ loop'[w][j] = "finish" => i = j
        BY <2>5
      <3>2. \A i, j \in DOMAIN stack'[w] : stack'[w][i].job = "finish" /\ stack'[w][j].job = "finish" => i = j
        BY <1>1 DEF WorkerFits, FinishFits
      <3> QED  BY <2>3, <3>1, <3>2 DEF FinishFits
    <2>10. LifeFits(w)'
      BY <1>2, <1>7, <2>3 DEF LifeFits
    <2> QED  BY <1>3, <2>7, <2>8, <2>9, <2>10 DEF WorkerFits
  <1> QED  BY <1>5, <1>6, <1>7

\* Whether a worker is called, once an item has been taken off its loop.
LEMMA StartCalls ==
    ASSUME TypeOK, NEW w \in Workers, StartItem(w)
    PROVE  /\ Head(loop[w]) \in Items /\ life[w] = "running"
           /\ \A items : Called(w, items)' => Called(w, items)
           /\ \A items : Called(w, items) => Called(w, items)' \/ Head(loop[w]) \in items
           /\ Head(loop[w]) = loop[w][1] /\ 1 \in DOMAIN loop[w]
           /\ \A i \in DOMAIN loop'[w] : /\ i + 1 \in DOMAIN loop[w] /\ loop'[w][i] = loop[w][i + 1]
                                         /\ i + 1 # 1 /\ \A j \in DOMAIN loop'[w] : i + 1 = j + 1 => i = j
  <1>1. PICK s : s = loop[w]
    OBVIOUS
  <1>2. s \in Seq(Items) /\ s # <<>> /\ life[w] = "running"
    BY <1>1 DEF StartItem, TypeOK
  <1>3. PICK t : t = Tail(s)
    OBVIOUS
  <1>4. loop'[w] = t
    BY <1>1, <1>3 DEF StartItem, TypeOK
  <1>5. /\ Head(s) \in Items /\ Head(s) = s[1] /\ 1 \in DOMAIN s
        /\ \A i \in DOMAIN t : i + 1 \in DOMAIN s /\ t[i] = s[i + 1]
        /\ DOMAIN t = 1..(Len(s) - 1) /\ DOMAIN s = 1..Len(s) /\ Len(s) \in Nat
    BY <1>2, <1>3, HeadTailFacts
  <1>6. \A i \in DOMAIN s : i = 1 \/ (i - 1 \in DOMAIN t /\ t[i - 1] = s[i])
    BY <1>5
  <1>7. \A items : (\E i \in DOMAIN t : t[i] \in items) => \E i \in DOMAIN s : s[i] \in items
    BY <1>5
  <1>8. \A items : (\E i \in DOMAIN s : s[i] \in items) => (\E i \in DOMAIN t : t[i] \in items) \/ s[1] \in items
    BY <1>6
  <1>9. \A i \in DOMAIN t : i + 1 # 1 /\ \A j \in DOMAIN t : i + 1 = j + 1 => i = j
    BY <1>5
  <1> QED  BY <1>1, <1>2, <1>4, <1>5, <1>7, <1>8, <1>9 DEF Called

LEMMA StartFits ==
    ASSUME TypeOK, NEW w \in Workers, WorkerFits(w), StartItem(w)
    PROVE  WorkerFits(w)' /\ (InSweep(w) => InSweep(w)')
  <1>1. PICK item : item = Head(loop[w])
    OBVIOUS
  <1>2. PICK n : n = Len(stack[w]) + 1
    OBVIOUS
  <1>3. /\ item \in Items /\ life[w] = "running"
        /\ \A items : Called(w, items)' => Called(w, items)
        /\ \A items : Called(w, items) => Called(w, items)' \/ item \in items
        /\ item = loop[w][1] /\ 1 \in DOMAIN loop[w]
        /\ \A i \in DOMAIN loop'[w] : /\ i + 1 \in DOMAIN loop[w] /\ loop'[w][i] = loop[w][i + 1]
                                      /\ i + 1 # 1 /\ \A j \in DOMAIN loop'[w] : i + 1 = j + 1 => i = j
    BY <1>1, StartCalls
  <1>4. /\ DOMAIN stack'[w] = DOMAIN stack[w] \union {n} /\ n \notin DOMAIN stack[w]
        /\ \A i \in DOMAIN stack[w] : /\ stack'[w][i].phase = stack[w][i].phase
                                      /\ stack'[w][i].job = stack[w][i].job
        /\ stack'[w][n].job = item
        /\ stack'[w][n].phase = IF item \in QueueItems THEN "take" ELSE "user"
    <2>1. FrameOf(item).job = item /\ FrameOf(item).phase = IF item \in QueueItems THEN "take" ELSE "user"
      BY DEF FrameOf
    <2>2. /\ DOMAIN stack'[w] = DOMAIN stack[w] \union {n} /\ n \notin DOMAIN stack[w]
          /\ stack'[w][n] = FrameOf(item)
      BY <1>1, <1>2, StartFacts
    <2>3. \A i \in DOMAIN stack[w] : /\ stack'[w][i].phase = stack[w][i].phase
                                      /\ stack'[w][i].job = stack[w][i].job
      BY StartFacts
    <2> QED  BY <2>1, <2>2, <2>3
  <1>5. UNCHANGED <<accepting, life, quitting, early, sweeping>>
    BY DEF StartItem, queueVars
  <1>6. Finishing(w)' <=> Finishing(w) \/ item = "finish"
    BY <1>4 DEF Finishing
  <1>7. InSweep(w)' <=> InSweep(w) \/ item \in QueueItems
    BY <1>4 DEF InSweep, SweepPhases
  <1>8. \A items : item \in items => Called(w, items)
    BY <1>3 DEF Called
  <1>9. FrameFits(w)'
    <2>1. ASSUME NEW i \in DOMAIN stack'[w]
          PROVE  /\ stack'[w][i].phase \in SweepPhases => stack'[w][i].job \in QueueItems
                 /\ stack'[w][i].phase \in {"check", "leave"} => stack'[w][i].job = "finish"
                 /\ stack'[w][i].phase = "leave" => ~Called(w, {"sweep"})'
      <3>1. CASE i = n
        BY <1>4, <3>1 DEF SweepPhases
      <3>2. CASE i # n
        BY <1>3, <1>4, <3>2 DEF WorkerFits, FrameFits
      <3> QED  BY <3>1, <3>2
    <2> QED  BY <2>1 DEF FrameFits, SweepPhases, QueueItems
  <1>10. FinishFits(w)'
    <2>1. \A i, j \in DOMAIN loop'[w] : loop'[w][i] = "finish" /\ loop'[w][j] = "finish" => i = j
      BY <1>3 DEF WorkerFits, FinishFits
    <2>2. item = "finish" => ~accepting /\ ~Finishing(w) /\ ~Called(w, {"finish"})'
      <3> SUFFICES ASSUME item = "finish" PROVE ~accepting /\ ~Finishing(w) /\ ~Called(w, {"finish"})'
        OBVIOUS
      <3>1. Called(w, {"finish"})
        BY <1>8
      <3>2. \A i \in DOMAIN loop'[w] : loop'[w][i] # "finish"
        BY <1>3 DEF WorkerFits, FinishFits
      <3> QED  BY <3>1, <3>2 DEF WorkerFits, FinishFits, Called
    <2>3. \A i, j \in DOMAIN stack'[w] : stack'[w][i].job = "finish" /\ stack'[w][j].job = "finish" => i = j
      BY <1>4, <2>2 DEF WorkerFits, FinishFits, Finishing
    <2>4. Called(w, {"finish"})' => Called(w, {"finish"})
      BY <1>3
    <2> QED  BY <1>5, <1>6, <2>1, <2>2, <2>3, <2>4 DEF WorkerFits, FinishFits
  <1>11. LifeFits(w)'
    <2>1. Called(w, QueueItems)' => Called(w, QueueItems)
      BY <1>3 DEF Called, QueueItems
    <2>2. item = "finish" => Called(w, QueueItems)
      BY <1>8 DEF QueueItems
    <2> QED  BY <1>3, <1>5, <1>6, <2>1, <2>2 DEF WorkerFits, LifeFits
  <1>12. SweepFits(w)'
    <2>1. Called(w, QueueItems) => Called(w, QueueItems)' \/ item \in QueueItems
      BY <1>3 DEF Called, QueueItems
    <2>2. SweepFits(w)' <=> (sweeping'[w] /\ life'[w] = "running" => Called(w, QueueItems)' \/ InSweep(w)')
      BY DEF SweepFits
    <2> QED  BY <1>3, <1>5, <1>7, <2>1, <2>2 DEF WorkerFits, SweepFits
  <1> QED  BY <1>7, <1>9, <1>10, <1>11, <1>12 DEF WorkerFits

\* An item is put at the end of a loop: a sweep or the finishing item by the queue,
\* or one of somebody else's.
LEMMA CalledFits ==
    ASSUME TypeOK, NEW w \in Workers, WorkerFits(w), life[w] = "running", NEW item \in Items,
           loop'[w] = Append(loop[w], item), stack'[w] = stack[w], life'[w] = life[w],
           quitting'[w] = quitting[w], UNCHANGED early,
           accepting' => accepting,
           item = "sweep" => accepting /\ accepting',
           item = "finish" => accepting /\ ~accepting',
           item \notin QueueItems => (sweeping'[w] => sweeping[w])
    PROVE  WorkerFits(w)'
  <1>1. PICK n : n = Len(loop[w]) + 1
    OBVIOUS
  <1>2. /\ DOMAIN loop'[w] = DOMAIN loop[w] \union {n} /\ n \notin DOMAIN loop[w]
        /\ \A i \in DOMAIN loop[w] : loop'[w][i] = loop[w][i]
        /\ loop'[w][n] = item
    BY <1>1, AppendCalls DEF TypeOK
  <1>3. \A items : Called(w, items)' <=> Called(w, items) \/ item \in items
    BY <1>2 DEF Called
  <1>4. Called(w, QueueItems)' <=> Called(w, QueueItems) \/ item \in QueueItems
    BY <1>2 DEF Called, QueueItems
  <1>5. (Finishing(w)' <=> Finishing(w)) /\ (InSweep(w)' <=> InSweep(w))
    BY DEF Finishing, InSweep, SweepPhases
  <1>6. FrameFits(w)'
    <2>1. Called(w, {"sweep"})' <=> Called(w, {"sweep"}) \/ item = "sweep"
      BY <1>3
    <2>2. \A i \in DOMAIN stack[w] : stack[w][i].phase = "leave" => ~accepting
      BY DEF WorkerFits, FrameFits, FinishFits, Finishing
    <2> QED  BY <2>1, <2>2 DEF WorkerFits, FrameFits, SweepPhases, QueueItems
  <1>7. FinishFits(w)'
    <2>1. Called(w, {"finish"})' <=> Called(w, {"finish"}) \/ item = "finish"
      BY <1>3
    <2>2. item = "finish" => \A i \in DOMAIN loop[w] : loop[w][i] # "finish"
      BY DEF WorkerFits, FinishFits, Called
    <2>3. \A i, j \in DOMAIN loop'[w] : loop'[w][i] = "finish" /\ loop'[w][j] = "finish" => i = j
      BY <1>2, <2>2 DEF WorkerFits, FinishFits
    <2> QED  BY <1>5, <2>1, <2>3 DEF WorkerFits, FinishFits
  <1>8. LifeFits(w)'
    <2>1. quitting[w] /\ w \notin early => ~accepting
      BY DEF WorkerFits, LifeFits
    <2>2. item \in QueueItems => accepting
      BY DEF QueueItems
    <2> QED  BY <1>4, <1>5, <2>1, <2>2 DEF WorkerFits, LifeFits
  <1>9. SweepFits(w)'
    <2>1. SweepFits(w)' <=> (sweeping'[w] /\ life'[w] = "running" => Called(w, QueueItems)' \/ InSweep(w)')
      BY DEF SweepFits
    <2> QED  BY <1>4, <1>5, <2>1 DEF WorkerFits, SweepFits
  <1> QED  BY <1>6, <1>7, <1>8, <1>9 DEF WorkerFits

\* make_ready() hands a sweep to every worker that has none.
LEMMA ReadyFits ==
    ASSUME TypeOK, \A w \in Workers : WorkerFits(w), NEW o, NEW p, MakeReady(o, p),
           UNCHANGED <<accepting, stack, life, quitting, early>>
    PROVE  /\ \A w \in Workers : WorkerFits(w)'
           /\ \A w \in Workers : Called(w, QueueItems) => Called(w, QueueItems)'
           /\ accepting => \A w \in Workers : sweeping'[w]
  <1>1. ASSUME NEW w \in Workers
        PROVE  WorkerFits(w)' /\ (Called(w, QueueItems) => Called(w, QueueItems)')
    <2>1. CASE accepting /\ ~sweeping[w] /\ life[w] = "running"
      <3>1. "sweep" \in Items /\ "sweep" # "finish" /\ "sweep" \in QueueItems
        BY DEF Items, QueueItems
      <3>2. loop'[w] = Append(loop[w], "sweep") /\ loop[w] \in Seq(Items)
        BY <2>1 DEF MakeReady, Offered, Performed, TypeOK
      <3>3. WorkerFits(w)'
        BY <2>1, <3>1, <3>2, CalledFits
      <3>4. Called(w, QueueItems) => Called(w, QueueItems)'
        BY <3>1, <3>2, AppendCalls DEF Called, QueueItems
      <3> QED  BY <3>3, <3>4
    <2>2. CASE ~(accepting /\ ~sweeping[w] /\ life[w] = "running")
      <3>1. loop'[w] = loop[w]
        BY <2>2 DEF MakeReady, Offered, Performed
      <3>2. sweeping'[w] = sweeping[w] \/ life[w] # "running"
        BY <2>2 DEF MakeReady, Offered, TypeOK
      <3>3. FrameFits(w)' /\ FinishFits(w)' /\ LifeFits(w)'
        BY <3>1 DEF WorkerFits, FrameFits, FinishFits, LifeFits, Called, Finishing
      <3>4. SweepFits(w)'
        BY <3>1, <3>2 DEF WorkerFits, SweepFits, Called, InSweep
      <3>5. Called(w, QueueItems) => Called(w, QueueItems)'
        BY <3>1 DEF Called, QueueItems
      <3> QED  BY <3>3, <3>4, <3>5 DEF WorkerFits
    <2> QED  BY <2>1, <2>2
  <1>2. accepting => \A w \in Workers : sweeping'[w]
    BY DEF MakeReady, Offered, TypeOK
  <1> QED  BY <1>1, <1>2

\* stop() hands every worker still running the finishing item, once.
LEMMA StopFits ==
    ASSUME TypeOK, \A w \in Workers : WorkerFits(w), Stopped,
           UNCHANGED <<stack, life, quitting, early, sweeping>>
    PROVE  /\ \A w \in Workers : WorkerFits(w)'
           /\ \A w \in Workers : Called(w, QueueItems) => Called(w, QueueItems)'
  <1>1. ASSUME NEW w \in Workers
        PROVE  WorkerFits(w)' /\ (Called(w, QueueItems) => Called(w, QueueItems)')
    <2>1. CASE accepting /\ life[w] = "running"
      <3>1. "finish" \in Items /\ "sweep" # "finish" /\ "finish" \in QueueItems
        BY DEF Items, QueueItems
      <3>2. loop'[w] = Append(loop[w], "finish") /\ loop[w] \in Seq(Items) /\ ~accepting'
        BY <2>1 DEF Stopped, Performed, TypeOK
      <3>3. WorkerFits(w)'
        BY <2>1, <3>1, <3>2, CalledFits
      <3>4. Called(w, QueueItems) => Called(w, QueueItems)'
        BY <3>1, <3>2, AppendCalls DEF Called, QueueItems
      <3> QED  BY <3>3, <3>4
    <2>2. CASE ~(accepting /\ life[w] = "running")
      <3>1. loop'[w] = loop[w] /\ ~accepting'
        BY <2>2 DEF Stopped, Performed
      <3>2. Called(w, QueueItems) => Called(w, QueueItems)'
        BY <3>1 DEF Called, QueueItems
      <3> QED  BY <3>1, <3>2, AloneFits
    <2> QED  BY <2>1, <2>2
  <1> QED  BY <1>1

-----------------------------------------------------------------------------
(* A worker's own steps.                                                   *)

\* What such a step leaves the other workers.
LEMMA OthersAlone ==
    ASSUME TypeOK, NEW w \in Workers, WorkerNext(w) \/ UserNext(w), ~CountOff(w), NEW v \in Workers \ {w}
    PROVE  /\ accepting' = accepting /\ loop'[v] = loop[v] /\ stack'[v] = stack[v] /\ life'[v] = life[v]
           /\ quitting'[v] = quitting[v] /\ sweeping'[v] = sweeping[v] /\ (v \in early => v \in early')
  <1>1. CASE StartItem(w) \/ Pump(w) \/ Leave(w) \/ UserReturn(w) \/ Check(w)
    BY <1>1 DEF TypeOK, StartItem, Pump, Leave, UserReturn, Check, Becomes, Pop, queueVars
  <1>2. CASE Take(w) \/ Return(w) \/ Done(w) \/ DoneEnd(w)
    BY <1>2 DEF TypeOK, Take, Return, Done, DoneEnd, Becomes, queueVars
  <1>3. CASE TakeNone(w)
    BY <1>3 DEF TypeOK, TakeNone, SweepOver, Becomes, Pop
  <1>4. CASE EndLoop(w) \/ ThreadEnd(w) \/ PostOwn(w) \/ PostOther(w) \/ QuitEarly(w)
    BY <1>4 DEF TypeOK, EndLoop, ThreadEnd, PostOwn, PostOther, Post, QuitEarly, queueVars
  <1> QED  BY <1>1, <1>2, <1>3, <1>4 DEF WorkerNext, UserNext

LEMMA TopFacts ==
    ASSUME TypeOK, NEW w \in Workers, Busy(w)
    PROVE  /\ Top(w) \in Frames /\ Len(stack[w]) \in DOMAIN stack[w] /\ Top(w) = stack[w][Len(stack[w])]
           /\ \A phase : /\ [Top(w) EXCEPT !.phase = phase].phase = phase
                         /\ [Top(w) EXCEPT !.phase = phase].job = Top(w).job
           /\ \A phase, task : /\ [Top(w) EXCEPT !.phase = phase, !.task = task].phase = phase
                               /\ [Top(w) EXCEPT !.phase = phase, !.task = task].job = Top(w).job
           /\ \A drain : /\ [Top(w) EXCEPT !.drain = drain].phase = Top(w).phase
                         /\ [Top(w) EXCEPT !.drain = drain].job = Top(w).job
  <1>1. stack[w] \in Seq(Frames) /\ stack[w] # <<>>
    BY DEF TypeOK, Busy
  <1>2. Top(w) \in Frames /\ Len(stack[w]) \in DOMAIN stack[w] /\ Top(w) = stack[w][Len(stack[w])]
    BY <1>1 DEF Top
  <1> QED  BY <1>2 DEF Frames

LEMMA OwnFits ==
    ASSUME TypeOK, NEW w \in Workers, WorkerFits(w), WorkerNext(w) \/ UserNext(w), ~CountOff(w)
    PROVE  WorkerFits(w)'
  <1>1. /\ Top(w).phase \in {"check", "leave"} /\ Busy(w) => Top(w).job = "finish"
        /\ Top(w).phase \in SweepPhases /\ Busy(w) => Top(w).job \in QueueItems
    BY TopFacts DEF WorkerFits, FrameFits
  <1>2. CASE StartItem(w)
    BY <1>2, StartFits
  <1>3. CASE Take(w) \/ Return(w) \/ Done(w) \/ DoneEnd(w)
    <2>0. PICK phase \in {"run", "returned", "count", "take"} : \E f :
            /\ Becomes(w, f) /\ (\/ f = [Top(w) EXCEPT !.phase = phase]
                                 \/ \E task : f = [Top(w) EXCEPT !.phase = phase, !.task = task])
      BY <1>3 DEF Take, Return, Done, DoneEnd
    <2>1. PICK f :
            /\ Becomes(w, f) /\ (\/ f = [Top(w) EXCEPT !.phase = phase]
                                 \/ \E task : f = [Top(w) EXCEPT !.phase = phase, !.task = task])
      BY <2>0
    <2>2. /\ Busy(w) /\ Top(w).phase \in SweepPhases
          /\ UNCHANGED <<accepting, loop, life, quitting, early, sweeping>>
      BY <1>3 DEF Take, Return, Done, DoneEnd, At, SweepPhases, queueVars
    <2>3. f.phase = phase /\ f.job = Top(w).job
      <3>1. CASE f = [Top(w) EXCEPT !.phase = phase]
        BY <2>2, <3>1, TopFacts
      <3>2. CASE \E task : f = [Top(w) EXCEPT !.phase = phase, !.task = task]
        BY <2>2, <3>2, TopFacts
      <3> QED  BY <2>1, <3>1, <3>2
    <2>4. phase \in SweepPhases /\ phase # "check" /\ phase # "leave"
      BY <2>0 DEF SweepPhases
    <2> QED  BY <2>1, <2>2, <2>3, <2>4, GoesOnFits
  <1>4. CASE Pump(w)
    <2>1. PICK f : f = [Top(w) EXCEPT !.drain = Len(loop[w])]
      OBVIOUS
    <2>2. /\ Busy(w) /\ Becomes(w, f) /\ Top(w).phase \in {"run", "user"}
          /\ UNCHANGED <<accepting, loop, life, quitting, early, sweeping>>
      BY <1>4, <2>1 DEF Pump, InUserCode, At, queueVars
    <2>3. f.phase = Top(w).phase /\ f.job = Top(w).job
      BY <2>1, <2>2, TopFacts
    <2> QED  BY <2>2, <2>3, GoesOnFits
  <1>5. CASE TakeNone(w)
    <2>1. /\ Busy(w) /\ Top(w).phase = "take" /\ sweeping'[w] = FALSE
          /\ UNCHANGED <<accepting, loop, life, quitting, early>>
      BY <1>5 DEF TakeNone, At, SweepOver, TypeOK
    <2>2. CASE Top(w).job = "finish"
      <3>1. PICK f : f = [Top(w) EXCEPT !.phase = "check"]
        OBVIOUS
      <3>2. Becomes(w, f) /\ f.phase = "check" /\ f.job = "finish"
        BY <1>5, <2>1, <2>2, <3>1, TopFacts DEF TakeNone
      <3>3. f.phase \notin SweepPhases /\ f.phase # "leave"
        BY <3>2 DEF SweepPhases
      <3> QED  BY <2>1, <2>2, <3>2, <3>3, GoesOnFits
    <2>3. CASE Top(w).job # "finish"
      <3>1. Pop(w)
        BY <1>5, <2>3 DEF TakeNone
      <3> QED  BY <2>1, <3>1, OverFits
    <2> QED  BY <2>2, <2>3
  <1>6. CASE Check(w)
    <2>1. /\ Busy(w) /\ Top(w).phase = "check" /\ Top(w).job = "finish" /\ "check" \notin SweepPhases
          /\ UNCHANGED <<accepting, life, quitting, early, sweeping>>
      BY <1>1, <1>6 DEF Check, At, queueVars, SweepPhases
    <2>2. CASE Pending(w)
      <3>1. Pop(w) /\ loop' = [loop EXCEPT ![w] = Append(@, "finish")]
        BY <1>6, <2>2 DEF Check
      <3> QED  BY <2>1, <3>1, OverFits
    <2>3. CASE ~Pending(w)
      <3>1. PICK f : f = [Top(w) EXCEPT !.phase = "leave"]
        OBVIOUS
      <3>2. Becomes(w, f) /\ f.phase = "leave" /\ f.job = "finish" /\ UNCHANGED loop
        BY <1>6, <2>1, <2>3, <3>1, TopFacts DEF Check
      <3>3. ~Called(w, {"sweep"})
        BY <2>3 DEF Pending, Called
      <3>4. f.phase \notin SweepPhases
        BY <3>2 DEF SweepPhases
      <3> QED  BY <2>1, <3>2, <3>3, <3>4, GoesOnFits
    <2> QED  BY <2>2, <2>3
  <1>7. CASE Leave(w)
    <2>1. /\ Busy(w) /\ Top(w).phase = "leave" /\ Pop(w) /\ quitting' = [quitting EXCEPT ![w] = TRUE]
          /\ UNCHANGED <<accepting, loop, life, early, sweeping>> /\ Top(w).phase \notin SweepPhases
      BY <1>7 DEF Leave, At, queueVars, SweepPhases
    <2> QED  BY <2>1, OverFits
  <1>8. CASE UserReturn(w)
    <2>1. /\ Busy(w) /\ Pop(w) /\ Top(w).phase \notin SweepPhases
          /\ UNCHANGED <<accepting, loop, quitting, life, early, sweeping>>
      BY <1>8 DEF UserReturn, At, queueVars, SweepPhases
    <2> QED  BY <2>1, OverFits
  <1>9. CASE PostOwn(w) \/ PostOther(w)
    <2>1. PICK item \in {"own", "other"} : Post(w, item)
      BY <1>9 DEF PostOwn, PostOther
    <2>2. item \in Items /\ item \notin QueueItems /\ item # "sweep" /\ item # "finish"
      BY DEF Items, QueueItems
    <2>3. /\ life[w] = "running" /\ loop'[w] = Append(loop[w], item)
          /\ UNCHANGED <<accepting, stack, life, quitting, early, sweeping>>
      BY <2>1 DEF Post, queueVars, TypeOK
    <2> QED  BY <2>2, <2>3, CalledFits
  <1>10. CASE EndLoop(w)
    <2>1. /\ stack[w] = <<>> /\ quitting[w] /\ loop'[w] = <<>> /\ life'[w] = "ending" /\ ~quitting'[w]
          /\ UNCHANGED <<accepting, stack, early, sweeping>>
      BY <1>10 DEF EndLoop, Busy, queueVars, TypeOK
    <2>2. FrameFits(w)' /\ FinishFits(w)'
      BY <2>1 DEF FrameFits, FinishFits, Called, Finishing
    <2>3. LifeFits(w)' /\ SweepFits(w)'
      BY <2>1 DEF WorkerFits, LifeFits, SweepFits
    <2> QED  BY <2>2, <2>3 DEF WorkerFits
  <1>11. CASE ThreadEnd(w)
    <2>1. /\ life[w] = "ending" /\ life'[w] = "ended"
          /\ UNCHANGED <<accepting, loop, stack, quitting, early, sweeping>>
      BY <1>11 DEF ThreadEnd, queueVars, TypeOK
    <2>2. FrameFits(w)' /\ FinishFits(w)'
      BY <2>1 DEF WorkerFits, FrameFits, FinishFits, Called, Finishing
    <2>3. LifeFits(w)' /\ SweepFits(w)'
      BY <2>1 DEF WorkerFits, LifeFits, SweepFits, Called, Finishing
    <2> QED  BY <2>2, <2>3 DEF WorkerFits
  <1>12. CASE QuitEarly(w)
    <2>1. w \in early' /\ life[w] = "running" /\ UNCHANGED <<accepting, loop, stack, life, sweeping>>
      BY <1>12 DEF QuitEarly, queueVars
    <2>2. FrameFits(w)' /\ FinishFits(w)'
      BY <2>1 DEF WorkerFits, FrameFits, FinishFits, Called, Finishing
    <2>3. LifeFits(w)' /\ SweepFits(w)'
      BY <2>1 DEF WorkerFits, LifeFits, SweepFits, Called, InSweep
    <2> QED  BY <2>2, <2>3 DEF WorkerFits
  <1> QED  BY <1>2, <1>3, <1>4, <1>5, <1>6, <1>7, <1>8, <1>9, <1>10, <1>11, <1>12 DEF WorkerNext, UserNext

-----------------------------------------------------------------------------
(* Somebody looks for the tasks there are.                                 *)

\* With nothing ready and nothing being cancelled, a task is in its worker's hands:
\* of those that wait the first accepted waits for nothing else.
LEMMA NoneReady ==
    ASSUME DependenciesInv, Ready = {}, mutex = "free", unfinished # {}
    PROVE  \E v \in Workers : \E i \in DOMAIN stack[v] : stack[v][i].phase \in {"run", "returned"}
  <1>1. TypeOK /\ HandsCover /\ removing = {} /\ FramesNameTasks /\ ResultsApart /\ DependentsFit /\ WaitingFits
    BY DEF DependenciesInv, HomeInv, OneHome, RemovingLocked, FramesOK, DependsFit
  <1>2. unfinished = Waiting \union Running
    BY <1>1 DEF HandsCover
  <1>3. CASE Running # {}
    <2>1. PICK o : o \in Running
      BY <1>3
    <2>2. PICK v \in Workers : \E i \in DOMAIN stack[v] : stack[v][i].task # NoTask
      BY <2>1, RunningIs
    <2> QED  BY <1>1, <2>2 DEF FramesNameTasks
  <1>4. CASE Running = {}
    <2>1. Waiting \subseteq Nat /\ Waiting # {} /\ Waiting \subseteq Orders
      BY <1>1, <1>2, <1>4 DEF TypeOK, Orders
    <2>2. PICK o \in Waiting : \A q \in Waiting : o <= q
      BY <2>1, LeastNumber
    <2>3. waiting[o] \in Nat \ {0} /\ counting = <<>>
      BY <1>1, <2>2 DEF TypeOK, WaitingFits
    <2>4. Times(counting, o) = 0
      BY <2>3, TimesOfNone
    <2>5. Cardinality(Open(ops[o].after)) + 0 = waiting[o]
      BY <1>1, <2>2, <2>4 DEF WaitingFits
    <2>6. Open(ops[o].after) # {}
      <3> SUFFICES ASSUME Open(ops[o].after) = {} PROVE FALSE
        OBVIOUS
      <3>1. Cardinality(Open(ops[o].after)) = 0
        BY FS_EmptySet
      <3> QED  BY <2>3, <2>5, <3>1
    <2>7. PICK i \in DOMAIN ops[o].after : ops[o].after[i] \in DOMAIN dependents
      BY <2>6 DEF Open
    <2>8. PICK q \in unfinished : ops[q].result = ops[o].after[i]
      BY <1>1, <2>7 DEF DependentsFit
    <2>9. q \in Waiting /\ q \in Orders /\ o \in Orders
      BY <1>2, <1>4, <2>1, <2>2
    <2>10. q < o
      BY <1>1, <2>7, <2>8, <2>9 DEF ResultsApart
    <2>11. o <= q /\ o \in Nat /\ q \in Nat
      BY <2>1, <2>2, <2>9
    <2> QED  BY <2>10, <2>11
  <1> QED  BY <1>3, <1>4

LEMMA AttendKept ==
    ASSUME Attended, unfinished' # {} => unfinished # {}, early \subseteq early',
           \A v \in Workers : InSweep(v) => InSweep(v)',
           \A u \in Workers \ early' :
             Called(u, QueueItems) => Called(u, QueueItems)' \/ \E v \in Workers : InSweep(v)'
    PROVE  Attended'
  <1>1. Attended' <=> (unfinished' # {} =>
            \A u \in Workers \ early' : Called(u, QueueItems)' \/ \E v \in Workers : InSweep(v)')
    BY DEF Attended
  <1> QED  BY <1>1 DEF Attended

\* Whoever is in a sweep attends to all.
LEMMA SweepAttends ==
    ASSUME NEW v \in Workers, InSweep(v)'
    PROVE  Attended'
  <1>1. Attended' <=> (unfinished' # {} =>
            \A u \in Workers \ early' : Called(u, QueueItems)' \/ \E w \in Workers : InSweep(w)')
    BY DEF Attended
  <1> QED  BY <1>1

LEMMA ReadySweptKept ==
    ASSUME ReadySwept, Ready' \subseteq Ready, accepting' => accepting,
           \A w \in Workers : sweeping[w] => sweeping'[w]
    PROVE  ReadySwept'
  BY DEF ReadySwept

LEMMA BecomesSweeps ==
    ASSUME TypeOK, NEW w \in Workers, Busy(w), NEW f, Becomes(w, f)
    PROVE  /\ f.phase \in SweepPhases => InSweep(w)'
           /\ (Top(w).phase \in SweepPhases => f.phase \in SweepPhases) => (InSweep(w) => InSweep(w)')
  <1>1. PICK n : n = Len(stack[w])
    OBVIOUS
  <1>2. /\ n \in DOMAIN stack[w] /\ DOMAIN stack'[w] = DOMAIN stack[w] /\ stack[w][n] = Top(w)
        /\ \A i \in DOMAIN stack[w] : stack'[w][i] = IF i = n THEN f ELSE stack[w][i]
    BY <1>1, BecomesFacts DEF Top
  <1>3. InSweep(w)' <=> \E i \in DOMAIN stack'[w] : stack'[w][i].phase \in SweepPhases
    BY DEF InSweep, SweepPhases
  <1> QED  BY <1>2, <1>3 DEF InSweep

LEMMA StartSweeps ==
    ASSUME TypeOK, NEW w \in Workers, WorkerFits(w), StartItem(w)
    PROVE  /\ InSweep(w) => InSweep(w)'
           /\ Called(w, QueueItems) => Called(w, QueueItems)' \/ InSweep(w)'
  <1>1. InSweep(w) => InSweep(w)'
    BY StartFits
  <1>2. PICK n : n = Len(stack[w]) + 1
    OBVIOUS
  <1>3. n \in DOMAIN stack'[w] /\ stack'[w][n] = FrameOf(Head(loop[w]))
    BY <1>2, StartFacts
  <1>4. Head(loop[w]) \in QueueItems => FrameOf(Head(loop[w])).phase \in SweepPhases
    BY DEF FrameOf, SweepPhases
  <1>5. InSweep(w)' <=> \E i \in DOMAIN stack'[w] : stack'[w][i].phase \in SweepPhases
    BY DEF InSweep, SweepPhases
  <1>6. Called(w, QueueItems) => Called(w, QueueItems)' \/ Head(loop[w]) \in QueueItems
    <2>1. \A items : Called(w, items) => Called(w, items)' \/ Head(loop[w]) \in items
      BY StartCalls
    <2>2. PICK items : items = QueueItems
      OBVIOUS
    <2> QED  BY <2>1, <2>2 DEF Called, QueueItems
  <1> QED  BY <1>1, <1>3, <1>4, <1>5, <1>6

\* What a worker does is told by what it leaves itself.
LEMMA OwnAttendKept ==
    ASSUME TypeOK, NEW w \in Workers, WorkerNext(w) \/ UserNext(w), ~CountOff(w), Attended,
           unfinished' = unfinished, early \subseteq early', InSweep(w) => InSweep(w)',
           w \notin early' /\ Called(w, QueueItems) => Called(w, QueueItems)' \/ InSweep(w)'
    PROVE  Attended'
  <1>1. ASSUME NEW v \in Workers \ {w}
        PROVE  (InSweep(v)' <=> InSweep(v)) /\ (Called(v, QueueItems)' <=> Called(v, QueueItems))
    <2>1. stack'[v] = stack[v] /\ loop'[v] = loop[v]
      BY OthersAlone
    <2> QED  BY <2>1 DEF InSweep, SweepPhases, Called, QueueItems
  <1>2. \A v \in Workers : InSweep(v) => InSweep(v)'
    BY <1>1
  <1>3. \A u \in Workers \ early' :
             Called(u, QueueItems) => Called(u, QueueItems)' \/ \E v \in Workers : InSweep(v)'
    BY <1>1
  <1> QED  BY <1>2, <1>3, AttendKept

\* The sweep that finds nothing ready leaves one that will.
LEMMA NoneTakenAttends ==
    ASSUME DependenciesInv, NEW w \in Workers, TakeNone(w)
    PROVE  Attended'
  <1>1. /\ TypeOK /\ Busy(w) /\ Top(w).phase = "take" /\ Ready = {} /\ mutex = "free"
        /\ unfinished' = unfinished
        /\ Pop(w) \/ \E f : Becomes(w, f)
    BY DEF DependenciesInv, HomeInv, TakeNone, At, NothingToTake
  <1>2. CASE unfinished = {}
    BY <1>1, <1>2 DEF Attended
  <1>3. CASE unfinished # {}
    <2>1. PICK v \in Workers : \E i \in DOMAIN stack[v] : stack[v][i].phase \in {"run", "returned"}
      BY <1>1, <1>3, NoneReady
    <2>2. PICK i \in DOMAIN stack[v] : stack[v][i].phase \in {"run", "returned"}
      BY <2>1
    <2>3. PICK n : n = Len(stack[w])
      OBVIOUS
    <2>4. ~(v = w /\ i = n)
      BY <1>1, <2>2, <2>3 DEF Top
    <2>5. i \in DOMAIN stack'[v] /\ stack'[v][i] = stack[v][i]
      <3>1. CASE Pop(w)
        BY <1>1, <2>3, <2>4, <3>1, PopFacts
      <3>2. CASE \E f : Becomes(w, f)
        BY <1>1, <2>3, <2>4, <3>2, BecomesFacts
      <3> QED  BY <1>1, <3>1, <3>2
    <2>6. stack'[v][i].phase \in SweepPhases
      BY <2>2, <2>5 DEF SweepPhases
    <2>7. InSweep(v)'
      BY <2>5, <2>6 DEF InSweep, SweepPhases
    <2> QED  BY <2>7, SweepAttends
  <1> QED  BY <1>2, <1>3

LEMMA OwnAttends ==
    ASSUME DependenciesInv, \A v \in Workers : WorkerFits(v), Attended,
           NEW w \in Workers, WorkerNext(w) \/ UserNext(w)
    PROVE  Attended'
  <1>1. TypeOK /\ WorkerFits(w)
    BY DEF DependenciesInv, HomeInv
  <1>2. CASE Take(w) \/ Return(w) \/ Done(w) \/ DoneEnd(w)
    <2>0. PICK phase \in {"run", "returned", "count", "take"} : \E f :
            /\ Becomes(w, f) /\ (\/ f = [Top(w) EXCEPT !.phase = phase]
                                 \/ \E task : f = [Top(w) EXCEPT !.phase = phase, !.task = task])
      BY <1>2 DEF Take, Return, Done, DoneEnd
    <2>1. PICK f :
            /\ Becomes(w, f) /\ (\/ f = [Top(w) EXCEPT !.phase = phase]
                                 \/ \E task : f = [Top(w) EXCEPT !.phase = phase, !.task = task])
      BY <2>0
    <2>2. Busy(w)
      BY <1>2 DEF Take, Return, Done, DoneEnd, At
    <2>3. f.phase = phase
      <3>1. CASE f = [Top(w) EXCEPT !.phase = phase]
        BY <1>1, <2>2, <3>1, TopFacts
      <3>2. CASE \E task : f = [Top(w) EXCEPT !.phase = phase, !.task = task]
        BY <1>1, <2>2, <3>2, TopFacts
      <3> QED  BY <2>1, <3>1, <3>2
    <2>4. phase \in SweepPhases
      BY <2>0 DEF SweepPhases
    <2>5. InSweep(w)'
      BY <1>1, <2>1, <2>2, <2>3, <2>4, BecomesSweeps
    <2> QED  BY <2>5, SweepAttends
  <1>3. CASE CountOff(w)
    <2>1. stack' = stack /\ Busy(w) /\ Top(w).phase = "count"
      BY <1>3 DEF CountOff, At
    <2>2. Len(stack[w]) \in DOMAIN stack[w] /\ stack[w][Len(stack[w])].phase \in SweepPhases
      BY <1>1, <2>1, TopFacts DEF SweepPhases
    <2>3. InSweep(w)'
      BY <2>1, <2>2 DEF InSweep, SweepPhases
    <2> QED  BY <2>3, SweepAttends
  <1>4. CASE TakeNone(w)
    BY <1>4, NoneTakenAttends
  <1>5. CASE ~CountOff(w) /\ StartItem(w)
    <2>1. UNCHANGED <<unfinished, early>>
      BY <1>5 DEF StartItem, queueVars
    <2> QED  BY <1>1, <1>5, <2>1, StartSweeps, OwnAttendKept
  <1>6. CASE ~CountOff(w) /\ (Pump(w) \/ Check(w) \/ Leave(w) \/ UserReturn(w))
    <2>1. UNCHANGED <<unfinished, early>> /\ Busy(w)
      BY <1>6 DEF Pump, InUserCode, Check, Leave, UserReturn, At, queueVars
    <2>2. InSweep(w) => InSweep(w)'
      <3>1. CASE Pump(w)
        <4>1. PICK f : f = [Top(w) EXCEPT !.drain = Len(loop[w])]
          OBVIOUS
        <4>2. Becomes(w, f) /\ f.phase = Top(w).phase
          BY <1>1, <2>1, <3>1, <4>1, TopFacts DEF Pump
        <4> QED  BY <1>1, <2>1, <4>2, BecomesSweeps
      <3>2. CASE Check(w) /\ ~Pending(w)
        <4>1. PICK f : f = [Top(w) EXCEPT !.phase = "leave"]
          OBVIOUS
        <4>2. Becomes(w, f) /\ Top(w).phase \notin SweepPhases
          BY <3>2, <4>1 DEF Check, At, SweepPhases
        <4> QED  BY <1>1, <2>1, <4>2, BecomesSweeps
      <3>3. CASE Leave(w) \/ UserReturn(w) \/ (Check(w) /\ Pending(w))
        <4>1. Pop(w) /\ Top(w).phase \notin SweepPhases
          BY <3>3 DEF Check, Leave, UserReturn, At, SweepPhases
        <4> QED  BY <1>1, <2>1, <4>1, PopFits
      <3> QED  BY <1>6, <3>1, <3>2, <3>3
    <2>3. Called(w, QueueItems) => Called(w, QueueItems)'
      <3>1. CASE UNCHANGED loop
        BY <3>1 DEF Called, QueueItems
      <3>2. CASE loop' = [loop EXCEPT ![w] = Append(@, "finish")]
        <4>1. loop'[w] = Append(loop[w], "finish") /\ loop[w] \in Seq(Items) /\ "finish" \in Items
          BY <1>1, <3>2 DEF TypeOK, Items
        <4> QED  BY <4>1, AppendCalls DEF Called, QueueItems
      <3> QED  BY <1>6, <3>1, <3>2 DEF Pump, Check, Leave, UserReturn
    <2> QED  BY <1>1, <1>6, <2>1, <2>2, <2>3, OwnAttendKept DEF WorkerNext, UserNext
  <1>7. CASE ~CountOff(w) /\ (PostOwn(w) \/ PostOther(w))
    <2>1. PICK item \in {"own", "other"} : Post(w, item)
      BY <1>7 DEF PostOwn, PostOther
    <2>2. /\ UNCHANGED <<unfinished, early, stack>> /\ item \in Items
          /\ loop'[w] = Append(loop[w], item) /\ loop[w] \in Seq(Items)
      BY <1>1, <2>1 DEF Post, queueVars, TypeOK, Items
    <2>3. Called(w, QueueItems) => Called(w, QueueItems)'
      BY <2>2, AppendCalls DEF Called, QueueItems
    <2>4. InSweep(w) => InSweep(w)'
      BY <2>2 DEF InSweep, SweepPhases
    <2> QED  BY <1>1, <1>7, <2>2, <2>3, <2>4, OwnAttendKept DEF WorkerNext, UserNext
  <1>8. CASE ~CountOff(w) /\ (EndLoop(w) \/ ThreadEnd(w) \/ QuitEarly(w))
    <2>1. UNCHANGED <<unfinished, stack>> /\ early \subseteq early'
      BY <1>8 DEF EndLoop, ThreadEnd, QuitEarly, queueVars
    <2>2. w \notin early' /\ Called(w, QueueItems) => Called(w, QueueItems)'
      <3>1. CASE EndLoop(w)
        BY <1>1, <2>1, <3>1 DEF EndLoop, WorkerFits, LifeFits
      <3>2. CASE ThreadEnd(w) \/ QuitEarly(w)
        BY <3>2 DEF ThreadEnd, QuitEarly, Called, QueueItems
      <3> QED  BY <1>8, <3>1, <3>2
    <2>3. InSweep(w) => InSweep(w)'
      BY <2>1 DEF InSweep, SweepPhases
    <2> QED  BY <1>1, <1>8, <2>1, <2>2, <2>3, OwnAttendKept DEF WorkerNext, UserNext
  <1> QED  BY <1>2, <1>3, <1>4, <1>5, <1>6, <1>7, <1>8 DEF WorkerNext, UserNext

\* And what is ready stays swept for: tasks are made ready by counting off alone,
\* which hands out the sweeps, and a sweep is over with none ready.
LEMMA OwnReadySwept ==
    ASSUME DependenciesInv, \A v \in Workers : WorkerFits(v), ReadySwept,
           NEW w \in Workers, WorkerNext(w) \/ UserNext(w)
    PROVE  ReadySwept'
  <1>1. TypeOK
    BY DEF DependenciesInv, HomeInv
  <1>2. CASE CountOff(w)
    <2>1. UNCHANGED <<accepting, stack, life, quitting, early>>
      BY <1>2 DEF CountOff
    <2>2. CASE UNCHANGED <<tasks, sweeping>>
      BY <2>1, <2>2 DEF ReadySwept, Ready
    <2>3. CASE \E o, p : MakeReady(o, p)
      BY <1>1, <2>1, <2>3, ReadyFits DEF ReadySwept
    <2> QED  BY <1>2, <2>2, <2>3 DEF CountOff
  <1>3. CASE Take(w)
    <2>1. PICK p \in Priorities : Foremost(p) /\ tasks' = [tasks EXCEPT ![p] = Tail(@)]
      BY <1>3 DEF Take
    <2>2. \A i \in DOMAIN tasks'[p] : i + 1 \in DOMAIN tasks[p] /\ tasks'[p][i] = tasks[p][i + 1]
      BY <1>1, <2>1, HeadTailFacts DEF TypeOK, Foremost
    <2>3. \A q \in Priorities \ {p} : tasks'[q] = tasks[q]
      BY <1>1, <2>1 DEF TypeOK
    <2>4. \A o : o \in Ready' <=> \E q \in Priorities : \E i \in DOMAIN tasks'[q] : tasks'[q][i] = o
      BY DEF Ready, RangeOf
    <2>5. Ready' \subseteq Ready
      BY <2>2, <2>3, <2>4, ReadyIs
    <2> QED  BY <1>3, <2>5, ReadySweptKept DEF Take
  <1>4. CASE TakeNone(w)
    BY <1>4 DEF TakeNone, NothingToTake, ReadySwept, Ready
  <1>5. CASE Return(w) \/ Done(w)
    <2>1. UNCHANGED <<tasks, sweeping, accepting>>
      BY <1>5 DEF Return, Done
    <2> QED  BY <2>1 DEF ReadySwept, Ready
  <1>6. CASE \/ StartItem(w) \/ Pump(w) \/ DoneEnd(w) \/ Check(w) \/ Leave(w) \/ UserReturn(w)
             \/ EndLoop(w) \/ ThreadEnd(w) \/ PostOwn(w) \/ PostOther(w) \/ QuitEarly(w)
    <2>1. UNCHANGED <<tasks, sweeping, accepting>>
      BY <1>6 DEF StartItem, Pump, DoneEnd, Check, Leave, UserReturn, EndLoop, ThreadEnd, PostOwn, PostOther,
                  Post, QuitEarly, queueVars
    <2> QED  BY <2>1 DEF ReadySwept, Ready
  <1> QED  BY <1>2, <1>3, <1>4, <1>5, <1>6 DEF WorkerNext, UserNext

LEMMA CountOffFits ==
    ASSUME TypeOK, \A v \in Workers : WorkerFits(v), NEW w \in Workers, CountOff(w)
    PROVE  \A v \in Workers : WorkerFits(v)'
  <1>1. UNCHANGED <<accepting, stack, life, quitting, early>>
    BY DEF CountOff
  <1>2. CASE UNCHANGED <<loop, sweeping>>
    BY <1>1, <1>2, AloneFits
  <1>3. CASE \E o, p : MakeReady(o, p)
    BY <1>1, <1>3, ReadyFits
  <1> QED  BY <1>2, <1>3 DEF CountOff

LEMMA OwnEnding ==
    ASSUME EndingInv, NEW w \in Workers, WorkerNext(w) \/ UserNext(w)
    PROVE  (\A v \in Workers : WorkerFits(v)') /\ ReadySwept' /\ Attended'
  <1>1. TypeOK /\ DependenciesInv /\ (\A v \in Workers : WorkerFits(v)) /\ ReadySwept /\ Attended
    BY DEF EndingInv, DependenciesInv, HomeInv
  <1>2. ASSUME ~CountOff(w), NEW v \in Workers
        PROVE  WorkerFits(v)'
    <2>1. CASE v = w
      BY <1>1, <1>2, <2>1, OwnFits
    <2>2. CASE v # w
      <3>1. /\ accepting' = accepting /\ loop'[v] = loop[v] /\ stack'[v] = stack[v] /\ life'[v] = life[v]
            /\ quitting'[v] = quitting[v] /\ sweeping'[v] = sweeping[v] /\ (v \in early => v \in early')
        BY <1>1, <1>2, <2>2, OthersAlone
      <3> QED  BY <1>1, <3>1, AloneFits
    <2> QED  BY <2>1, <2>2
  <1>3. \A v \in Workers : WorkerFits(v)'
    BY <1>1, <1>2, CountOffFits
  <1> QED  BY <1>1, <1>3, OwnReadySwept, OwnAttends

-----------------------------------------------------------------------------
(* Steps of the queue's callers.                                           *)

\* A step that changes neither a worker nor the lists for the better.
LEMMA StillEnding ==
    ASSUME EndingInv, UNCHANGED <<loop, quitting, life, stack, early, sweeping, accepting>>,
           Ready' \subseteq Ready, unfinished' \subseteq unfinished
    PROVE  (\A v \in Workers : WorkerFits(v)') /\ ReadySwept' /\ Attended'
  <1>1. ASSUME NEW v \in Workers
        PROVE  /\ WorkerFits(v)' /\ (InSweep(v) => InSweep(v)')
               /\ (Called(v, QueueItems) => Called(v, QueueItems)')
    <2>1. InSweep(v) => InSweep(v)'
      BY DEF InSweep, SweepPhases
    <2>2. Called(v, QueueItems) => Called(v, QueueItems)'
      BY DEF Called, QueueItems
    <2> QED  BY <2>1, <2>2, AloneFits DEF EndingInv
  <1>2. ReadySwept'
    BY ReadySweptKept DEF EndingInv
  <1>3. Attended /\ early' = early /\ (unfinished' # {} => unfinished # {})
    BY DEF EndingInv
  <1>4. \A v \in Workers : InSweep(v) => InSweep(v)'
    BY <1>1
  <1>5. \A u \in Workers \ early' :
             Called(u, QueueItems) => Called(u, QueueItems)' \/ \E v \in Workers : InSweep(v)'
    BY <1>1
  <1>6. Attended'
    BY <1>3, <1>4, <1>5, AttendKept
  <1> QED  BY <1>1, <1>2, <1>6

\* A task accepted is swept for by every worker, or waits for one that is attended.
LEMMA QueueEnding ==
    ASSUME EndingInv, accepting, NEW p \in Priorities, NEW after, NEW result, Queue(p, after, result),
           UNCHANGED <<accepting, quitting, life, stack, early>>
    PROVE  (\A v \in Workers : WorkerFits(v)') /\ ReadySwept' /\ Attended'
  <1>1. /\ TypeOK /\ DependentsFit /\ (\A v \in Workers : WorkerFits(v)) /\ ReadySwept /\ Attended
    BY DEF EndingInv, DependenciesInv, HomeInv, DependsFit
  <1>2. CASE Cardinality(Open(after)) > 0
    <2>1. UNCHANGED <<tasks, sweeping, loop>>
      BY <1>2 DEF Queue
    <2>2. Open(after) # {}
      <3> SUFFICES ASSUME Open(after) = {} PROVE FALSE
        OBVIOUS
      <3>1. Cardinality(Open(after)) = 0
        BY FS_EmptySet
      <3> QED  BY <1>2, <3>1
    <2>3. unfinished # {}
      BY <1>1, <2>2 DEF Open, DependentsFit
    <2>4. ASSUME NEW v \in Workers
          PROVE  /\ WorkerFits(v)' /\ (InSweep(v) => InSweep(v)')
                 /\ (Called(v, QueueItems) => Called(v, QueueItems)')
      <3>1. InSweep(v) => InSweep(v)'
        BY DEF InSweep, SweepPhases
      <3>2. Called(v, QueueItems) => Called(v, QueueItems)'
        BY <2>1 DEF Called, QueueItems
      <3> QED  BY <1>1, <2>1, <3>1, <3>2, AloneFits
    <2>5. ReadySwept'
      BY <1>1, <2>1 DEF ReadySwept, Ready
    <2>6. \A v \in Workers : InSweep(v) => InSweep(v)'
      BY <2>4
    <2>7. \A u \in Workers \ early' :
             Called(u, QueueItems) => Called(u, QueueItems)' \/ \E v \in Workers : InSweep(v)'
      BY <2>4
    <2>8. Attended'
      BY <1>1, <2>3, <2>6, <2>7, AttendKept
    <2> QED  BY <2>4, <2>5, <2>8
  <1>3. CASE ~(Cardinality(Open(after)) > 0)
    <2>1. PICK o : MakeReady(o, p)
      BY <1>3 DEF Queue
    <2>2. (\A v \in Workers : WorkerFits(v)') /\ (\A v \in Workers : sweeping'[v])
      BY <1>1, <2>1, ReadyFits
    <2>3. ReadySwept'
      BY <2>2 DEF ReadySwept
    <2>4. ASSUME NEW u \in Workers \ early'
          PROVE  Called(u, QueueItems)' \/ InSweep(u)'
      <3>1. life'[u] = "running"
        BY <1>1, <2>4 DEF WorkerFits, LifeFits
      <3>2. SweepFits(u)' <=> (sweeping'[u] /\ life'[u] = "running" => Called(u, QueueItems)' \/ InSweep(u)')
        BY DEF SweepFits
      <3> QED  BY <2>2, <3>1, <3>2 DEF WorkerFits
    <2>5. Attended'
      <3>1. Attended' <=> (unfinished' # {} =>
               \A u \in Workers \ early' : Called(u, QueueItems)' \/ \E w \in Workers : InSweep(w)')
        BY DEF Attended
      <3> QED  BY <2>4, <3>1
    <2> QED  BY <2>2, <2>3, <2>5
  <1> QED  BY <1>2, <1>3

\* stop() calls every worker that has not ended.
LEMMA StoppedEnding ==
    ASSUME EndingInv, Stopped, UNCHANGED <<queueVars, quitting, life, stack, early>>
    PROVE  (\A v \in Workers : WorkerFits(v)') /\ ReadySwept' /\ Attended'
  <1>1. TypeOK /\ (\A v \in Workers : WorkerFits(v)) /\ ReadySwept /\ Attended
    BY DEF EndingInv, DependenciesInv, HomeInv
  <1>2. UNCHANGED <<unfinished, sweeping, tasks, stack, life, quitting, early>> /\ ~accepting'
    BY DEF queueVars, Stopped
  <1>3. /\ \A v \in Workers : WorkerFits(v)'
        /\ \A v \in Workers : Called(v, QueueItems) => Called(v, QueueItems)'
    BY <1>1, <1>2, StopFits
  <1>4. ReadySwept'
    BY <1>2 DEF ReadySwept
  <1>5. \A v \in Workers : InSweep(v) => InSweep(v)'
    BY <1>2 DEF InSweep, SweepPhases
  <1>6. Attended'
    BY <1>1, <1>2, <1>3, <1>5, AttendKept
  <1> QED  BY <1>3, <1>4, <1>6

LEMMA CallerEnding ==
    ASSUME EndingInv, CallerNext \/ CancelNext
    PROVE  (\A v \in Workers : WorkerFits(v)') /\ ReadySwept' /\ Attended'
  <1>1. ASSUME NEW p \in Priorities, NEW after \in AfterLists, Submit(p, after) \/ Enqueue(p, after)
        PROVE  (\A v \in Workers : WorkerFits(v)') /\ ReadySwept' /\ Attended'
    <2>1. accepting /\ UNCHANGED <<accepting, quitting, life, stack, early>> /\ \E result : Queue(p, after, result)
      BY <1>1 DEF Submit, Enqueue
    <2> QED  BY <2>1, QueueEnding
  <1>2. ASSUME NEW after \in AfterLists, EnqueueCancelled(after)
        PROVE  (\A v \in Workers : WorkerFits(v)') /\ ReadySwept' /\ Attended'
    <2>1. UNCHANGED <<loop, quitting, life, stack, early, sweeping, accepting, tasks, unfinished>>
      BY <1>2 DEF EnqueueCancelled, workerVars
    <2> QED  BY <2>1, StillEnding DEF Ready
  <1>3. ASSUME NEW order \in Orders, CancelBegin(order)
        PROVE  (\A v \in Workers : WorkerFits(v)') /\ ReadySwept' /\ Attended'
    <2>1. UNCHANGED <<loop, quitting, life, stack, early, sweeping, accepting, unfinished>>
      BY <1>3 DEF CancelBegin, workerVars
    <2>2. Ready' \subseteq Ready
      <3>1. CASE UNCHANGED tasks
        BY <3>1 DEF Ready
      <3>2. ASSUME NEW p \in Priorities, NEW i \in DOMAIN tasks[p], tasks' = [tasks EXCEPT ![p] = RemoveAt(@, i)]
            PROVE  Ready' \subseteq Ready
        <4>1. PICK s : s = tasks[p]
          OBVIOUS
        <4>2. s \in Seq(Orders) /\ i \in DOMAIN s
          BY <3>2, <4>1 DEF EndingInv, DependenciesInv, HomeInv, TypeOK
        <4>3. \A j \in DOMAIN RemoveAt(s, i) : /\ j \in DOMAIN s /\ j + 1 \in DOMAIN s
                                               /\ RemoveAt(s, i)[j] = IF j < i THEN s[j] ELSE s[j + 1]
          BY <4>2, RemoveAtFacts
        <4>4. /\ \A j \in DOMAIN tasks'[p] : \E k \in DOMAIN tasks[p] : tasks'[p][j] = tasks[p][k]
              /\ \A q \in Priorities \ {p} : tasks'[q] = tasks[q]
          BY <3>2, <4>1, <4>3 DEF EndingInv, DependenciesInv, HomeInv, TypeOK
        <4>5. \A o : o \in Ready' <=> \E q \in Priorities : \E j \in DOMAIN tasks'[q] : tasks'[q][j] = o
          BY DEF Ready, RangeOf
        <4> QED  BY <4>4, <4>5, ReadyIs
      <3> QED  BY <1>3, <3>1, <3>2 DEF CancelBegin
    <2> QED  BY <2>1, <2>2, StillEnding
  <1>4. CASE Stop
    BY <1>4, StoppedEnding DEF Stop
  <1>5. CASE CancelNext
    <2>1. /\ UNCHANGED <<loop, quitting, life, stack, early, sweeping, accepting, tasks>>
          /\ unfinished' \subseteq unfinished
      BY <1>5 DEF CancelNext, CancelEnd, CancelStep, workerVars, queueVars
    <2> QED  BY <2>1, StillEnding DEF Ready
  <1> QED  BY <1>1, <1>2, <1>3, <1>4, <1>5 DEF CallerNext

LEMMA ClientEnding ==
    ASSUME EndingInv, NEW c \in Clients, ClientNext(c) \/ ClientCall(c)
    PROVE  (\A v \in Workers : WorkerFits(v)') /\ ReadySwept' /\ Attended'
  <1>1. CASE ShutdownBegin(c)
    BY <1>1, StoppedEnding DEF ShutdownBegin
  <1>2. CASE ~ShutdownBegin(c)
    <2>1. UNCHANGED <<loop, quitting, life, stack, early, sweeping, accepting, tasks, unfinished>>
      BY <1>2 DEF ClientNext, ClientCall, WaitCheck, ShutdownJoined, ResultCheck, WaitBegin, WaitTimeout,
                  ShutdownTimeout, ResultBegin, ResultTimeout, workerVars, queueVars
    <2> QED  BY <2>1, StillEnding DEF Ready
  <1> QED  BY <1>1, <1>2

-----------------------------------------------------------------------------
(* The theorem.                                                            *)

LEMMA EndingInit == Init => EndingInv
  <1> SUFFICES ASSUME Init PROVE EndingInv
    OBVIOUS
  <1>1. DependenciesInv
    BY DependsInit
  <1>2. \A w \in Workers : WorkerFits(w)
    BY DEF Init, WorkerFits, FrameFits, FinishFits, LifeFits, SweepFits, Called, Finishing
  <1>3. ReadySwept /\ Attended
    BY DEF Init, ReadySwept, Attended, Ready, RangeOf
  <1> QED  BY <1>1, <1>2, <1>3 DEF EndingInv

LEMMA EndingStep == EndingInv /\ [Next]_vars => EndingInv'
  <1> SUFFICES ASSUME EndingInv, [Next]_vars PROVE EndingInv'
    OBVIOUS
  <1>1. DependenciesInv'
    BY DependsStep DEF EndingInv
  <1>2. CASE UNCHANGED vars
    <2>1. UNCHANGED <<loop, quitting, life, stack, early, sweeping, accepting, tasks, unfinished>>
      BY <1>2 DEF vars
    <2> QED  BY <1>1, <2>1, StillEnding DEF Ready, EndingInv
  <1>3. CASE CallerNext \/ CancelNext
    BY <1>1, <1>3, CallerEnding DEF EndingInv
  <1>4. ASSUME NEW w \in Workers, WorkerNext(w) \/ UserNext(w)
        PROVE  EndingInv'
    BY <1>1, <1>4, OwnEnding DEF EndingInv
  <1>5. ASSUME NEW c \in Clients, ClientNext(c) \/ ClientCall(c)
        PROVE  EndingInv'
    BY <1>1, <1>5, ClientEnding DEF EndingInv
  <1> QED  BY <1>2, <1>3, <1>4, <1>5 DEF Next

\* What the invariant says of a worker is what NoStrandedTask says of it.
LEMMA Attends ==
    ASSUME NEW w \in Workers, WorkerFits(w), Called(w, QueueItems) \/ InSweep(w)
    PROVE  Attending(w)
  BY DEF WorkerFits, FrameFits, Called, InSweep, SweepPhases, Attending

\* However the workers sweep, end and are quit, whatever tasks do to their loops, and
\* however many there are: a task accepted has a worker on the way to it, and workers
\* that end on their own leave none. The argument is that a sweep that finds nothing
\* ready leaves behind a task in a worker's hands (NoneReady), whose worker goes on.
THEOREM NoTaskIsLeftBehind == Spec => []NoTaskLeftBehind
  <1>1. EndingInv => NoTaskLeftBehind
    <2> SUFFICES ASSUME EndingInv PROVE NoTaskLeftBehind
      OBVIOUS
    <2>1. /\ DependenciesInv /\ (\A w \in Workers : WorkerFits(w)) /\ ReadySwept /\ Attended
          /\ HandsCover /\ PendingKept /\ DependentsFit
      BY DEF EndingInv, DependenciesInv, HomeInv, OneHome, DependsFit, ResultsFit
    <2>2. ASSUME Ready # {}, accepting, NEW w \in Workers \ early
          PROVE  Attending(w)
      <3>1. sweeping[w] /\ life[w] = "running"
        BY <2>1, <2>2 DEF ReadySwept, WorkerFits, LifeFits
      <3> QED  BY <2>1, <3>1, Attends DEF WorkerFits, SweepFits
    <2>3. ASSUME Ready # {}, early # Workers
          PROVE  \E w \in Workers : Attending(w)
      <3>1. unfinished # {}
        BY <2>1, <2>3 DEF HandsCover
      <3>2. PICK u \in Workers : u \notin early
        BY <2>1, <2>3 DEF DependenciesInv, HomeInv, TypeOK
      <3>3. \E w \in Workers : Called(w, QueueItems) \/ InSweep(w)
        BY <2>1, <3>1, <3>2 DEF Attended
      <3> QED  BY <2>1, <3>3, Attends
    <2>4. ASSUME AllEnded, early = {}
          PROVE  ~accepting /\ unfinished = {} /\ \A id \in Ids : results[id] # "pending"
      <3>1. PICK u : u \in Workers
        BY WorkersAssumption
      <3>2. \A w \in Workers : loop[w] = <<>> /\ stack[w] = <<>> /\ ~accepting
        BY <2>1, <2>4 DEF AllEnded, WorkerFits, LifeFits
      <3>3. unfinished = {}
        BY <2>1, <2>4, <3>1, <3>2 DEF Attended, Called, InSweep
      <3>4. DOMAIN dependents = {}
        BY <2>1, <3>3 DEF DependentsFit
      <3> QED  BY <2>1, <3>1, <3>2, <3>3, <3>4 DEF PendingKept
    <2>5. NoStrandedTask
      BY <2>2, <2>3 DEF NoStrandedTask
    <2>6. StoppedQueueRunsAll
      BY <2>4 DEF StoppedQueueRunsAll
    <2> QED  BY <2>5, <2>6 DEF NoTaskLeftBehind
  <1> QED  BY <1>1, EndingInit, EndingStep, PTL DEF Spec

=============================================================================
