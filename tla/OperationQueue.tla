--------------------------- MODULE OperationQueue ---------------------------
(***************************************************************************)
(* operation_queue (src/src/thread/operation_queue.cpp): a fixed set of    *)
(* workers, each a thread running a run loop, that run the tasks given to  *)
(* submit() and enqueue(), highest priority first, a task named to run     *)
(* after others only once they have returned.                              *)
(*                                                                         *)
(* Every step that holds backlog::_mutex for a loop over other tasks is    *)
(* cut at each turn of that loop (CancelStep, CountOff), so the lock is a  *)
(* variable here; the other critical sections are one action each, taken   *)
(* when the lock is free.  What a task does is left open: it returns, or   *)
(* first posts to its worker's loop, or pumps that loop by run_pending().  *)
(* A call the code refuses, or that finds nothing to do, changes no state  *)
(* and is a stuttering step: submit() with an unnamed priority or a result *)
(* of another queue, any call after stop(), cancel() of a task that has    *)
(* started.                                                                *)
(***************************************************************************)
EXTENDS Integers, Sequences, FiniteSets

CONSTANTS
    Workers,      \* the queue's worker threads
    Clients,      \* threads outside the queue that wait for it
    Priorities,   \* the operation_priority values tasks are given
    MaxOps,       \* bound: tasks accepted
    MaxResults,   \* bound: results made
    MaxAfter,     \* bound: results named in one operation_options::after
    MaxPosts,     \* bound: items posted to worker loops by others than the queue
    MaxDepth,     \* bound: items running one inside the other on a worker
    EarlyQuit     \* whether a task or a thread may quit() a worker's loop

ASSUME WorkersAssumption == IsFiniteSet(Workers) /\ Workers # {}
ASSUME PrioritiesAssumption == Priorities # {} /\ Priorities \subseteq 0..2
ASSUME BoundsAssumption ==
    /\ MaxOps \in Nat /\ MaxResults \in Nat /\ MaxAfter \in Nat
    /\ MaxPosts \in Nat /\ MaxDepth \in Nat \ {0}
    /\ EarlyQuit \in BOOLEAN

VARIABLES
    mutex,        \* who holds backlog::_mutex across steps: "free", "cancel" or "done"
    accepting,    \* backlog::_accepting; false also says _workers is empty
    ops,          \* what each accepted task was given; a task is its index, 1 for order 0
    unfinished,   \* backlog::_unfinished
    results,      \* the state of each result this queue made; its id is its index
    dependents,   \* backlog::_dependents, by result id
    waiting,      \* backlog::_waiting: the count "remaining" of each task in it
    tasks,        \* backlog::_tasks: the list of each priority
    sweeping,     \* backlog::_sweeping
    counting,     \* the orders done() has still to count off, in its critical section
    removing,     \* the tasks cancel() has taken out and not yet dealt with
    loop,         \* the run loop of each worker: the items queued on it
    quitting,     \* whether that loop was asked to quit
    life,         \* a worker runs, has dropped its loop ("ending"), or has ended
    stack,        \* the items running on a worker, innermost last
    posts,        \* how many items were posted (bounds them)
    client,       \* where each client's wait on the queue, or on a result, stands
    started,      \* history: the tasks whose call has begun
    early         \* history: the workers whose loop somebody else quit

queueVars == <<ops, unfinished, results, dependents, waiting, tasks, sweeping>>
lockVars == <<mutex, counting, removing>>
workerVars == <<loop, quitting, life, stack>>
vars == <<mutex, accepting, ops, unfinished, results, dependents, waiting,
          tasks, sweeping, counting, removing, loop, quitting, life, stack,
          posts, client, started, early>>

-----------------------------------------------------------------------------
(* The kinds of data.                                                      *)

NoResult == 0       \* a task from submit() fills in no result
NoTask == 0         \* a frame that runs no task just now

Orders == 1..Len(ops)
Ids == 1..Len(results)

\* enum class state of operation_result::storage.
States == {"pending", "returned", "cancelled"}

\* What a run loop holds here: a sweep or the finishing item of the queue, and
\* items posted by a task to its own worker ("own") or by another thread.
Items == {"sweep", "finish", "own", "other"}
QueueItems == {"sweep", "finish"}

\* Where an item being run stands: in run_until_empty() about to take, in a
\* task's call, past it, in done()'s critical section; in finish() about to
\* look at its loop, or about to quit it; or in a posted item's own code.
Phases == {"take", "run", "returned", "count", "check", "leave", "user"}

\* drain: how many items the run_pending() its code is in has still to run.
Frames == [job: Items, phase: Phases, task: Orders \union {NoTask}, drain: Nat]

FrameOf(item) ==
    [job |-> item, task |-> NoTask, drain |-> 0,
     phase |-> IF item \in QueueItems THEN "take" ELSE "user"]

\* Every list of results a caller could name in operation_options::after.
AfterLists == UNION {[1..n -> Ids] : n \in 0..MaxAfter}

RangeOf(s) == {s[i] : i \in DOMAIN s}

-----------------------------------------------------------------------------
(* What the state says of tasks and workers.                               *)

Ready == UNION {RangeOf(tasks[p]) : p \in Priorities}
Waiting == DOMAIN waiting
FrameTasks(w) == {stack[w][i].task : i \in DOMAIN stack[w]} \ {NoTask}
Running == UNION {FrameTasks(w) : w \in Workers}

Top(w) == stack[w][Len(stack[w])]
Busy(w) == stack[w] # <<>>
At(w, phase) == Busy(w) /\ Top(w).phase = phase
\* In a task's or a posted item's own code, and not inside a run_pending().
InUserCode(w) == (At(w, "run") \/ At(w, "user")) /\ Top(w).drain = 0

\* Every task accepted up to and including order target is no longer
\* unfinished: settled() of wait_for().
Settled(target) == \A o \in unfinished : o > target

-----------------------------------------------------------------------------
(* Accepting tasks: submit(), enqueue(), queue() and make_ready().         *)

\* thread::perform() queues an item unless the thread's loop has gone.
Performed(w, item) == IF life[w] = "running" THEN Append(loop[w], item) ELSE loop[w]

\* Mutant: only one worker with no sweep is handed one.
OfferedOne ==
    LET idle == {w \in Workers : ~sweeping[w]}
    IN  IF accepting /\ idle # {} THEN {CHOOSE w \in idle : TRUE} ELSE {}

\* The workers make_ready() hands a sweep; stop() leaves it none to hand one to.
Offered == IF accepting THEN {w \in Workers : ~sweeping[w]} ELSE {}

\* A worker offered a sweep is marked even if its loop has ended.
MakeReady(task, priority) ==
    /\ tasks' = [tasks EXCEPT ![priority] = Append(@, task)]
    /\ sweeping' = [w \in Workers |-> sweeping[w] \/ w \in Offered]
    /\ loop' = [w \in Workers |-> IF w \in Offered THEN Performed(w, "sweep") ELSE loop[w]]

\* Mutant: only the first result named is looked at.
FirstCancelled(after) == after # <<>> /\ results[after[1]] = "cancelled"

AnyCancelled(after) == \E i \in DOMAIN after : results[after[i]] = "cancelled"

\* Mutant: stops at the first such place.
OpenFirst(after) ==
    {i \in DOMAIN after : after[i] \in DOMAIN dependents
                          /\ \A j \in 1..(i - 1) : after[j] \notin DOMAIN dependents}

\* The places of after that name a result not yet counted off.
Open(after) == {i \in DOMAIN after : after[i] \in DOMAIN dependents}

\* Called with _mutex held: the task is accepted as the next order and waits
\* aside as often as after names an unfinished result, or is made ready.
Queue(priority, after, result) ==
    LET order == Len(ops) + 1
        listed == DOMAIN dependents \union ({result} \ {NoResult})
        named(id) == Cardinality({i \in DOMAIN after : after[i] = id})
        before(id) == IF id \in DOMAIN dependents THEN dependents[id] ELSE <<>>
        remaining == Cardinality(Open(after))
    IN  /\ ops' = Append(ops, [priority |-> priority, after |-> after, result |-> result])
        /\ unfinished' = unfinished \union {order}
        /\ dependents' = [id \in listed |-> before(id) \o [i \in 1..named(id) |-> order]]
        /\ IF remaining > 0
             THEN /\ waiting' = [o \in Waiting \union {order} |->
                                    IF o = order THEN remaining ELSE waiting[o]]
                  /\ UNCHANGED <<tasks, sweeping, loop>>
             ELSE /\ MakeReady(order, priority)
                  /\ UNCHANGED waiting

\* A task to run after a cancelled result is dropped without a word.
Submit(priority, after) ==
    /\ mutex = "free" /\ accepting /\ Len(ops) < MaxOps
    /\ ~AnyCancelled(after)
    /\ Queue(priority, after, NoResult)
    /\ UNCHANGED <<mutex, accepting, results, counting, removing, quitting, life, stack,
                   posts, client, started, early>>

Enqueue(priority, after) ==
    /\ mutex = "free" /\ accepting /\ Len(ops) < MaxOps /\ Len(results) < MaxResults
    /\ ~AnyCancelled(after)
    /\ results' = Append(results, "pending")
    /\ Queue(priority, after, Len(results) + 1)
    /\ UNCHANGED <<mutex, accepting, counting, removing, quitting, life, stack,
                   posts, client, started, early>>

\* enqueue() after a cancelled result: it is given a result already cancelled.
EnqueueCancelled(after) ==
    /\ mutex = "free" /\ accepting /\ Len(results) < MaxResults
    /\ AnyCancelled(after)
    /\ results' = Append(results, "cancelled")
    /\ UNCHANGED <<mutex, accepting, ops, unfinished, dependents, waiting, tasks, sweeping,
                   counting, removing, workerVars, posts, client, started, early>>

-----------------------------------------------------------------------------
(* cancel(): the task, then every task after it in turn, under one lock.   *)

\* Mutant: nobody is notified.
NoneNotified == client

\* _settled.notify_all().
Notified == [c \in Clients |-> IF client[c].phase = "waiting"
                                 THEN [client[c] EXCEPT !.phase = "woken"] ELSE client[c]]

\* Mutant: the entry is copied and left in its list.
RemoveNone(s, i) == s

RemoveAt(s, i) == SubSeq(s, 1, i - 1) \o SubSeq(s, i + 1, Len(s))

\* _changed.notify_all() of a result that is filled in or cancelled. Who is to be
\* woken is marked at once; its deadline may still pass before it has the lock.
Told(id) == [c \in Clients |-> IF client[c].phase = "resulting" /\ client[c].target = id
                                 THEN [client[c] EXCEPT !.phase = "told"] ELSE client[c]]

WithoutWaiting(gone) == [o \in Waiting \ gone |-> waiting[o]]

\* take_dependent_orders(), as what it leaves.
WithoutDependents(id) == [i \in DOMAIN dependents \ {id} |-> dependents[i]]

CancelBegin(order) ==
    /\ mutex = "free" /\ ops[order].result # NoResult
    /\ \/ \E p \in Priorities : \E i \in DOMAIN tasks[p] :
            /\ tasks[p][i] = order
            /\ tasks' = [tasks EXCEPT ![p] = RemoveAt(@, i)]
            /\ UNCHANGED waiting
       \/ /\ order \in Waiting
          /\ waiting' = WithoutWaiting({order})
          /\ UNCHANGED tasks
    /\ mutex' = "cancel"
    /\ removing' = {order}
    /\ UNCHANGED <<accepting, ops, unfinished, results, dependents, sweeping, counting,
                   workerVars, posts, client, started, early>>

\* take_dependents(): the tasks still waiting to run after the one of result id.
Followers(id) == IF id \in DOMAIN dependents THEN RangeOf(dependents[id]) \intersect Waiting ELSE {}

\* One turn of the loop over removed. Which of them it deals with next is
\* left open: nothing but the order in which results turn tells.
CancelStep(order) ==
    LET id == ops[order].result
        taken == Followers(id)
    IN  /\ mutex = "cancel" /\ order \in removing
        /\ unfinished' = unfinished \ {order}
        /\ IF id = NoResult
             THEN /\ removing' = removing \ {order}
                  /\ UNCHANGED <<results, dependents, waiting, client>>
             ELSE /\ client' = Told(id)
                  /\ removing' = (removing \ {order}) \union taken
                  /\ results' = [results EXCEPT ![id] = IF @ = "pending" THEN "cancelled" ELSE @]
                  /\ dependents' = WithoutDependents(id)
                  /\ waiting' = WithoutWaiting(taken)
        /\ UNCHANGED <<mutex, accepting, ops, tasks, sweeping, counting,
                       workerVars, posts, started, early>>

CancelEnd ==
    /\ mutex = "cancel" /\ removing = {}
    /\ mutex' = "free"
    /\ client' = Notified
    /\ UNCHANGED <<accepting, queueVars, counting, removing, workerVars, posts, started, early>>

-----------------------------------------------------------------------------
(* stop(), by shutdown() or the last handle going, and the waiting calls of *)
(* the queue and of operation_result.                                      *)

\* Mutant: a worker with a sweep is not handed the finishing item.
StoppedIdle ==
    /\ accepting' = FALSE
    /\ loop' = [w \in Workers |-> IF accepting /\ ~sweeping[w] THEN Performed(w, "finish") ELSE loop[w]]

Stopped ==
    /\ accepting' = FALSE
    /\ loop' = [w \in Workers |-> IF accepting THEN Performed(w, "finish") ELSE loop[w]]

Stop ==
    /\ mutex = "free" /\ accepting
    /\ Stopped
    /\ UNCHANGED <<mutex, queueVars, counting, removing, quitting, life, stack,
                   posts, client, started, early>>

\* A client is in one waiting call at a time.
InWait(c) == client[c].phase \in {"waiting", "woken", "joining", "resulting", "told"}

Answer(c, phase, answer) ==
    client' = [client EXCEPT ![c] = [@ EXCEPT !.phase = phase, !.answer = answer]]

\* wait_for(), from the call to its first wait or, with nothing to wait for or
\* no time to, its answer.
WaitBegin(c) ==
    /\ mutex = "free" /\ ~InWait(c)
    /\ \E phase \in {"waiting", "waited"} :
        /\ phase = "waiting" => ~Settled(Len(ops))
        /\ client' = [client EXCEPT ![c] =
                        [phase |-> phase, target |-> Len(ops), answer |-> Settled(Len(ops))]]
    /\ UNCHANGED <<mutex, accepting, queueVars, counting, removing, workerVars, posts, started, early>>

\* Mutant: a wait that was woken answers without looking again.
WaitCheckOnce(c) ==
    /\ mutex = "free" /\ client[c].phase = "woken"
    /\ Answer(c, "waited", TRUE)
    /\ UNCHANGED <<mutex, accepting, queueVars, counting, removing, workerVars, posts, started, early>>

\* A wait woken by a notify, holding the lock again, looks and waits on.
WaitCheck(c) ==
    /\ mutex = "free" /\ client[c].phase = "woken"
    /\ IF Settled(client[c].target) THEN Answer(c, "waited", TRUE) ELSE Answer(c, "waiting", FALSE)
    /\ UNCHANGED <<mutex, accepting, queueVars, counting, removing, workerVars, posts, started, early>>

\* The deadline passes, before or after a notify; the answer is what holds by then.
WaitTimeout(c) ==
    /\ mutex = "free" /\ client[c].phase \in {"waiting", "woken"}
    /\ Answer(c, "waited", Settled(client[c].target))
    /\ UNCHANGED <<mutex, accepting, queueVars, counting, removing, workerVars, posts, started, early>>

\* shutdown(): stop(), then join_for() each worker against one deadline.
ShutdownBegin(c) ==
    /\ mutex = "free" /\ ~InWait(c)
    /\ Stopped
    /\ client' = [client EXCEPT ![c] = [phase |-> "joining", target |-> Len(ops), answer |-> FALSE]]
    /\ UNCHANGED <<mutex, queueVars, counting, removing, quitting, life, stack,
                   posts, started, early>>

AllEnded == \A w \in Workers : life[w] = "ended"

ShutdownJoined(c) ==
    /\ client[c].phase = "joining" /\ AllEnded
    /\ Answer(c, "joined", TRUE)
    /\ UNCHANGED <<mutex, accepting, queueVars, counting, removing, workerVars, posts, started, early>>

ShutdownTimeout(c) ==
    /\ client[c].phase = "joining" /\ ~AllEnded
    /\ Answer(c, "joined", FALSE)
    /\ UNCHANGED <<mutex, accepting, queueVars, counting, removing, workerVars, posts, started, early>>

Finished(id) == results[id] # "pending"

\* operation_result::wait_for(), which holds the result's own lock and not the
\* queue's, up to its first wait or its answer.
ResultBegin(c) ==
    /\ ~InWait(c)
    /\ \E id \in Ids, phase \in {"resulting", "resulted"} :
        /\ phase = "resulting" => ~Finished(id)
        /\ client' = [client EXCEPT ![c] =
                        [phase |-> phase, target |-> id, answer |-> Finished(id)]]
    /\ UNCHANGED <<mutex, accepting, queueVars, counting, removing, workerVars, posts, started, early>>

\* Woken by a notify, it looks; by its deadline, before or after one, it answers.
ResultCheck(c) ==
    /\ client[c].phase = "told"
    /\ IF Finished(client[c].target) THEN Answer(c, "resulted", TRUE) ELSE Answer(c, "resulting", FALSE)
    /\ UNCHANGED <<mutex, accepting, queueVars, counting, removing, workerVars, posts, started, early>>

ResultTimeout(c) ==
    /\ client[c].phase \in {"resulting", "told"}
    /\ Answer(c, "resulted", Finished(client[c].target))
    /\ UNCHANGED <<mutex, accepting, queueVars, counting, removing, workerVars, posts, started, early>>

-----------------------------------------------------------------------------
(* A worker running its loop: sweep(), finish(), run_until_empty().        *)

Becomes(w, frame) == stack' = [stack EXCEPT ![w] = [@ EXCEPT ![Len(@)] = frame]]
Pop(w) == stack' = [stack EXCEPT ![w] = SubSeq(@, 1, Len(@) - 1)]

\* Taking an item off the loop uses up one of every run_pending() around it.
Drained(s) == [i \in DOMAIN s |-> [s[i] EXCEPT !.drain = IF @ > 0 THEN @ - 1 ELSE 0]]

\* The loop's own run() takes the next item unless asked to quit; a task's
\* run_pending() takes it all the same.
StartItem(w) ==
    /\ life[w] = "running" /\ loop[w] # <<>>
    /\ IF Busy(w) THEN Top(w).drain > 0 ELSE ~quitting[w]
    /\ loop' = [loop EXCEPT ![w] = Tail(@)]
    /\ stack' = [stack EXCEPT ![w] = Append(Drained(@), FrameOf(Head(loop[w])))]
    /\ UNCHANGED <<mutex, accepting, queueVars, counting, removing, quitting, life,
                   posts, client, started, early>>

\* A task calls current_runloop().run_pending(): what is queued by now is run.
Pump(w) ==
    /\ InUserCode(w) /\ Len(stack[w]) < MaxDepth /\ loop[w] # <<>>
    /\ Becomes(w, [Top(w) EXCEPT !.drain = Len(loop[w])])
    /\ UNCHANGED <<mutex, accepting, queueVars, counting, removing, loop, quitting, life,
                   posts, client, started, early>>

\* Mutant: the lists are looked through lowest priority first.
Rearmost(p) == tasks[p] # <<>> /\ \A q \in Priorities : q < p => tasks[q] = <<>>

\* The list take() takes from.
Foremost(p) == tasks[p] # <<>> /\ \A q \in Priorities : q > p => tasks[q] = <<>>

\* take(): the first task of the highest priority that has one.
Take(w) ==
    /\ At(w, "take") /\ mutex = "free"
    /\ \E p \in Priorities :
        /\ Foremost(p)
        /\ tasks' = [tasks EXCEPT ![p] = Tail(@)]
        /\ Becomes(w, [Top(w) EXCEPT !.phase = "run", !.task = Head(tasks[p])])
        /\ started' = started \union {Head(tasks[p])}
    /\ UNCHANGED <<mutex, accepting, ops, unfinished, results, dependents, waiting, sweeping,
                   counting, removing, loop, quitting, life, posts, client, early>>

NothingToTake == Ready = {}

\* Mutant: the sweep's mark stays.
SweepKept(w) == sweeping

SweepOver(w) == [sweeping EXCEPT ![w] = FALSE]

\* take() finds every list empty: the sweep is over, and finish() goes on.
TakeNone(w) ==
    /\ At(w, "take") /\ mutex = "free"
    /\ NothingToTake
    /\ sweeping' = SweepOver(w)
    /\ IF Top(w).job = "finish" THEN Becomes(w, [Top(w) EXCEPT !.phase = "check"]) ELSE Pop(w)
    /\ UNCHANGED <<mutex, accepting, ops, unfinished, results, dependents, waiting, tasks,
                   counting, removing, loop, quitting, life, posts, client, started, early>>

\* The task returns, and entry::run() fills in its result.
Return(w) ==
    LET id == ops[Top(w).task].result
    IN  /\ At(w, "run") /\ Top(w).drain = 0
        /\ results' = IF id # NoResult /\ results[id] = "pending"
                        THEN [results EXCEPT ![id] = "returned"] ELSE results
        /\ client' = Told(id)
        /\ Becomes(w, [Top(w) EXCEPT !.phase = "returned"])
        /\ UNCHANGED <<mutex, accepting, ops, unfinished, dependents, waiting, tasks, sweeping,
                       counting, removing, loop, quitting, life, posts, started, early>>

\* done(), from the lock taken to its loop over the tasks after this one.
Done(w) ==
    LET id == ops[Top(w).task].result
    IN  /\ At(w, "returned") /\ mutex = "free"
        /\ mutex' = "done"
        /\ unfinished' = unfinished \ {Top(w).task}
        /\ counting' = IF id \in DOMAIN dependents THEN dependents[id] ELSE <<>>
        /\ dependents' = WithoutDependents(id)
        /\ Becomes(w, [Top(w) EXCEPT !.phase = "count", !.task = NoTask])
        /\ UNCHANGED <<accepting, ops, results, waiting, tasks, sweeping, removing,
                       loop, quitting, life, posts, client, started, early>>

\* Mutant: looks at the count before taking one off.
NoneRemain(order) == waiting[order] = 0

\* Whether counting one off leaves the task nothing to wait for.
LastRemaining(order) == waiting[order] = 1

\* One turn of that loop; a task gone from _waiting was cancelled.
CountOff(w) ==
    LET order == Head(counting)
    IN  /\ At(w, "count") /\ counting # <<>>
        /\ counting' = Tail(counting)
        /\ \/ /\ order \in Waiting /\ LastRemaining(order)
              /\ waiting' = WithoutWaiting({order})
              /\ MakeReady(order, ops[order].priority)
           \/ /\ order \in Waiting /\ ~LastRemaining(order)
              /\ waiting' = [waiting EXCEPT ![order] = @ - 1]
              /\ UNCHANGED <<tasks, sweeping, loop>>
           \/ /\ order \notin Waiting
              /\ UNCHANGED <<waiting, tasks, sweeping, loop>>
        /\ UNCHANGED <<mutex, accepting, ops, unfinished, results, dependents, removing,
                       quitting, life, stack, posts, client, started, early>>

\* done() releases the lock, notifies, and its sweep takes again.
DoneEnd(w) ==
    /\ At(w, "count") /\ counting = <<>>
    /\ mutex' = "free"
    /\ client' = Notified
    /\ Becomes(w, [Top(w) EXCEPT !.phase = "take"])
    /\ UNCHANGED <<accepting, queueVars, counting, removing, loop, quitting, life,
                   posts, started, early>>

\* pending_count() > 0.
Pending(w) == loop[w] # <<>>

\* finish() queues itself again behind what its loop still holds.
Check(w) ==
    /\ At(w, "check")
    /\ IF Pending(w)
         THEN /\ loop' = [loop EXCEPT ![w] = Append(@, "finish")]
              /\ Pop(w)
         ELSE /\ Becomes(w, [Top(w) EXCEPT !.phase = "leave"])
              /\ UNCHANGED loop
    /\ UNCHANGED <<mutex, accepting, queueVars, counting, removing, quitting, life,
                   posts, client, started, early>>

\* finish() saw its loop empty, and quits it.
Leave(w) ==
    /\ At(w, "leave")
    /\ quitting' = [quitting EXCEPT ![w] = TRUE]
    /\ Pop(w)
    /\ UNCHANGED <<mutex, accepting, queueVars, counting, removing, loop, life,
                   posts, client, started, early>>

\* The code of a posted item returns.
UserReturn(w) ==
    /\ At(w, "user") /\ Top(w).drain = 0
    /\ Pop(w)
    /\ UNCHANGED <<mutex, accepting, queueVars, counting, removing, loop, quitting, life,
                   posts, client, started, early>>

\* The loop's run() returns, consuming the quit; the thread drops its loop,
\* and every item still on it, before it counts as finished.
EndLoop(w) ==
    /\ life[w] = "running" /\ ~Busy(w) /\ quitting[w]
    /\ quitting' = [quitting EXCEPT ![w] = FALSE]
    /\ loop' = [loop EXCEPT ![w] = <<>>]
    /\ life' = [life EXCEPT ![w] = "ending"]
    /\ UNCHANGED <<mutex, accepting, queueVars, counting, removing, stack,
                   posts, client, started, early>>

ThreadEnd(w) ==
    /\ life[w] = "ending"
    /\ life' = [life EXCEPT ![w] = "ended"]
    /\ UNCHANGED <<mutex, accepting, queueVars, counting, removing, loop, quitting, stack,
                   posts, client, started, early>>

-----------------------------------------------------------------------------
(* What tasks and other threads do to a worker's loop.                     *)

Post(w, item) ==
    /\ posts < MaxPosts /\ life[w] = "running"
    /\ posts' = posts + 1
    /\ loop' = [loop EXCEPT ![w] = Append(@, item)]
    /\ UNCHANGED <<mutex, accepting, queueVars, counting, removing, quitting, life, stack,
                   client, started, early>>

\* current_thread().perform() from a task.
PostOwn(w) == InUserCode(w) /\ Post(w, "own")

\* perform() by another thread that holds a handle to the worker.
PostOther(w) == Post(w, "other")

\* quit() on the worker's thread or loop, by anyone but finish().
QuitEarly(w) ==
    /\ EarlyQuit /\ life[w] = "running" /\ ~quitting[w]
    /\ quitting' = [quitting EXCEPT ![w] = TRUE]
    /\ early' = early \union {w}
    /\ UNCHANGED <<mutex, accepting, queueVars, counting, removing, loop, life, stack,
                   posts, client, started>>

-----------------------------------------------------------------------------
Init ==
    /\ mutex = "free" /\ accepting = TRUE
    /\ ops = <<>> /\ unfinished = {} /\ results = <<>>
    /\ dependents = [id \in {} |-> <<>>] /\ waiting = [o \in {} |-> 0]
    /\ tasks = [p \in Priorities |-> <<>>]
    /\ sweeping = [w \in Workers |-> FALSE]
    /\ counting = <<>> /\ removing = {}
    /\ loop = [w \in Workers |-> <<>>]
    /\ quitting = [w \in Workers |-> FALSE]
    /\ life = [w \in Workers |-> "running"]
    /\ stack = [w \in Workers |-> <<>>]
    /\ posts = 0
    /\ client = [c \in Clients |-> [phase |-> "idle", target |-> 0, answer |-> FALSE]]
    /\ started = {} /\ early = {}

CancelNext == CancelEnd \/ \E order \in Orders : CancelStep(order)

\* What a worker's thread does of its own accord.
WorkerNext(w) ==
    \/ StartItem(w) \/ Take(w) \/ TakeNone(w) \/ Return(w) \/ Done(w) \/ CountOff(w)
    \/ DoneEnd(w) \/ Check(w) \/ Leave(w) \/ UserReturn(w) \/ EndLoop(w) \/ ThreadEnd(w)

\* What the code running on a worker, or a thread with a handle to it, may do.
UserNext(w) == Pump(w) \/ PostOwn(w) \/ PostOther(w) \/ QuitEarly(w)

CallerNext ==
    \/ \E priority \in Priorities, after \in AfterLists :
        Submit(priority, after) \/ Enqueue(priority, after)
    \/ \E after \in AfterLists : EnqueueCancelled(after)
    \/ \E order \in Orders : CancelBegin(order)
    \/ Stop

\* A client's thread waits; time passing for it is a step of its own.
ClientNext(c) == WaitCheck(c) \/ ShutdownJoined(c) \/ ResultCheck(c)
ClientCall(c) ==
    \/ WaitBegin(c) \/ WaitTimeout(c) \/ ShutdownBegin(c) \/ ShutdownTimeout(c)
    \/ ResultBegin(c) \/ ResultTimeout(c)

Next ==
    \/ CallerNext
    \/ CancelNext
    \/ \E w \in Workers : WorkerNext(w) \/ UserNext(w)
    \/ \E c \in Clients : ClientNext(c) \/ ClientCall(c)

Spec == Init /\ [][Next]_vars

\* Threads that can take a step of their own take it: the system schedules
\* them, a task returns once its code has run, a mutex is got in the end.
\* Nobody is made to call the queue, and no timeout is made to pass.
Fairness ==
    /\ WF_vars(CancelNext)
    /\ \A w \in Workers : WF_vars(WorkerNext(w))
    /\ \A c \in Clients : WF_vars(ClientNext(c))

FairSpec == Spec /\ Fairness

-----------------------------------------------------------------------------
(* Correctness.                                                            *)

ClientPhases == {"idle", "waiting", "woken", "waited", "joining", "joined",
                 "resulting", "told", "resulted"}

\* Every variable holds the kind of value the code's declarations give it.
TypeOK ==
    /\ mutex \in {"free", "cancel", "done"} /\ accepting \in BOOLEAN
    /\ ops \in Seq([priority: Priorities, after: Seq(Ids), result: Ids \union {NoResult}])
    /\ results \in Seq(States)
    /\ unfinished \subseteq Orders /\ removing \subseteq Orders
    /\ DOMAIN dependents \subseteq Ids /\ dependents \in [DOMAIN dependents -> Seq(Orders)]
    /\ Waiting \subseteq Orders /\ waiting \in [Waiting -> Nat \ {0}]
    /\ tasks \in [Priorities -> Seq(Orders)]
    /\ counting \in Seq(Orders)
    /\ sweeping \in [Workers -> BOOLEAN] /\ quitting \in [Workers -> BOOLEAN]
    /\ life \in [Workers -> {"running", "ending", "ended"}]
    /\ loop \in [Workers -> Seq(Items)]
    /\ stack \in [Workers -> Seq(Frames)]
    /\ posts \in Nat
    /\ client \in [Clients -> [phase: ClientPhases, target: Nat, answer: BOOLEAN]]
    /\ started \subseteq Orders /\ early \subseteq Workers

\* The parts of OneHome.
HandsCover == unfinished = Ready \union Waiting \union Running \union removing
HandsApart == /\ Ready \intersect (Waiting \union removing) = {}
              /\ Waiting \intersect removing = {}
StartedOnce == /\ started \intersect (Ready \union Waiting \union removing) = {}
               /\ Running \subseteq started
ListsApart == \A p \in Priorities : \A i, j \in DOMAIN tasks[p] :
                /\ ops[tasks[p][i]].priority = p
                /\ tasks[p][i] = tasks[p][j] => i = j
FramesApart == \A v, w \in Workers : \A i \in DOMAIN stack[v], j \in DOMAIN stack[w] :
                stack[v][i].task = stack[w][j].task /\ stack[v][i].task # NoTask => v = w /\ i = j

\* A task accepted and not finished is in exactly one hand: in the list of its
\* own priority, waiting aside, with the worker that runs it, or with the
\* cancel() that has just taken it out; one that was started is in no hand but
\* its worker's. So take(), done(), queue() and cancel() on different threads
\* neither lose a task nor run it twice.
OneHome == HandsCover /\ HandsApart /\ StartedOnce /\ ListsApart /\ FramesApart

\* "A task given results in operation_options::after starts only once every one
\* of them has returned": no task is ready, or has started, before that, however
\* the counts of done() and the entries into _waiting interleave.
RunsAfterAll ==
    \A o \in Ready \union started : \A i \in DOMAIN ops[o].after :
        results[ops[o].after[i]] = "returned"

\* Whenever the lock is free, the count a task waits with is the number of
\* times it named a task not yet finished, and the results the queue keeps
\* dependents for are those of unfinished tasks: done() and cancel() count each
\* naming off once and leave no entry behind.
CountsMatch ==
    mutex = "free" =>
        /\ DOMAIN dependents = {ops[o].result : o \in unfinished} \ {NoResult}
        /\ \A o \in Waiting : waiting[o] = Cardinality(Open(ops[o].after))

\* Whenever no cancel() is under way, a task that names a cancelled result has
\* been taken off too and never started, its result cancelled; and a task whose
\* result is cancelled never started.
CancelledTogether ==
    mutex # "cancel" =>
        \A o \in Orders :
            LET named == \E i \in DOMAIN ops[o].after : results[ops[o].after[i]] = "cancelled"
                own == ops[o].result # NoResult /\ results[ops[o].result] = "cancelled"
            IN  /\ named \/ own => o \notin unfinished /\ o \notin started
                /\ named /\ ops[o].result # NoResult => own

\* What the queue's lists say of who follows whom is true at every step.
DependenciesHold == RunsAfterAll /\ CountsMatch /\ CancelledTogether

\* "A worker takes the task of the highest operation_priority waiting": a task
\* starts only when none of a higher priority is ready, and of those of one
\* priority that wait for no other task, the one accepted first.
StartsInOrder ==
    [][\A o \in started' \ started : \A r \in Ready \ {o} :
        /\ ops[r].priority <= ops[o].priority
        /\ (/\ ops[r].priority = ops[o].priority
            /\ ops[o].after = <<>> /\ ops[r].after = <<>>) => o < r]_vars

\* What a sweep or a finishing item, queued or running, has still to do.
Attending(w) ==
    \/ \E i \in DOMAIN loop[w] : loop[w][i] \in QueueItems
    \/ \E i \in DOMAIN stack[w] : stack[w][i].phase \in {"take", "run", "returned", "count"}
                                  /\ stack[w][i].job \in QueueItems

\* While the queue accepts, a ready task has every worker on the way to it but
\* those somebody else quit; once it has stopped, one worker at least, unless
\* somebody else quit them all. So no task is left ready with no sweep to find it.
NoStrandedTask ==
    Ready # {} =>
        /\ accepting => \A w \in Workers \ early : Attending(w)
        /\ early # Workers => \E w \in Workers : Attending(w)

\* Workers that end on their own leave no task behind: once every worker has
\* ended and none was quit by somebody else, every task accepted has finished,
\* and every result made has been filled in or cancelled.
StoppedQueueRunsAll ==
    AllEnded /\ early = {} => /\ ~accepting /\ unfinished = {}
                              /\ \A id \in Ids : results[id] # "pending"

\* No task is left to nobody: while there are workers to come it is attended,
\* and none is there when they have ended.
NoTaskLeftBehind == NoStrandedTask /\ StoppedQueueRunsAll

\* wait_for() answers true only when every task accepted before the call has
\* finished, its result filled in or cancelled; shutdown() only when every
\* worker has ended; and a result's own wait_for() only once it is filled in or
\* cancelled; nobody sleeps on past that.
AnswersHold ==
    \A c \in Clients :
        /\ client[c].phase = "waited" /\ client[c].answer =>
            /\ Settled(client[c].target)
            /\ \A o \in 1..client[c].target :
                ops[o].result # NoResult => results[ops[o].result] # "pending"
        /\ client[c].phase = "joined" /\ client[c].answer => AllEnded /\ ~accepting
        /\ client[c].phase = "resulted" /\ client[c].answer => Finished(client[c].target)
        \* Asleep on a result, it has not missed its notify.
        /\ client[c].phase = "resulting" => ~Finished(client[c].target)

\* A task accepted finishes, or is cancelled: no interleaving of workers, and
\* no order the tasks name one another in, leaves it waiting for ever.
EveryTaskFinishes == \A o \in 1..MaxOps : o \in unfinished ~> o \notin unfinished

\* A stopped queue's workers end, though tasks keep posting to their loops.
WorkersEnd == ~accepting ~> AllEnded

\* wait_for(), of the queue and of a result, and shutdown() answer even if their
\* timeout never comes: the notify_all() after each task finishes or is cancelled
\* is not missed.
WaitersAnswered == \A c \in Clients : InWait(c) ~> ~InWait(c)

-----------------------------------------------------------------------------
(* The queue implements the life of a task that its header promises.       *)

\* Being called, or in its call, until entry::run() has filled in its result.
InCall(o) == \E w \in Workers : \E i \in DOMAIN stack[w] :
                stack[w][i].task = o /\ stack[w][i].phase = "run"

Status(o) ==
    IF o \in started THEN IF InCall(o) THEN "running" ELSE "returned"
    ELSE IF o \in unfinished THEN "queued" ELSE "cancelled"

Lifecycle == INSTANCE OperationLifecycle WITH
    open <- accepting,
    task <- [o \in Orders |-> [after |-> ops[o].after, result |-> ops[o].result]],
    status <- [o \in Orders |-> Status(o)],
    results <- results

\* Every step of the queue is a step of OperationLifecycle or leaves tasks and
\* results as they were: cancel() is seen to take all that follows at once by
\* every take(), submit() and stop(), though it marks results one by one.
ImplementsLifecycle == Lifecycle!Spec

=============================================================================
