------------------------------ MODULE RunLoop ------------------------------
(***************************************************************************)
(* runloop and timer (src/src/thread/runloop.cpp, timer.cpp): the tasks    *)
(* queued and the timers installed on one loop, the running calls of the   *)
(* thread it belongs to, one nested in the work of another, and what any   *)
(* thread may do to the loop meanwhile.                                    *)
(*                                                                         *)
(* _mutex is held from the phase of a running call that takes it to the    *)
(* one that gives it up (Locked); every other critical section is a single *)
(* action.  Within a running call each look at the loop is an action, so   *)
(* time may pass between any two reads of the clock.  A notify is part of  *)
(* the action it follows: one that comes later, to a loop that waits again *)
(* by then, is a Spurious wake.  Work is a task or the fire of a timer;    *)
(* its own code may call anything here, starts running calls of its own,   *)
(* and returns or throws.                                                  *)
(***************************************************************************)
EXTENDS TimerSchedule, Sequences, FiniteSets

CONSTANTS
    Calls,          \* the running calls the loop's thread makes
    Timeouts,       \* the timeouts given to run_for()
    Intervals,      \* the intervals given to timers
    MaxTime,        \* bound: the clock's last reading
    MaxTasks,       \* bound: tasks queued
    MaxTimers,      \* bound: timers made
    MaxCalls,       \* bound: running calls begun
    MaxDepth        \* bound: running calls one inside the other

RunningCalls == {"run", "run_one", "run_for", "run_pending"}

ASSUME CallsAssumption ==
    /\ Calls \subseteq RunningCalls
    /\ Timeouts \subseteq Int /\ Intervals \subseteq Int
ASSUME LoopBoundsAssumption ==
    /\ MaxTime \in Nat /\ MaxTime < TimeMax
    /\ MaxTasks \in Nat /\ MaxTimers \in Nat /\ MaxCalls \in Nat /\ MaxDepth \in Nat

VARIABLES
    now,            \* the time source's clock
    pending,        \* _pending, by sequence number
    nextSequence,   \* _next_sequence
    timers,         \* every timer made; its id is its index
    due,            \* _timers
    making,         \* first deadlines that make() has read and not yet installed
    removing,       \* timers invalidate() has marked and not yet removed
    dropping,       \* timers finish() has taken out and not yet marked
    quit,           \* _quit
    finished,       \* _finished
    stack,          \* the running calls, innermost last; _depth is its length
    calls           \* how many running calls were begun (bounds them)

timerVars == <<timers, due, making, removing, dropping>>
vars == <<now, pending, nextSequence, timers, due, making, removing, dropping,
          quit, finished, stack, calls>>

-----------------------------------------------------------------------------
(* The kinds of data.                                                      *)

Ids == 1..Len(timers)
Times == 0..MaxTime
Deadlines == 0..TimeMax

\* last is history: when the timer was last claimed, NotYet before that.
NotYet == -1
Timers == [repeats: BOOLEAN, interval: Intervals, valid: BOOLEAN, last: Times \union {NotYet}]

\* A task or, by its id, the fire of a timer.
Task == 0
Work == {Task} \union Ids

\* Where a running call stands. It holds _mutex about to compare now() with its
\* deadline ("test"), in next() ("look", and "looked" once that has refreshed
\* the pass), and in the two halves of run_pending() ("due", "drain"). A
\* run_for() has read its deadline, and holds nothing yet, in "begun".
LockedPhases == {"test", "look", "looked", "due", "drain"}
Phases == LockedPhases \union {"begun", "waiting", "woken", "work"}

\* boundary and handled are the pass; limit is run_pending()'s. The others are
\* history. passed: which work of this call was taken while which timer was
\* overdue and has not fired since. And of a run_pending(), queued: the tasks in
\* the queue as it began that it has not taken; barred: the timers installed and
\* not yet due as it began, and those it has fired; known: how many were made.
Frames == [call: RunningCalls, phase: Phases, deadline: Deadlines, boundary: Times,
           handled: SUBSET Ids, limit: Nat, until: Deadlines, work: Work,
           passed: SUBSET (Work \X Ids),
           queued: SUBSET Nat, barred: SUBSET Ids, known: Nat]

Top == stack[Len(stack)]
At(phase) == stack # <<>> /\ Top.phase = phase
Locked == stack # <<>> /\ Top.phase \in LockedPhases
Looking == At("look") \/ At("looked")

Installed == DOMAIN due
Queued == {pending[i] : i \in DOMAIN pending}

-----------------------------------------------------------------------------
(* What any thread may do to the loop.                                     *)

Becomes(frame) == stack' = [stack EXCEPT ![Len(stack)] = frame]

\* Mutant: the wait is not woken.
LeftAsleep == UNCHANGED stack

\* _wake.notify_one() or notify_all(): only the loop's own thread waits on it.
Notify == IF At("waiting") THEN Becomes([Top EXCEPT !.phase = "woken"]) ELSE UNCHANGED stack

\* enqueue(); a finished loop refuses the task and nothing changes.
Enqueue ==
    /\ ~Locked /\ ~finished /\ nextSequence < MaxTasks
    /\ pending' = Append(pending, nextSequence)
    /\ nextSequence' = nextSequence + 1
    /\ Notify
    /\ UNCHANGED <<now, timerVars, quit, finished, calls>>

\* timer::make(), up to the first deadline, which it reads with no lock held.
MakeTimer(repeats, interval) ==
    /\ Len(timers) < MaxTimers
    /\ timers' = Append(timers, [repeats |-> repeats, interval |-> interval,
                                 valid |-> TRUE, last |-> NotYet])
    /\ making' = Install(making, Len(timers) + 1, After(now, interval))
    /\ UNCHANGED <<now, pending, nextSequence, due, removing, dropping, quit, finished,
                   stack, calls>>

Invalid(ids) == [t \in Ids |-> [timers[t] EXCEPT !.valid = @ /\ t \notin ids]]

\* install_timer(); the timer of a finished loop is marked invalid instead.
InstallTimer(id) ==
    /\ ~Locked /\ id \in DOMAIN making
    /\ making' = Without(making, {id})
    /\ IF finished
         THEN timers' = Invalid({id}) /\ UNCHANGED <<due, stack>>
         ELSE due' = Install(due, id, making[id]) /\ Notify /\ UNCHANGED timers
    /\ UNCHANGED <<now, pending, nextSequence, removing, dropping, quit, finished, calls>>

\* invalidate() of a timer its caller has a handle to. It does no more for one
\* that is already invalid, or being made so, than the call before it.
Invalidate(id) ==
    /\ timers[id].valid /\ id \notin DOMAIN making
    /\ timers' = Invalid({id})
    /\ removing' = removing \union {id}
    /\ UNCHANGED <<now, pending, nextSequence, due, making, dropping, quit, finished,
                   stack, calls>>

\* remove_timer().
RemoveTimer(id) ==
    /\ ~Locked /\ id \in removing
    /\ removing' = removing \ {id}
    /\ due' = Without(due, {id})
    /\ Notify
    /\ UNCHANGED <<now, pending, nextSequence, timers, making, dropping, quit, finished, calls>>

Quit ==
    /\ ~Locked /\ ~quit
    /\ quit' = TRUE
    /\ Notify
    /\ UNCHANGED <<now, pending, nextSequence, timerVars, finished, calls>>

Clear ==
    /\ ~Locked /\ pending # <<>>
    /\ pending' = <<>>
    /\ UNCHANGED <<now, nextSequence, timerVars, quit, finished, stack, calls>>

\* finish(), as the thread ends: what the loop holds is dropped under the lock,
\* and the timers are marked one by one after it.
Finish ==
    /\ stack = <<>> /\ ~finished
    /\ finished' = TRUE
    /\ pending' = <<>>
    /\ dropping' = Installed
    /\ due' = Empty
    /\ UNCHANGED <<now, nextSequence, timers, making, removing, quit, stack, calls>>

FinishMark(id) ==
    /\ id \in dropping
    /\ dropping' = dropping \ {id}
    /\ timers' = Invalid({id})
    /\ UNCHANGED <<now, pending, nextSequence, due, making, removing, quit, finished,
                   stack, calls>>

Tick ==
    /\ now < MaxTime
    /\ now' = now + 1
    /\ UNCHANGED <<pending, nextSequence, timerVars, quit, finished, stack, calls>>

-----------------------------------------------------------------------------
(* The running calls.                                                      *)

Pop == stack' = SubSeq(stack, 1, Len(stack) - 1)

FirstPhase(call) ==
    CASE call = "run_one" -> "look" [] call = "run_pending" -> "due"
      [] call = "run_for" -> "begun" [] OTHER -> "test"

\* What a call finds as it begins, if it is a run_pending().
Finds(call, found, nothing) == IF call = "run_pending" THEN found ELSE nothing

\* A call by the loop's thread, from outside the loop or from inside work.
Begin(call, deadline) ==
    /\ stack = <<>> \/ At("work")
    /\ ~finished /\ calls < MaxCalls /\ Len(stack) < MaxDepth
    /\ calls' = calls + 1
    /\ stack' = Append(stack,
            [call |-> call, phase |-> FirstPhase(call), deadline |-> deadline,
             boundary |-> now, handled |-> {}, until |-> 0, work |-> Task, passed |-> {},
             limit |-> Finds(call, nextSequence, 0),
             queued |-> Finds(call, Queued, {}),
             barred |-> Finds(call, {t \in Installed : due[t] > now}, {}),
             known |-> Finds(call, Len(timers), 0)])
    /\ UNCHANGED <<now, pending, nextSequence, timerVars, quit, finished>>

BeginCall ==
    \/ \E call \in Calls \ {"run_for"} : Begin(call, NoDeadline)
    \/ "run_for" \in Calls /\ \E timeout \in Timeouts : Begin("run_for", After(now, timeout))

\* run_for() read its deadline with nothing held; run_until() now has the lock
\* and reads the clock again for its first pass.
Enter ==
    /\ At("begun")
    /\ Becomes([Top EXCEPT !.phase = "test", !.boundary = now, !.handled = {}])
    /\ UNCHANGED <<now, pending, nextSequence, timerVars, quit, finished, calls>>

\* run_until() goes on while its deadline has not passed.
Test ==
    /\ At("test")
    /\ IF Top.deadline = NoDeadline \/ now < Top.deadline
         THEN Becomes([Top EXCEPT !.phase = "look"])
         ELSE Pop
    /\ UNCHANGED <<now, pending, nextSequence, timerVars, quit, finished, calls>>

\* Mutant: a nested call consumes the request too.
ConsumedByAny == FALSE

\* Only the outermost running call consumes a quit().
Consumed == quit /\ Len(stack) > 1

\* next() sees the request, and the running call returns.
LookQuit ==
    /\ Looking /\ quit
    /\ quit' = Consumed
    /\ Pop
    /\ UNCHANGED <<now, pending, nextSequence, timerVars, finished, calls>>

Overdue == {t \in Installed : due[t] < now}

\* Mutant: a pass does not remember what it has fired.
HandledNone(frame, id) == frame.handled

Handled(frame, id) == frame.handled \union {id}

\* take_due_timer() claims the timer and the running call releases the lock.
\* What the fire overtakes and bars is history.
Fire(id, overtaken, barred) ==
    /\ due' = Claimed(due, id, timers[id], now)
    /\ timers' = [timers EXCEPT ![id].last = now]
    /\ stack' = [i \in DOMAIN stack |->
            LET fired == {p \in stack[i].passed : p[2] = id}
            IN  IF i < Len(stack) THEN [stack[i] EXCEPT !.passed = @ \ fired]
                ELSE [stack[i] EXCEPT !.phase = "work", !.work = id,
                        !.handled = Handled(stack[i], id),
                        !.passed = (@ \ fired) \union ({id} \X overtaken),
                        !.barred = @ \union barred]]
    /\ UNCHANGED <<now, pending, nextSequence, making, removing, dropping, quit, finished, calls>>

LookFire(id) ==
    /\ Looking /\ ~quit
    /\ id \in Claimable(due, Top.boundary, Top.handled)
    /\ Fire(id, Overdue \ {id}, {})

NoneDue == Candidates(due, Top.boundary, Top.handled) = {}

\* Mutant: taking a task leaves the pass as it was.
StalePass(frame) == frame

\* fresh_pass(), on a loop that has timers; has_timers is what it was before.
FreshPass(frame) ==
    IF Installed = {} THEN frame ELSE [frame EXCEPT !.boundary = now, !.handled = {}]

\* next() takes the first task, which ends the pass.
LookTake ==
    /\ Looking /\ ~quit /\ NoneDue /\ pending # <<>>
    /\ pending' = Tail(pending)
    /\ Becomes([FreshPass(Top) EXCEPT !.phase = "work", !.work = Task,
                                      !.passed = @ \union ({Task} \X Overdue)])
    /\ UNCHANGED <<now, nextSequence, timerVars, quit, finished, calls>>

LookRefresh ==
    /\ At("look") /\ ~quit /\ NoneDue /\ pending = <<>> /\ Installed # {}
    /\ Becomes([Top EXCEPT !.phase = "looked", !.boundary = now, !.handled = {}])
    /\ UNCHANGED <<now, pending, nextSequence, timerVars, quit, finished, calls>>

\* Nothing to do in this pass nor, with timers, in a fresh one.
NothingToDo == /\ Looking /\ ~quit /\ NoneDue /\ pending = <<>>
               /\ Installed = {} \/ At("looked")

\* Mutant: the wait minds only the timers.
TimersOnly == {due[t] : t \in Installed} \union {NoDeadline}

\* wait_deadline is the least of these.
WaitDeadlines == {due[t] : t \in Installed} \union {Top.deadline}

\* next() finds its wait over before it has begun, and the call returns.
LookGiveUp ==
    /\ NothingToDo
    /\ \E d \in WaitDeadlines : d <= now
    /\ Pop
    /\ UNCHANGED <<now, pending, nextSequence, timerVars, quit, finished, calls>>

LookWait ==
    /\ NothingToDo
    /\ \E until \in WaitDeadlines :
        /\ until > now /\ \A d \in WaitDeadlines : until <= d
        /\ Becomes([Top EXCEPT !.phase = "waiting", !.until = until])
    /\ UNCHANGED <<now, pending, nextSequence, timerVars, quit, finished, calls>>

\* The wait ends: its time has come, or it was notified; next() looks again.
WakeUp ==
    /\ At("woken") \/ (At("waiting") /\ Top.until # NoDeadline /\ Top.until <= now)
    /\ Becomes([Top EXCEPT !.phase = "look", !.until = 0])
    /\ UNCHANGED <<now, pending, nextSequence, timerVars, quit, finished, calls>>

Spurious ==
    /\ At("waiting")
    /\ Becomes([Top EXCEPT !.phase = "woken"])
    /\ UNCHANGED <<now, pending, nextSequence, timerVars, quit, finished, calls>>

\* run_pending() fires what was due at its boundary, each timer once, then runs
\* what was queued by its limit.
PendingFire(id) ==
    /\ At("due")
    /\ id \in Claimable(due, Top.boundary, Top.handled)
    /\ Fire(id, {}, {id})

PendingFired ==
    /\ At("due") /\ NoneDue
    /\ Becomes([Top EXCEPT !.phase = "drain"])
    /\ UNCHANGED <<now, pending, nextSequence, timerVars, quit, finished, calls>>

\* Mutant: as many tasks as the queue holds, whenever they came.
AnyQueued == pending # <<>>

QueuedByLimit == pending # <<>> /\ Head(pending) < Top.limit

PendingTake ==
    /\ At("drain") /\ QueuedByLimit
    /\ pending' = Tail(pending)
    /\ Becomes([Top EXCEPT !.phase = "work", !.work = Task, !.queued = @ \ {Head(pending)}])
    /\ UNCHANGED <<now, nextSequence, timerVars, quit, finished, calls>>

PendingEnd ==
    /\ At("drain") /\ ~QueuedByLimit
    /\ Pop
    /\ UNCHANGED <<now, pending, nextSequence, timerVars, quit, finished, calls>>

OneShot(work) == work # Task /\ ~timers[work].repeats

\* Mutant: only a fire that returns is followed by mark_invalid().
WorkThrown == timers

\* A one-shot is marked invalid as its fire returns or throws.
WorkOver == IF OneShot(Top.work) THEN Invalid({Top.work}) ELSE timers

Return ==
    /\ At("work")
    /\ timers' = WorkOver
    /\ CASE Top.call = "run_one" -> Pop
         [] Top.call = "run_pending" ->
                Becomes([Top EXCEPT !.phase = IF Top.work = Task THEN "drain" ELSE "due",
                                    !.work = Task])
         [] OTHER -> Becomes([Top EXCEPT !.phase = "test", !.work = Task])
    /\ UNCHANGED <<now, pending, nextSequence, due, making, removing, dropping, quit,
                   finished, calls>>

\* An exception leaves the work and the running call, into the work around it.
Throw ==
    /\ At("work")
    /\ timers' = WorkOver
    /\ Pop
    /\ UNCHANGED <<now, pending, nextSequence, due, making, removing, dropping, quit,
                   finished, calls>>

-----------------------------------------------------------------------------
Init ==
    /\ now = 0
    /\ pending = <<>> /\ nextSequence = 0
    /\ timers = <<>> /\ due = Empty /\ making = Empty
    /\ removing = {} /\ dropping = {}
    /\ quit = FALSE /\ finished = FALSE
    /\ stack = <<>> /\ calls = 0

\* What the loop's thread does of its own accord inside a running call.
LoopNext ==
    \/ Enter \/ Test \/ LookQuit \/ LookTake \/ LookRefresh \/ LookGiveUp \/ LookWait \/ WakeUp
    \/ PendingFired \/ PendingTake \/ PendingEnd \/ Return
    \/ \E id \in Ids : LookFire(id) \/ PendingFire(id)

\* What a thread inside one of the other calls goes on to do.
CallNext(id) == InstallTimer(id) \/ RemoveTimer(id) \/ FinishMark(id)

AnyoneNext ==
    \/ Enqueue \/ Quit \/ Clear
    \/ \E repeats \in BOOLEAN, interval \in Intervals : MakeTimer(repeats, interval)
    \/ \E id \in Ids : Invalidate(id)

Next ==
    \/ Tick \/ Spurious \/ BeginCall \/ Throw \/ Finish
    \/ AnyoneNext
    \/ LoopNext
    \/ \E id \in Ids : CallNext(id)

Spec == Init /\ [][Next]_vars

\* Time passes, threads inside a call go on, and work returns. Nobody is made
\* to call anything, and a wait is owed no spurious wake.
Fairness ==
    /\ WF_vars(Tick)
    /\ WF_vars(LoopNext)
    /\ \A id \in 1..MaxTimers : WF_vars(id \in Ids /\ CallNext(id))

FairSpec == Spec /\ Fairness

-----------------------------------------------------------------------------
(* Correctness.                                                            *)

\* Every variable holds the kind of value the code's declarations give it. In
\* particular no deadline of a timer is the time point that stands for none,
\* however long its interval.
TypeOK ==
    /\ now \in Times
    /\ nextSequence \in Nat /\ pending \in Seq(0..(nextSequence - 1))
    /\ timers \in Seq(Timers)
    /\ Installed \subseteq Ids /\ due \in [Installed -> 0..Limit]
    /\ DOMAIN making \subseteq Ids /\ making \in [DOMAIN making -> 0..Limit]
    /\ removing \subseteq Ids /\ dropping \subseteq Ids
    /\ quit \in BOOLEAN /\ finished \in BOOLEAN
    /\ stack \in Seq(Frames) /\ calls \in Nat

\* The loop never sleeps on work: while it waits no task is queued, no quit is
\* requested, and it will wake by the earliest timer's deadline and its own,
\* whatever was queued, installed or removed since it began to wait.
NotAsleepOnWork ==
    At("waiting") =>
        /\ pending = <<>> /\ ~quit
        /\ Top.until <= Top.deadline /\ \A t \in Installed : Top.until <= due[t]

\* The one-shots claimed whose fire is still running.
Firing == {stack[i].work : i \in {j \in DOMAIN stack : stack[j].phase = "work"
                                                       /\ OneShot(stack[j].work)}}

\* A timer the loop can still claim is valid, or its invalidate() has yet to
\* return: no new fire is taken after it returns. And a timer is valid only
\* while it is being made, installed, firing its one shot or being dropped: a
\* throw, a race of make() with finish() or of invalidate() with a fire leaves
\* none valid that can never fire.
ValidWhileHeld ==
    /\ \A t \in Installed : timers[t].valid \/ t \in removing
    /\ \A t \in Ids : timers[t].valid =>
        t \in Installed \union DOMAIN making \union Firing \union dropping
    /\ Installed \intersect (DOMAIN making \union Firing \union dropping) = {}

\* The innermost call takes this work: a task, or the fire of a timer.
Takes(work) == /\ Locked /\ Len(stack') = Len(stack)
               /\ stack'[Len(stack)].phase = "work" /\ stack'[Len(stack)].work = work

\* "A callback that runs long, or a loop that is not run for a while, does not
\* make up the fires it missed": a repeating timer is claimed no sooner than its
\* interval after the time before, and a one-shot only once, whichever running
\* calls, however nested, claim it.
NoCatchingUp ==
    [][\A t \in Ids : Takes(t) /\ timers[t].last # NotYet =>
            timers[t].repeats /\ now >= timers[t].last + timers[t].interval * TicksPerMs]_vars

\* "This is what stops a timer that is always due from starving both the other
\* timers and the queue": a call of run(), run_one() or run_for() takes no task,
\* and fires no timer, twice while another timer waits that was already overdue
\* the first time.
NoneOvertakenTwice ==
    [][\A work \in Work, t \in Overdue :
        Looking /\ Takes(work) /\ work # t => <<work, t>> \notin Top.passed]_vars

\* "Only what was already queued or already due when the call started is run":
\* whatever its work queues, clears, installs and runs in calls of its own,
\* run_pending() takes a task only out of those the queue held as it began, each
\* once; fires each timer at most once, and none that was installed then and not
\* yet due; and fires one made since only at the very time it began, when the
\* clock has not moved between.
PendingRunsWhatItFound ==
    [][At("due") \/ At("drain") =>
        /\ Takes(Task) => Head(pending) \in Top.queued
        /\ \A t \in Ids : Takes(t) =>
            t \notin Top.barred /\ (t > Top.known => due[t] = Top.boundary)]_vars

\* A quit() asked for while a run is in progress ends it, nested calls and all.
QuitEndsRun ==
    quit /\ stack # <<>> /\ stack[1].call # "run_pending" ~> stack = <<>>

\* A task queued on a running loop is run, or cleared, unless the run ends.
QueuedTaskRuns ==
    \A s \in 0..(MaxTasks - 1) :
        stack # <<>> /\ s \in Queued ~> stack = <<>> \/ s \notin Queued

\* A one-shot whose time comes while the loop runs is fired, or invalidated,
\* unless the run ends.
DueTimerFires ==
    \A t \in 1..MaxTimers :
        stack # <<>> /\ t \in Installed /\ ~timers[t].repeats /\ due[t] <= MaxTime
            ~> stack = <<>> \/ t \notin Installed

\* Whatever other work there is, and in whichever of the nested running calls,
\* each piece of it is reached in the end.
WorkIsDone == QueuedTaskRuns /\ DueTimerFires

\* run_for() ends by its deadline and run_pending() by itself, whatever is
\* queued or due again meanwhile, unless they start another call.
BoundedCallsEnd ==
    /\ Len(stack) = 1 /\ stack[1].call = "run_for" /\ stack[1].deadline <= MaxTime
            ~> Len(stack) # 1
    /\ Len(stack) = 1 /\ stack[1].call = "run_pending" ~> Len(stack) # 1

\* "Run tasks and due timers until quit() is requested": run() returns, short
\* of a throw, only when it was; so does run_one() with nothing run.
RunUntilQuit ==
    [][Looking /\ Top.call \in {"run", "run_one"} /\ Len(stack') < Len(stack) => quit]_vars

=============================================================================
