# A verification development for dross

dross is a C++23 library of value types, a TOML reader and writer, platform
paths, and a threading part: threads with run loops, timers, and an operation
queue that runs tasks on worker threads. This directory holds TLA+ models of the
threading part, of numbers and timestamps, and of the TOML reader and writer; the
TLC runs that check them on small instances; and theorems about the queue, the
loop, threads, timestamps and numbers that TLAPS checks for every value of the
constants.

Paths below are relative to the repository: `src/...` is the
implementation, `include/dross/...` the public headers.

## 1. The system

| component | state it keeps | operations | modelled in |
|---|---|---|---|
| operation queue (`src/thread/operation_queue.cpp`) | `backlog`: accepted tasks by priority, tasks waiting for others with a count each, the dependents of each result, the unfinished orders, which workers have a sweep | `submit`, `enqueue`, `cancel`, `wait_for`, `shutdown`, the last handle going; the workers' `sweep`, `take`, `done`, `finish` | OperationQueue |
| operation result (`src/thread/operation.cpp`) | pending, returned or cancelled; the value | `wait`, `wait_for`, `get_as`, `cancel` | OperationQueue |
| run loop (`src/thread/runloop.cpp`) | queued tasks with sequence numbers, installed timers, a quit flag, the depth of running calls, finished | `perform`, `run`, `run_one`, `run_for`, `run_pending`, `quit`, `clear`, `finish` | RunLoop |
| timer (`src/thread/timer.cpp`, `timer_schedule.h`) | id, interval, repeating or not, valid; its next deadline | `make`, `invalidate`, claim, fire | TimerSchedule, RunLoop |
| deadline, time source (`src/thread/deadline.cpp`, `time_source.cpp`) | none; the clock | `after`, `now`, `wait`, `wait_until` | Deadline, RunLoop |
| thread (`src/thread/thread.cpp`) | a process-wide registry; per thread: published, finished, native id, loop | `start`, `spawn`, `current_thread`, `main_thread`, `all_threads`, `join`, `join_for`, `perform`, `quit` | ThreadRegistry |
| native ids, teardown (`src/thread/native.cpp`, `teardown.h`) | thread-local flags | `thread_id`, `is_main_thread`, `torn_down` | ThreadRegistry |
| number (`src/type/number.cpp`) | a canonical decimal text | parsing, `+ - * / %`, order, conversions, assignment | Decimal, Number |
| timestamp, timezone (`src/type/timestamp.cpp`, `timezone.cpp`) | date, time of day, offset | components, text, time points, durations, order | Timestamp |
| TOML (`src/format/toml.cpp`) | the tables read so far and how each was defined | `deserialize`, `serialize` | TomlDocument, TomlCharacters, TomlText |
| array, dictionary, data, value, string, boolean, error (`src/type`) | a value | sequential | no |
| platform paths (`src/platform`) | none | reads of the environment | no |

How they interact. A thread owns one run loop. Any thread posts tasks to it and
installs timers on it; only its owner runs them, in running calls that may be
nested inside tasks. The loop's mutex and condition variable are shared with its
timers. An operation queue starts a fixed number of threads, each running its
loop, and hands them work only by posting: a *sweep* that takes tasks from the
queue until there is none, and, once the queue has stopped, a *finishing item*
that does the same, then quits the loop when nothing is left on it. Everything
the queue keeps is behind one mutex (`backlog::_mutex`); a result has a lock of
its own, taken inside it, and waiters of its own. The TOML reader collects lines
into a tree of tables, and hands numbers to `number` and datetimes to `timestamp`;
the writer does the reverse.

What is hard. Workers, submitters, cancellers, waiters and stoppers meet at the
queue in any order; a task's return, the counting off of those after it, and the
end of its worker's sweep are separate steps. Users may pump, post to or quit a
worker's loop from inside a task. A run loop reads the clock several times while
deciding what to do and gives up its lock for each piece of work. Timers are
made and invalidated in two steps by any thread. Threads leave the registry, are
marked finished and drop their loop one step after another, while destructors of
the program's own still call in; native ids are given again. Numbers carry, borrow
and divide digit by digit; timestamps cross the ends of three integers of
different reach. What a TOML line may do depends on how every table on its path
came to be. `PROJECT.json` lists each of these hazards at its line, with the
properties aimed at it.

What makes each part correct:

- queue: no task is lost, run twice, run before what it follows, or run after its
  cancellation; cancelling takes everything that follows; a task starts in
  priority order; every task accepted finishes; waiting calls answer truthfully
  and in time; a stopped queue's workers run what is left and end;
- run loop and timers: no wake is missed; a quit ends what it should and only
  that; no timer or task starves another; no missed fire is made up; a timer is
  valid just as long as it can fire; bounded calls end;
- threads: a thread is in `all_threads()` exactly while it has not finished,
  `join` returns only after its end, `perform` after it fails, identity is not
  confused by reused native ids;
- numbers and timestamps: texts mean their value, equal values are equal, orders
  are those of the values, arithmetic is exact or cut off where it says, and what
  does not fit is reported or saturates on its own side;
- TOML: the documents that are accepted are the valid ones, but for those with a
  value the library has no type for, which it refuses by design (a datetime without
  an offset, inf, nan, a leap second: `include/dross/format/toml.h:96-102`); they are
  read with their meaning, and what is written reads back as what was given.

## 2. The modules

### OperationQueue

`OperationQueue.tla` is the queue with its workers. The variables from
`accepting` to `sweeping` are the members of `backlog` of the same name; a task is
named by the place of its acceptance (`ops[1]` has order 0 in the code), a result
by the place of its creation. `loop`, `quitting` and `life` are the part of each
worker's run loop and thread that the queue depends on; `stack` holds the items
running on a worker, one inside another when a task pumps its loop.

| action | code |
|---|---|
| Submit, Enqueue, EnqueueCancelled | `submit()`, `enqueue()`, with `queue()` and `make_ready()` inside |
| CancelBegin, CancelStep, CancelEnd | `cancel()`: taking the task out, each turn of its loop over those that follow, release and notify |
| Stop, ShutdownBegin, ShutdownJoined, ShutdownTimeout | `stop()`, `shutdown()` with its joins |
| WaitBegin, WaitCheck, WaitTimeout | `wait_for()` up to its first wait, after a wake, and at its deadline |
| ResultBegin, ResultCheck, ResultTimeout | the same of `operation_result::wait_for()`, on the result's own lock |
| StartItem | the worker's loop takes the next item |
| Take, TakeNone, Return, Done, CountOff, DoneEnd | `take()`, `entry::run()`, `done()` with each turn of its loop |
| Check, Leave | `finish()` looking at its loop, and quitting it |
| Pump, PostOwn, PostOther, QuitEarly, UserReturn | what tasks and other threads may do to a worker's loop |
| EndLoop, ThreadEnd | the worker's loop ends and is dropped, then the thread counts as finished |

A client is in one waiting call at a time, of the queue or of a result. What fills
a result in, or cancels it, wakes those who wait for it in the same step (Told);
between their being woken and their look, or their deadline, anything may happen.

The mutex is a variable because `cancel()` and `done()` hold it over a loop whose
single turns other threads' lock-free reads (of results) can see; every other
critical section is one action enabled while it is free.

A call that the code refuses changes no state and is a stuttering step, so it is
not written out.

### OperationLifecycle

What the header promises of one task and its result, with no worker, list or
lock: queued, running, returned or cancelled; started only after everything it
follows has returned; never cancelled once started; a cancelled task's followers
cancelled before anything else is accepted or started. OperationQueue implements
it under a refinement mapping (`ImplementsLifecycle`).

### Deadline, TimerSchedule, RunLoop

`Deadline.tla` is `deadline::after()` as an operator, with its clamp below the
clock's last value. `TimerSchedule.tla` is `timer_schedule` as operators on a
function from timer to next deadline; which of several timers with equal
deadlines goes first is left open, where the code takes the one installed first.

`RunLoop.tla` is one loop: `pending`, `nextSequence`, `due`, `quit`, `finished`
are the members of `runloop::storage`; `timers` is every timer ever made;
`making`, `removing` and `dropping` are calls of `timer::make()`, `invalidate()`
and `finish()` between their two steps; `stack` holds the running calls of the
owning thread, each with its deadline, its pass (`boundary`, `handled`) and the
place in its code (`phase`). What a call found as it began and what it has taken
since (`queued`, `barred`, `known`, `passed`) is history that no guard reads. `now` is
the clock, and `Tick` may come between any
two of the code's reads of it.

| action | code |
|---|---|
| Enqueue, Quit, Clear, Finish, FinishMark | `enqueue()`, `quit()`, `clear()`, `finish()` |
| MakeTimer, InstallTimer, Invalidate, RemoveTimer | `timer::make()`, `install_timer()`, `invalidate()`, `remove_timer()` |
| BeginCall, Enter, Test | the start of the four running calls, `run_for()` reading its deadline before it has the lock and its pass after; `run_until()`'s test of its deadline |
| LookQuit, LookFire, LookTake, LookRefresh, LookGiveUp, LookWait | the branches of one turn of `next()`'s loop, in their order |
| WakeUp, Spurious | the end of a wait |
| PendingFire, PendingFired, PendingTake, PendingEnd | the two loops of `run_pending()` |
| Return, Throw | the end of a task or callback |

Work is left open: between LookTake or LookFire and Return any action of any
thread may happen, a nested running call included.

A notify is part of the action it follows. One that the real program delivers
later finds the loop awake, where it does nothing, or waiting anew, where it is a
spurious wake, which the model allows at any time.

### ThreadLifecycle, ThreadRegistry

`ThreadRegistry.tla` is `thread.cpp` with what it asks of the system. `life`, `id`
and `locals` are the OS threads: born with a native id nobody else has, alive,
dying while their thread-local objects are destroyed one by one in any order, and
dead, when the id may be given again. `record`, `owner`, `theMain` and `registry`
are the `thread::storage` objects, and `holder` the thread-local reference to one;
`call` is the call an OS thread is inside and where, `answer` what the last call
said. There are two native ids for three threads, so that ids are reused.

| action | code |
|---|---|
| Start, Born, Install, Publish, Started | `start()` up to its wait, a foreign thread, `run_on_new_thread()` in two steps, the wait's end |
| AskMain, CurrentMain, Adopt, CurrentInstalled, CurrentKnown, CurrentTornDown, CurrentLoop | `main_thread()`, `current_thread()` and `current_runloop()` by what they find |
| Perform, PerformOnLoop, Quit, AskIsCurrent | what a handle does |
| Wait, Look, LookTooLate, Wake | `join()` and `join_for()` |
| Die, Leave, Finish, NotifyDone, TearDown, DestroyOther, Dead | the end of a thread: its holder's destructor in four steps, its loop's, the program's own |

Any thread that lives, and one whose own destructors are running, may make any
call on any record it can have from `all_threads()`.

`ThreadLifecycle.tla` is what this promises whoever looks: a record is listed once,
leaves before it is seen as ended, and only an ended one is told to have ended.
ThreadRegistry implements it (`ImplementsLifecycle`).

### Digits, Decimal, Number

`Digits.tla` is what digits say: their value and that of their places, the zeros
before and after them, and the digits of an integer; numbers and timestamps share
it. `Decimal.tla` is the text a number is kept as: which texts are numbers, the
expansion of an exponent, the canonical form in its parts and the order of such
texts. `Number.tla` is arithmetic on their digits, columns, carries and borrows as
the code has them, the conversions to `int` and `long long`, and objects that are
assigned to, computed with, copied and moved from. The long division keeps its
remainder as an integer in place of a text. The state is a text under
construction, so that every short text is read, and two objects, so that every
result is an operand again. `max_expanded_digits`, the significant digits of a
quotient and the ends of the integers are constants.

### Timestamp

`Timestamp.tla` is a date, a time of day in nanoseconds and an offset, with every
operation that makes, moves, compares or writes one, and the durations of
`std::chrono` with their integers' ends. The calendar is the real one; the other
units are constants, so that a day of a few seconds and an integer of 17 bits put
the years, the clock and the seconds in the same order of reach as the real ones:
a clock of nanoseconds holds less than the years, one of microseconds more.

### TomlDocument, TomlCharacters, TomlText

`TomlDocument.tla` is what lines define: the tree of `table_node`s, `add_pair()`,
`open_table()` and inline tables; and the lines that the serializer writes for a
dictionary. Its reference is the rule of TOML v1.0.0 stated as claims that lines
make on paths, with no tree and no flags, and what each of the paths then holds. `TomlCharacters.tla` is the classes of
bytes, UTF-8 and escapes. `TomlText.tla` is the recursive descent over characters
and the text of every value: it reads lines, which TomlDocument then interprets,
numbers, by Decimal, and datetimes, by Timestamp.

TomlDocument, TomlCharacters and TomlText are sequential: their actions only make
inputs, one line or piece at a time, and the operators are the program. They use
RECURSIVE operators and stay with TLC. Number's recursion over digits and columns is
by recursive functions, which the proofs can reach.

The `MC` modules only give constants their values.

## 3. The runs

| run | bounds | question |
|---|---|---|
| queue_tasks | 2 workers, 2 priorities, 3 tasks, 3 results, 2 named each | are tasks kept, ordered, counted and cancelled right, and is OperationLifecycle implemented? |
| queue_ending | 2 workers, 1 client, 2 tasks, 2 results, 1 post, pumping to depth 2, early quits | is a ready task always attended, does a queue that ends on its own leave nothing, and do waiting calls answer truthfully? |
| queue_progress | 2 workers, 1 client, 2 tasks, 1 result, 1 post, fair | does every task finish, every worker end, every wait get answered? |
| loop_passes | 1 call of each kind, 2 timers, 2 tasks, clock to 2, intervals past its end | missed wakes, starvation, bursts of late fires, whether `run_pending()` runs only what it found, deadlines below "none", validity of timers under every race |
| loop_progress | 2 calls to depth 2, 2 tasks, 1 timer, fair | a quit ends the run, work is reached, bounded calls end |
| loop_gives_up | 1 run, 1 timer | finding: see section 6 |
| threads | 3 OS threads, 2 native ids, 3 records, 3 calls, fair | is the registry that of the living, do waits and handles answer right and return, and is ThreadLifecycle implemented? |
| threads_current | the same, 2 calls | finding |
| numbers | texts of 5 characters out of 7; 2 objects, 2 calls, 15 values | do texts mean their value, and are order, arithmetic and quotients those of the values? |
| time | 6 dates, 2 times, 2 offsets, 11 clock points, 7 amounts, 2 clocks | are durations, differences and conversions exact, within their ends, and does text read back? |
| toml_tables | 4 lines over 2 keys, 24 statements | are exactly the valid documents accepted, with what they say at each path, and written back? |
| toml_text | texts of up to 5 pieces from 6 alphabets | do numbers, strings, bytes and lines mean what TOML says, and does writing read back? |

Why these bounds are enough to be interesting. Three tasks with two names each
give a chain, a diamond's half, a result named twice and a cancelled middle; two
workers give every race of take, done and sweep's end; two priorities are all an
order needs. A post and depth two put the finishing item inside the task it is
meant to come after. Two timers give one that
is always due and one it might starve; two tasks give a queue that stays
non-empty across a pass and a clear followed by a new task. A clock of three
readings gives a timer that becomes due inside a pass, and a fire that is late by
a whole interval. Intervals include one far past the clock's end. Nested running
calls are in loop_progress only; for validity and types of timers under them there
is the theorem. Three threads are a starter, a started one and one that is adopted
or that gets the id of another; three calls are a question asked of a thread in the
middle of its end, by a thread that then asks again. Five characters hold a sign, a
digit on each side of a point, and an exponent, or an exponent with its own sign;
two calls make every result an operand. Dates are at the ends of the years, on a
leap day and next to the ends of what the finer clock holds; amounts and points are
at the ends of their integers, and one point is of a year that wraps into the
years. Four lines of two keys are what it takes to define a table by a dotted key
under an element of an array and to touch it again from another header; five pieces
hold an escape cut short, a hexadecimal number of two digits to a chunk with a last
chunk of one, a closing delimiter of up to five
quotes, and a pair behind a pair.

Symmetry is used for workers, which the code tells apart by nothing but their place
in a list that it treats alike throughout, and for number objects; never with
liveness.
`CHECK_DEADLOCK` is off: every model stops when its bounds are used up and its
loops wait for work, as the program does.

### Fairness

Liveness is checked under weak fairness of what threads do of their own accord: a
worker's or a loop's next step, a cancel or an invalidate under way, a client
that has been woken, a call of `thread` that is under way, the destruction of a
dying thread's objects, and, for timers, the clock. It says that the system schedules
threads, that a mutex is got in the end, and that tasks and callbacks return.
Nothing makes anybody call the library, no timeout is made to pass where an
answer is expected without it, and no spurious wake is owed. Strong fairness is
not needed: critical sections are short and each lock's waiters are re-enabled
whenever it is free, and the models grant the lock to one action at a time; where
starvation at a lock would be possible, tasks are bounded.

## 4. What is proved

Every safety property that a run checks of the queue, the loop, the threads,
timestamps and numbers is proved for every value of the constants, both refinements
included. The assumptions used are the modules' named ASSUMEs on the constants; the
one further hypothesis a theorem makes is stated with it.

| module | theorems | invariant |
|---|---|---|
| OperationQueueProofs | TypeCorrect, NoTaskLostOrTwice | TypeOK, HomeInv |
| OperationQueueOrderProofs | DependenciesAreKept, TasksStartInOrder | DependenciesInv, OrderInv |
| OperationQueueAnswerProofs | WaitersAreAnsweredRight, QueueImplementsLifecycle, NoTaskIsLeftBehind | AnswersInv, EndingInv |
| RunLoopProofs | AfterBounds, LoopTypeCorrect, LoopNeverSleepsOnWork, LoopHoldsValidTimers, TimersDoNotCatchUp, PassesStarveNone, PendingRunsNoMore | TypeOK, SleepInv, HeldInv, PassInv, DrainInv |
| ThreadRegistryProofs | ThreadsTypeCorrect, OnlyTheLivingAreListed, WaitsAreAnsweredRight, HandlesAreAnsweredRight, ThreadsImplementLifecycle | PlacesInv |
| TimestampProofs | TimestampsExist, ExactDurations, ExactClock, TextIsReadBack | TimeInv |
| NumberProofs | ComparisonsAreThoseOfValues, OperationsLoseNothing, DivisionCutsOff, TextsHaveTheirValues | NumInv, ShortTexts |
| DigitsProofs | the lemmas on digits that the last two rest on | |

### The queue

For any finite non-empty set of workers, any clients, priorities, and bounds.

**NoTaskLostOrTwice** (OneHome): an accepted, unfinished task is in exactly one place
(a list of its own priority, aside, with a worker, with a cancel) and a started one
only with its worker. It is not inductive. A task in `removing` must be kept from
being taken, made ready or accepted anew, and that holds only because the canceller
has the lock; `done()` in its critical section has given its task up but still
counts others off, and counting off makes ready a task that must not be in any list
yet. The invariant is

    HomeInv == TypeOK /\ OneHome /\ RemovingLocked /\ FramesOK

where RemovingLocked says that tasks are out for removal only while `mutex` is
"cancel", and FramesOK that a frame names a task just in the phases that have one
and that one frame at most is counting, with `mutex` at "done".

**DependenciesAreKept** (DependenciesHold): a task starts only when everything it
runs after has returned, and a cancel leaves nothing behind that follows what it
cancelled. The code keeps a count of each waiting task and a list of those that
named each result, and never looks back at the tasks named, so the invariant says
what both are worth at every turn of the loops that work on them:

    DependenciesInv == HomeInv /\ DependsFit

Its parts are DependentsFit (each task is among the dependents of a result exactly
as often as it named it), WaitingFits (the count of `waiting` is the number of open
results named plus the countings off that `done()` still owes the task), ResultsFit
(a result stands where its task does, also in the frame of the worker that runs
it) and CancelsFit (whoever names a cancelled result is finished or with the
canceller, and nobody else is but the one task asked for). Naming a result twice,
or two results of one diamond, is what the cardinalities are for.

**TasksStartInOrder** (StartsInOrder) adds ListsInOrder: in one list, those given
nothing to run after are in the order of acceptance. Tasks that waited join the list
late, at the back, and do not disturb it.

**WaitersAreAnsweredRight** (AnswersHold) adds ClientsFit. It rests on what no step
takes back (Onward: tasks stay accepted, filled results filled, ended workers ended)
and on a wake being told in the step that makes it true (ClientsStand).

**QueueImplementsLifecycle**: Spec => ImplementsLifecycle, from DependenciesInv.
Cancelling and counting off take many steps of which the abstract task sees one;
the lemmas QueueAppears to ClientLives give for each action the abstract step or
the stutter it is.

**NoTaskIsLeftBehind** (NoTaskLeftBehind): while a task waits to be run, a worker is
on the way to it, and workers that end on their own leave none. The invariant is

    EndingInv == DependenciesInv /\ (\A w \in Workers : WorkerFits(w)) /\ ReadySwept /\ Attended

WorkerFits is about one worker: its one finishing item, from `stop()` to its last
look at its loop; that one which ends on its own does so after `stop()`, with
nothing of the queue's to do; and that `sweeping` is true only with a sweep on its
loop or running. ReadySwept says that the queue that accepts has told every worker
of a ready task; Attended that after `stop()`, too, each worker nobody else quit will
look again, or some worker has a task in hand. A worker that finds nothing ready
may end only because of that last disjunct: a task not ready waits for a chain of
others, the earliest of which is unfinished and waits for none (by the well-founded
order of acceptance), so it is in a worker's hands, and that worker sweeps on.

### The loop

For any clock and its ticks in a millisecond, any running calls, whole intervals and
timeouts, and any bounds, nested calls included.

**AfterBounds**: `deadline::after()` is never before its base and never reaches the
time point that stands for no deadline. **LoopTypeCorrect** follows: every deadline in
the schedule, also one being installed, is at most the limit.

**LoopNeverSleepsOnWork** (NotAsleepOnWork) speaks of the innermost running call, and a
return makes another call innermost. SleepInv adds OnlyTopLooks: every call but the
innermost is inside work, so none that is returned to is waiting. Every step either
leaves the queue, the quit and the schedule alone, or leaves the loop awake, or is
LookWait, which has just looked at all three.

**LoopHoldsValidTimers** (ValidWhileHeld) is about who holds a timer, and HeldInv says
all of it: the sets of timers installed, being made, firing their one shot and being
dropped are apart from the installed ones; one being made is valid; one being
removed is not; timers are dropped only on a finished loop, which has none installed
and no running call.

**TimersDoNotCatchUp** (NoCatchingUp) and **PassesStarveNone** (NoneOvertakenTwice) are
action properties, from

    PassInv == HeldInv /\ ClaimsFit /\ PassesFit

ClaimsFit: an installed timer that has been claimed repeats, and is due one
interval after the claim. PassesFit is about every pair of a work w that a call has
taken and a timer t that was overdue then: until t fires it is due before w's timer
is again, and either the call has already had w in this pass or t is in the pass and
not yet handled. That is what `boundary` and `handled` are for, and why a timer
put back, a nested call that fires t, or a new pass cannot bring w forward again.
TimersDoNotCatchUp assumes MaxTime < Limit: where the clock itself comes to the last
value before "no deadline", deadlines are clamped to a time that is already there,
and a timer fires again at once. A steady clock in nanoseconds needs 292 years.

**PendingRunsNoMore** (PendingRunsWhatItFound) compares what `run_pending()` takes with
what was there when it was called, however deep the calls that its work makes. The
code remembers two readings of that moment, `limit` and `boundary`, and the invariant
says why they are enough:

    DrainInv == PassInv /\ Ordered /\ FramesFit

Ordered: sequence numbers rise along the queue, also after a `clear()`, so that the
head is below the limit if anything is. FramesFit, for each running `run_pending()`:
what is still queued below its limit is among the tasks it found and has not taken;
each timer it may not fire (it has fired it, or found it not yet due) is handled, or
due after its boundary, which a nested call that claims it only moves further; and a
timer made since, installed or about to be, is due no earlier than the boundary.

### Threads

**ThreadRegistryProofs**, for any threads, native ids, and bounds. One invariant,
PlacesInv, gives four properties and the refinement. Nothing in the code holds a
thread's birth or end together, so PlacesInv says where its record is at each step
of both: RecordFits has it listed from its registration until the thread's holder
begins to go, held by the holder except while it is being installed, and finished
from the second step of that end; CallFits and ThreadFits tie each call's place to
the thread's life and locals; IdsApart says that an id is one thread's at a time,
and the main thread's its own for good; RecordsApart that a thread never has two
records, in particular not when it asks for itself after its holder is gone.
The refinement maps every step to a step of ThreadLifecycle or a stutter.

### Timestamps

**TimestampProofs**, for any lengths of the units, widths of the integers, years and
clocks; the calendar is the Gregorian one throughout. TimeInv is only that the two
timestamps are valid; the work is in the lemmas.

- YearOfDay, MonthOfDay and DateOfDay: for every day there is a year and a month that
  has it, so that the conversion to a date and back is exact (SetLocalIs).
- InSecondsIs and ClockDurationIs: the comparisons against truncated limits refuse
  exactly what does not fit in an integer, with every product and negation below the
  width; AddIs and MovedIs carry that to the operators, the most negative duration
  included.
- SameSignIs, TicksOf, FloorOfTicks and PartOfSecond: seconds and nanoseconds brought to
  one sign give the exact quotient, toward zero or downward, which DifferenceIs and
  ToTimePointIs state of differences and of time points.

- TextIsReadBack: the text is read by its fields; a fraction is written as padded
  digits without the zeros at its end, and PadRightDropped and DigitsOfIs say that
  padding it anew gives the digits of the same nanoseconds.

InputsAssumption, in Timestamp, is what the proofs take from callers: it gives the
inputs their types and says that the integer of a duration counts the seconds of
all the years, which 64 bits do. TLC evaluates it.

### Digits and numbers

**DigitsProofs** says what digits write, for any number of them. Values, powers,
carries and remainders are recursive functions, and two things must be shown of each:
that a function of that definition exists, so that its name stands for one, and what
it is at every index. The library's theorems for this take operators, which the
prover cannot instantiate; LeastNumber, from the well-founded minimum (WFMin), gives
Induction over a set of numbers and RecursionExists for a step that is itself a
function, and every definition here is brought to that form.

**NumberProofs**, for digits of any number, any limits, objects and texts. NumInv
says that every object holds NaN or a canonical number and that the last operation's
result is Exact of its operands. It is kept because each operation makes what it
makes through `canonical_text()` (CanonicalIs, PointedIs), a text that is assigned
included (TextIsProper). What is behind it:

- **ComparisonsAreThoseOfValues** (OrderIsOfValues): of canonical digits the longer
  integer, or the first difference, decides (LongerIsMore, WholeDecides, PartDecides,
  MorePlacesAreMore); OrderOfNumbers and ConversionsKeepOrder put the signs, the
  rounding and the clamping on it. The theorem's lemma (Ordered) has no bound on the
  digits; the property has one only because TLC's integers do.
- **OperationsLoseNothing** (ArithmeticIsExact): ColumnsHandOn says that columns which
  keep a last digit and hand the rest on lose nothing, for carries and borrows alike,
  and that the last borrow is 0 as the first operand is not the smaller. TableAt
  is the loop invariant of the multiplication: after t products of row r the digits
  are worth the products so far, and the one place in turn is at most 18, so that
  what it hands on is a digit again.
- **DivisionCutsOff** (QuotientIsTruncated): CountsAre is the long division's
  invariant. PlacesAreFound says that it stops: after FractionDigits places if the
  quotient terminates, as the divisor without its twos and fives divides the
  dividend (FractionDigitsAre, QuotientEnds), and otherwise within as many places
  as the divisor and the significant digits have together (QuotientIsLong). So a
  remainder is left only of a quotient with all its significant digits, and dropping
  the zeros at its end leaves it cut off at a place that is kept (QuotientTruncates).

- **TextsHaveTheirValues** (TextReadsAsItsValue): Reads states a reading by the places
  of a text's characters. Characters says that a character is of one kind only, so
  the parser's searches for the sign, the mark and the point end where a reading has
  them (MantissaRead, PointRead, ExponentRead), which makes the reading the only one
  (OneReading); and what `is_valid_number()` accepts has one (NumberReads). MovedIs
  is the point's three cases, before, within and past the digits; ExpandIs the limit
  on what is written out, and OutOfReach the exponents that are not read at all.

NumberAssumption says that the numbers a program starts with are canonical, as its
constructors make them. TextsAssumption says that a text is short against an exponent
of more digits than are read: with 9 digits and 4096 expanded, texts of up to half a
billion characters. A longer one could write out as many zeros as its exponent takes
back, and is NaN all the same (`src/type/number.cpp:258-267`).

### Model-checked only

- Liveness, of queue, loop and threads: fairness and ENABLED are beyond the prover.
- TOML: RECURSIVE operators over characters and lines, mutually recursive for values,
  which the prover does not take.

## 5. What is not modelled

- A task of an operation queue that throws: the exception leaves the worker's
  thread and ends the process.
- A queue's constructor that fails half way through starting its workers.
- A queue's task that calls `run()`, `run_one()`, `run_for()` or `clear()` on its
  worker's loop, or installs timers on it. RunLoop covers these for a loop by
  itself; in OperationQueue a loop that stops early for any reason is QuitEarly.
- Waiting calls made on one of the queue's workers: they only read and return.
- `runloop` calls made by a thread other than the loop's owner, which the header
  rules out, and running calls on a finished loop, which wait for ever.
- What a thread's loop runs, in ThreadRegistry: whether a thread has one, whether it
  was told to quit and whether its holder is gone is all that `thread` asks of it.
- The native calls behind thread ids, which differ from one platform to the next.
- The binary rounding of doubles, in conversions from and to `number`.
- `timestamp::format()` with a caller's own conversions, which it hands to the
  locale's streams.
- The line and column that a TOML error carries, and its wording.
- The containers of `src/type` (array, dictionary, data, value, string, boolean,
  error). Each owns one standard container, copies it whole and leaves an empty one
  behind when moved from; what could go wrong in them shows in a single call, which
  is a unit test's business. What the reader and the writer need of them is in
  TomlDocument.
- Platform paths, which read the environment and keep nothing.
- The values results hold, callbacks' and tasks' own data, and wording.

## 6. Findings

- **run() may return with no quit()** (`loop_gives_up`). `next()` looks for due
  timers against one reading of the clock and decides how long to wait against a
  later one; a timer that becomes due in between makes it report nothing left to
  wait for, and `run()` takes that for a quit (`src/thread/runloop.cpp:239-250`,
  `287`). A thread running its loop then ends.
- **A handle may take another thread for its own** (`threads_current`).
  `is_current_thread()` compares native ids (`src/thread/thread.cpp:357`), and the
  system may give the id of a thread that is gone to a new one. Waiting is not
  harmed: the thread whose id was given again has ended (WaitsAnswerRight).

Seen while modelling, where the code does other than a comment says and no run is
kept for it:

- The finishing item can run inside a task: a task that pumps its loop after the
  queue has stopped makes `finish()` quit the loop at once, and what the task posts
  to its own worker afterwards is dropped (`src/thread/operation_queue.cpp:316`;
  `include/dross/thread/operation_queue.h:89-92`).
- A list of ready tasks is not in order of acceptance: a task that waited for another
  is put behind tasks accepted later (`src/thread/operation_queue.cpp:285`; the
  comment at `425-426`).
- `run_pending()` may fire a timer made during the call, with no interval, when the
  clock has not moved since it began; PendingRunsWhatItFound says that this is the only
  such case (`src/thread/runloop.cpp:340`; `include/dross/thread/runloop.h:155`).
- A timer whose callback throws stays installed, says `include/dross/thread/runloop.h`;
  a one-shot is taken out when it is claimed and ends invalid (Throw), so the
  sentence is true of repeating timers only.
- A quotient that terminates within 4096 digits is said to be exact
  (`include/dross/type/number.h:383`). Its places are counted from the twos and fives
  of the unreduced divisor (`src/type/number.cpp:652-670`), so one whose divisor
  shares factors with its dividend may be counted longer than it is, taken for one
  that does not terminate, and cut off.
- The conversion of a number to `int` is said to clamp (`include/dross/type/number.h:326`);
  a value beyond the largest double converts to 0 (`src/type/number.cpp:89-93`).
- A timestamp made from a time point outside the years is the nearer end of the years
  in UTC, "so it does not order on the wrong side of another timestamp"
  (`include/dross/type/timestamp.h:281-287`). One whose offset puts its instant
  before the first year, or after the last, is still on the far side of that end
  (`src/type/timestamp.cpp:235-247`).

## 7. The plan

1. *(done)* OperationQueue with its abstract specification; its type and home
   invariants proved.
2. *(done)* Deadline, TimerSchedule, RunLoop; RunLoopProofs.
3. *(done)* ThreadRegistry with its abstract specification.
4. *(done)* A result's own waiters, in OperationQueue.
5. *(done)* TomlDocument, TomlCharacters, TomlText.
6. *(done)* Decimal, Number, Timestamp.
7. *(done)* ThreadRegistryProofs: the registry, waits, handles and the refinement.
8. *(done)* OperationQueueOrderProofs, OperationQueueAnswerProofs, and the rest of
   RunLoopProofs: every safety property of queue and loop.
9. *(done)* TimestampProofs: the years, durations and the clock.
10. *(done)* Digits, with the digits' recursion as functions; DigitsProofs,
    NumberProofs, and the text of timestamps.
11. *(done)* The reading of a number's text, proved.
12. A queue whose task stops its loop in any way at all, with the loop of RunLoop in
    place of OperationQueue's own.

## 8. Running it

    tlc -workers 2 -config queue_tasks.cfg OperationQueueMC
    tlc -workers 2 -config threads.cfg ThreadRegistryMC
    tlc -workers 2 -config toml_text.cfg TomlTextMC
    tlapm OperationQueueProofs.tla
    tlapm OperationQueueOrderProofs.tla
    tlapm OperationQueueAnswerProofs.tla
    tlapm RunLoopProofs.tla
    tlapm ThreadRegistryProofs.tla
    tlapm DigitsProofs.tla
    tlapm TimestampProofs.tla
    tlapm NumberProofs.tla

The two runs named in section 6 are expected to find their property violated.
`PROJECT.json` maps every definition to the lines it models, names for every
property a mutant of the code that breaks it, and lists the hazards.
