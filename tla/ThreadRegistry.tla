--------------------------- MODULE ThreadRegistry ---------------------------
(***************************************************************************)
(* thread (src/thread/thread.cpp, native.cpp, teardown.h): the records     *)
(* of the process's threads, those dross starts, those it adopts and the   *)
(* main one, the registry behind all_threads(), and how a record is        *)
(* published, waited for and finished.                                     *)
(*                                                                         *)
(* An OS thread is born with a native id that no other thread has, runs    *)
(* the program's code, which may call anything here on any record it can   *)
(* reach, then destroys its thread-local objects one by one, the program's *)
(* own among them, and is gone: only then may its id be given again.       *)
(* A critical section of the registry or of a record is one action.        *)
(***************************************************************************)
EXTENDS Naturals, FiniteSets

CONSTANTS
    Os,             \* the OS threads the process ever has
    Main,           \* the one it started on
    NativeIds,      \* the ids the system hands out
    MainId,         \* native::main_thread_id(), the process's id
    NoId,           \* not a native id
    MaxRecords,     \* bound: records built
    MaxCalls        \* bound: calls the program makes

ASSUME ThreadsAssumption ==
    /\ Main \in Os /\ MainId \in NativeIds /\ NoId \notin NativeIds
    /\ MaxRecords \in Nat /\ MaxCalls \in Nat

Records == 1..MaxRecords
\* finished_placeholder(): the record of a thread whose bookkeeping is gone.
Placeholder == 0
NoRecord == MaxRecords + 1

VARIABLES
    life,           \* an OS thread is "unborn", "alive", "dying" or "dead"
    id,             \* native::thread_id(), while the OS thread exists
    locals,         \* an OS thread's thread-local objects
    calls,          \* calls the program made (bounds them)
    holder,         \* this_thread_holder()'s _store
    built,          \* how many records were built
    record,         \* the records
    owner,          \* the OS thread a record is of
    theMain,        \* the_main of main_thread_storage()
    registry,       \* registry()
    call,           \* the call an OS thread is in
    answer          \* history: what a call answered last

threadVars == <<life, id, locals, calls>>
recordVars == <<built, record, owner, theMain>>
vars == <<life, id, locals, calls, holder, built, record, owner, theMain, registry, call,
          answer>>

-----------------------------------------------------------------------------
(* The kinds of data.                                                      *)

\* this_thread_holder(), the loop's holder, and the program's own objects. The
\* first one gone is what torn_down() says.
Stages == {"unmade", "made", "gone"}
Locals == [thread: Stages, loop: Stages, own: Stages]

\* Mutant: torn_down is not looked at.
NeverTornDown(o) == FALSE

TornDown(o) == locals[o].thread = "gone"
Live(o) == life[o] \in {"alive", "dying"}

Blank == [nativeId |-> NoId, hasLoop |-> FALSE, quit |-> FALSE, isMain |-> FALSE,
          published |-> FALSE, finished |-> FALSE, registered |-> FALSE]
RecordStates ==
    [nativeId: NativeIds \union {NoId}, hasLoop: BOOLEAN, quit: BOOLEAN, isMain: BOOLEAN,
     published: BOOLEAN, finished: BOOLEAN, registered: BOOLEAN]

\* A record can be had from all_threads() since it was registered.
Reachable == {r \in Records : record[r].registered}

Ops == {"none", "start", "born", "current", "perform", "join", "join_for", "is_current", "end"}
Points == {"done", "begin", "wait", "look", "asleep", "queue", "finish", "notify", "torn"}

\* over is history: the record was finished when the call began.
CallStates == [op: Ops, at: Points, rec: Records \union {NoRecord}, over: BOOLEAN]
Idle == [op |-> "none", at |-> "done", rec |-> NoRecord, over |-> FALSE]
Entered(op, at, r) == [op |-> op, at |-> at, rec |-> r, over |-> record[r].finished]

Answers == [by: Os, op: Ops, rec: Records \union {Placeholder, NoRecord}, over: BOOLEAN,
            value: BOOLEAN]

\* The program's own code runs: the thread lives, or one of its own thread-local
\* objects is being destroyed.
Calls(o) ==
    /\ Live(o) /\ call[o].at = "done"
    /\ life[o] = "dying" => locals[o].own = "made"
    /\ calls < MaxCalls /\ calls' = calls + 1

Enter(o, op, at, r) == call' = [call EXCEPT ![o] = Entered(op, at, r)] /\ UNCHANGED answer
Goes(o, at) == call' = [call EXCEPT ![o].at = at] /\ UNCHANGED answer
Says(o, op, r, over, value) ==
    answer' = [by |-> o, op |-> op, rec |-> r, over |-> over, value |-> value]

\* A call that answers at once, and one that was under way.
AtOnce(o, op, r, value) ==
    Says(o, op, r, r \in Records /\ record[r].finished, value) /\ UNCHANGED call
Returns(o, value) ==
    /\ call' = [call EXCEPT ![o] = Idle]
    /\ Says(o, call[o].op, call[o].rec, call[o].over, value)

-----------------------------------------------------------------------------
(* Starting threads.                                                       *)

FreshIds == NativeIds \ {id[o] : o \in Os}

Spawn(o) ==
    /\ life[o] = "unborn"
    /\ life' = [life EXCEPT ![o] = "alive"]
    /\ \E i \in FreshIds : id' = [id EXCEPT ![o] = i]

\* A thread dross does not start.
Born(o) ==
    /\ Spawn(o)
    /\ UNCHANGED <<locals, calls, holder, recordVars, registry, call, answer>>

Build(o, state) ==
    /\ built < MaxRecords
    /\ built' = built + 1
    /\ record' = [record EXCEPT ![built + 1] = state]
    /\ owner' = [owner EXCEPT ![built + 1] = o]

\* start(): the record, the OS thread, then the wait until that has published
\* itself. Whether it is to run a loop is kept in the record from here on.
Start(c, o, runLoop) ==
    /\ Calls(c) /\ Spawn(o)
    /\ Build(o, [Blank EXCEPT !.hasLoop = runLoop])
    /\ call' = [call EXCEPT ![c] = Entered("start", "wait", built + 1),
                            ![o] = Entered("born", "begin", built + 1)]
    /\ UNCHANGED <<locals, holder, theMain, registry, answer>>

Register(r) == registry' = registry \union {r}

\* run_on_new_thread() up to register_self(): nobody else has the record till then.
Install(o) ==
    /\ call[o].op = "born" /\ call[o].at = "begin"
    /\ LET r == call[o].rec IN
         /\ holder' = [holder EXCEPT ![o] = r]
         /\ record' = [record EXCEPT ![r].nativeId = id[o], ![r].registered = TRUE]
         /\ locals' = [locals EXCEPT ![o].thread = "made",
                                     ![o].loop = IF record[r].hasLoop THEN "made" ELSE @]
         /\ Register(r)
    /\ Goes(o, "wait")
    /\ UNCHANGED <<life, id, calls, built, owner, theMain>>

\* _published, _ready_cv; the body or the loop runs from here on.
Publish(o) ==
    /\ call[o].op = "born" /\ call[o].at = "wait"
    /\ record' = [record EXCEPT ![call[o].rec].published = TRUE]
    /\ call' = [call EXCEPT ![o] = Idle]
    /\ UNCHANGED <<threadVars, holder, built, owner, theMain, registry, answer>>

Ready(r) == record[r].published

\* start() returns.
Started(c) ==
    /\ call[c].op = "start" /\ call[c].at = "wait"
    /\ Ready(call[c].rec)
    /\ Returns(c, TRUE)
    /\ UNCHANGED <<threadVars, holder, recordVars, registry>>

-----------------------------------------------------------------------------
(* The calling thread, and the main one.                                   *)

\* current_runloop() makes the loop's holder on first use.
MakeLoop(o) ==
    locals' = [locals EXCEPT ![o].loop = IF @ = "unmade" THEN "made" ELSE @]

\* main_thread_storage(), on any thread: built once, under the static's guard.
BuildMain ==
    /\ Build(Main, [Blank EXCEPT !.isMain = TRUE, !.nativeId = MainId, !.hasLoop = TRUE,
                                 !.registered = TRUE])
    /\ theMain' = built + 1
    /\ Register(built + 1)

\* main_thread() on another thread; no holder is put in place.
AskMain(o) ==
    /\ Calls(o) /\ o # Main /\ theMain = NoRecord
    /\ BuildMain
    /\ UNCHANGED <<life, id, locals, holder, call, answer>>

\* current_thread() after this thread's holder was destroyed.
CurrentTornDown(o) ==
    /\ Calls(o) /\ TornDown(o)
    /\ AtOnce(o, "current", Placeholder, TRUE)
    /\ UNCHANGED <<life, id, locals, holder, recordVars, registry>>

\* current_thread(), the holder has the record.
CurrentKnown(o) ==
    /\ Calls(o) /\ ~TornDown(o) /\ holder[o] # NoRecord
    /\ AtOnce(o, "current", holder[o], TRUE)
    /\ UNCHANGED <<life, id, locals, holder, recordVars, registry>>

\* Mutant: the record it hands out is not the one it found.
CurrentMainAnew(o) ==
    /\ Calls(o) /\ ~TornDown(o) /\ holder[o] = NoRecord /\ o = Main /\ built < MaxRecords
    /\ IF theMain # NoRecord
         THEN UNCHANGED <<locals, recordVars, registry>>
         ELSE BuildMain /\ MakeLoop(o)
    /\ Enter(o, "current", "begin", built + 1)
    /\ UNCHANGED <<life, id, holder>>

\* A record for the main thread: the main one, wherever it was built.
CurrentMain(o) ==
    /\ Calls(o) /\ ~TornDown(o) /\ holder[o] = NoRecord /\ o = Main
    /\ IF theMain # NoRecord
         THEN UNCHANGED <<locals, recordVars, registry>>
         ELSE BuildMain /\ MakeLoop(o)
    /\ Enter(o, "current", "begin", IF theMain # NoRecord THEN theMain ELSE built + 1)
    /\ UNCHANGED <<life, id, holder>>

\* make_adopted(), which also builds the thread's loop.
Adopt(o) ==
    /\ Calls(o) /\ ~TornDown(o) /\ holder[o] = NoRecord /\ o # Main
    /\ Build(o, [Blank EXCEPT !.nativeId = id[o], !.hasLoop = TRUE, !.registered = TRUE])
    /\ Register(built + 1) /\ MakeLoop(o)
    /\ Enter(o, "current", "begin", built + 1)
    /\ UNCHANGED <<life, id, holder, theMain>>

\* current_thread_storage() installs what it built in the holder.
CurrentInstalled(o) ==
    /\ call[o].op = "current" /\ call[o].at = "begin"
    /\ holder' = [holder EXCEPT ![o] = call[o].rec]
    /\ locals' = [locals EXCEPT ![o].thread = IF @ = "unmade" THEN "made" ELSE @]
    /\ Returns(o, TRUE)
    /\ UNCHANGED <<life, id, calls, recordVars, registry>>

\* current_runloop() of a thread, before or without current_thread().
CurrentLoop(o) ==
    /\ Calls(o) /\ locals[o].loop = "unmade" /\ MakeLoop(o)
    /\ UNCHANGED <<life, id, holder, recordVars, registry, call, answer>>

-----------------------------------------------------------------------------
(* What a handle does.                                                     *)

\* Mutant: it asks the loop at once.
PerformAskingLoop(o, r) ==
    /\ Calls(o)
    /\ Enter(o, "perform", "queue", r)
    /\ UNCHANGED <<life, id, locals, holder, recordVars, registry>>

\* perform() looks at _finished alone, with the record's lock.
Perform(o, r) ==
    /\ Calls(o)
    /\ IF record[r].finished
         THEN AtOnce(o, "perform", r, FALSE)
         ELSE Enter(o, "perform", "queue", r)
    /\ UNCHANGED <<life, id, locals, holder, recordVars, registry>>

\* Then it asks the loop, which refuses once its holder is gone.
PerformOnLoop(o) ==
    /\ call[o].op = "perform" /\ call[o].at = "queue"
    /\ LET r == call[o].rec IN
         Returns(o, record[r].hasLoop /\ locals[owner[r]].loop # "gone")
    /\ UNCHANGED <<threadVars, holder, recordVars, registry>>

\* quit(); cancel() only sets a flag that others read.
Quit(o, r) ==
    /\ Calls(o) /\ record[r].hasLoop /\ ~record[r].quit
    /\ record' = [record EXCEPT ![r].quit = TRUE]
    /\ UNCHANGED <<life, id, locals, holder, built, owner, theMain, registry, call, answer>>

\* is_current(), native::is_main_thread().
IsCurrent(o, r) ==
    IF record[r].isMain THEN o = Main ELSE record[r].nativeId = id[o]

\* is_current_thread() of a handle.
AskIsCurrent(o, r) ==
    /\ Calls(o)
    /\ AtOnce(o, "is_current", r, IsCurrent(o, r))
    /\ UNCHANGED <<life, id, locals, holder, recordVars, registry>>

\* join() and join_for() of the record the caller takes for its own return at once.
Wait(o, op, r) ==
    /\ Calls(o)
    /\ IF IsCurrent(o, r)
         THEN AtOnce(o, op, r, op = "join_for" /\ record[r].finished)
         ELSE Enter(o, op, "look", r)
    /\ UNCHANGED <<life, id, locals, holder, recordVars, registry>>

\* The loop of join() and join_for(), the record's lock held, to its end or to sleep.
Look(o) ==
    /\ call[o].op \in {"join", "join_for"} /\ call[o].at = "look"
    /\ IF record[call[o].rec].finished THEN Returns(o, TRUE) ELSE Goes(o, "asleep")
    /\ UNCHANGED <<threadVars, holder, recordVars, registry>>

\* join_for() past its deadline reports what it sees.
LookTooLate(o) ==
    /\ call[o].op = "join_for" /\ call[o].at = "look"
    /\ ~record[call[o].rec].finished
    /\ Returns(o, FALSE)
    /\ UNCHANGED <<threadVars, holder, recordVars, registry>>

\* Mutant: whoever wakes takes the thread for ended.
WakeReturns(o) ==
    /\ call[o].at = "asleep"
    /\ Returns(o, TRUE)
    /\ UNCHANGED <<threadVars, holder, recordVars, registry>>

\* A wait that its deadline, or nothing at all, ends.
Wake(o) ==
    /\ call[o].at = "asleep"
    /\ Goes(o, "look")
    /\ UNCHANGED <<threadVars, holder, recordVars, registry>>

-----------------------------------------------------------------------------
(* The end of a thread.                                                    *)

\* The body returned, or the loop's run() did; a thread dross did not start ends
\* when its owner likes.
Die(o) ==
    /\ life[o] = "alive" /\ call[o].at = "done"
    /\ \A r \in Records : owner[r] = o /\ record[r].published /\ record[r].hasLoop
                             => record[r].quit
    /\ life' = [life EXCEPT ![o] = "dying"]
    /\ UNCHANGED <<id, locals, calls, holder, recordVars, registry, call, answer>>

\* Mutant: seen as finished before it has left.
LeaveLast(o) ==
    /\ life[o] = "dying" /\ call[o].at = "done" /\ locals[o].thread = "made"
    /\ record' = [record EXCEPT ![holder[o]].finished = TRUE]
    /\ Enter(o, "end", "finish", holder[o])
    /\ UNCHANGED <<threadVars, holder, built, owner, theMain, registry>>

\* ~current_holder(), finish(), deregister().
Leave(o) ==
    /\ life[o] = "dying" /\ call[o].at = "done" /\ locals[o].thread = "made"
    /\ registry' = registry \ {holder[o]}
    /\ Enter(o, "end", "finish", holder[o])
    /\ UNCHANGED <<threadVars, holder, recordVars>>

Finish(o) ==
    /\ call[o].op = "end" /\ call[o].at = "finish"
    /\ record' = [record EXCEPT ![holder[o]].finished = TRUE]
    /\ Goes(o, "notify")
    /\ UNCHANGED <<threadVars, holder, built, owner, theMain, registry>>

\* Mutant: nobody is woken.
NobodyWoken(c, r) == call[c]

Woken(c, r) ==
    IF call[c].at = "asleep" /\ call[c].rec = r THEN [call[c] EXCEPT !.at = "look"] ELSE call[c]

\* _done_cv.notify_all().
NotifyDone(o) ==
    /\ call[o].op = "end" /\ call[o].at = "notify"
    /\ call' = [c \in Os |-> IF c = o THEN [call[o] EXCEPT !.at = "torn"]
                                      ELSE Woken(c, holder[o])]
    /\ UNCHANGED <<threadVars, holder, recordVars, registry, answer>>

\* torn_down, and the holder's _store is destroyed.
TearDown(o) ==
    /\ call[o].op = "end" /\ call[o].at = "torn"
    /\ locals' = [locals EXCEPT ![o].thread = "gone"]
    /\ holder' = [holder EXCEPT ![o] = NoRecord]
    /\ call' = [call EXCEPT ![o] = Idle]
    /\ UNCHANGED <<life, id, calls, recordVars, registry, answer>>

\* The destructor of the loop's holder, or of the last of the program's objects.
DestroyOther(o, object) ==
    /\ life[o] = "dying" /\ call[o].at = "done" /\ locals[o][object] = "made"
    /\ locals' = [locals EXCEPT ![o][object] = "gone"]
    /\ UNCHANGED <<life, id, calls, holder, recordVars, registry, call, answer>>

\* The OS thread is gone, and its id free; the process keeps its own.
Dead(o) ==
    /\ life[o] = "dying" /\ call[o].at = "done"
    /\ \A object \in DOMAIN locals[o] : locals[o][object] # "made"
    /\ life' = [life EXCEPT ![o] = "dead"]
    /\ id' = [id EXCEPT ![o] = IF o = Main THEN @ ELSE NoId]
    /\ UNCHANGED <<locals, calls, holder, recordVars, registry, call, answer>>

-----------------------------------------------------------------------------
(* The specification.                                                      *)

Init ==
    /\ life = [o \in Os |-> IF o = Main THEN "alive" ELSE "unborn"]
    /\ id = [o \in Os |-> IF o = Main THEN MainId ELSE NoId]
    /\ locals = [o \in Os |-> [thread |-> "unmade", loop |-> "unmade", own |-> "made"]]
    /\ calls = 0
    /\ holder = [o \in Os |-> NoRecord]
    /\ built = 0
    /\ record = [r \in Records |-> Blank]
    /\ owner = [r \in Records |-> Main]
    /\ theMain = NoRecord
    /\ registry = {}
    /\ call = [o \in Os |-> Idle]
    /\ answer = [by |-> Main, op |-> "none", rec |-> NoRecord, over |-> FALSE, value |-> FALSE]

\* What dross does in a call, or as a thread starts or ends: it does not stop there.
Library(o) ==
    \/ Install(o) \/ Publish(o) \/ Started(o) \/ CurrentInstalled(o) \/ PerformOnLoop(o)
    \/ Look(o) \/ Finish(o) \/ NotifyDone(o) \/ TearDown(o)

\* What the program does, on a thread of its own or of dross.
Current(o) ==
    \/ CurrentTornDown(o) \/ CurrentKnown(o) \/ CurrentMain(o) \/ Adopt(o)
    \/ CurrentLoop(o) \/ AskMain(o)
Handle(o, r) ==
    \/ Perform(o, r) \/ Quit(o, r) \/ AskIsCurrent(o, r)
    \/ \E op \in {"join", "join_for"} : Wait(o, op, r)
Program(o) ==
    \/ Current(o) \/ Die(o)
    \/ \E new \in Os : Born(new) \/ \E runLoop \in BOOLEAN : Start(o, new, runLoop)
    \/ \E r \in Reachable : Handle(o, r)

Timing(o) == Wake(o) \/ LookTooLate(o)

\* The system destroys what a dying thread has left.
Destroys(o) ==
    \/ Leave(o) \/ Dead(o) \/ \E object \in {"loop", "own"} : DestroyOther(o, object)

Next == \E o \in Os : Library(o) \/ Program(o) \/ Timing(o) \/ Destroys(o)

Spec == Init /\ [][Next]_vars

\* A thread that is inside dross, or is dying, is scheduled in the end; nothing
\* is assumed of when the program calls, ends a thread or a deadline passes.
FairSpec == Spec /\ \A o \in Os : WF_vars(Library(o)) /\ WF_vars(Destroys(o))

-----------------------------------------------------------------------------
(* Properties.                                                             *)

\* Threads, records and calls are of the kinds the code's declarations name, and
\* nothing names a record before it is built.
TypeOK ==
    /\ life \in [Os -> {"unborn", "alive", "dying", "dead"}]
    /\ id \in [Os -> NativeIds \union {NoId}]
    /\ locals \in [Os -> Locals]
    /\ calls \in 0..MaxCalls
    /\ holder \in [Os -> Records \union {NoRecord}]
    /\ built \in 0..MaxRecords
    /\ record \in [Records -> RecordStates]
    /\ owner \in [Records -> Os]
    /\ theMain \in Records \union {NoRecord}
    /\ registry \subseteq 1..built
    /\ call \in [Os -> CallStates]
    /\ \A o \in Os : call[o].rec \in (1..built) \union {NoRecord}
    /\ answer \in Answers

\* The thread that a record is of has a holder with it, from its installation to
\* its end: what is in the registry is of threads that are still there, one
\* record for each, and no finished one, even when a dying thread's own
\* destructors ask for their thread (thread.cpp:128, teardown.h:8). The main
\* record alone is there for as long as the main thread has not asked for it.
RegistryIsOfTheLiving ==
    \A r \in registry :
        /\ ~record[r].finished
        /\ \A s \in registry : owner[s] = owner[r] => s = r
        /\ record[r].isMain \/ Live(owner[r])

\* A wait that says the thread ended is right, the thread is out of
\* all_threads() and runs the program no longer except in its destructors; a
\* join() that gives up at once gives up on the caller's own thread or on one
\* that has ended (thread.cpp:380, the comment in finish()).
WaitsAnswerRight ==
    LET r == answer.rec IN
    answer.op \in {"join", "join_for"} =>
        /\ answer.value => r \notin registry /\ record[r].finished /\ life[owner[r]] # "alive"
        /\ answer.op = "join" => record[r].finished \/ owner[r] = answer.by

\* perform() on a thread seen to be finished refuses, whatever its loop says
\* (thread.cpp:300).
NoTaskForTheEnded == answer.op = "perform" /\ answer.over => ~answer.value

\* current_thread() is the same record at every call of one thread, no other
\* thread's, until the thread's bookkeeping is gone (thread.cpp:265).
CurrentIsOwn ==
    answer.op = "current" /\ answer.rec # Placeholder
        => /\ owner[answer.rec] = answer.by
           /\ \A r \in 1..built : owner[r] = answer.by => r = answer.rec

\* start() returns a record that its thread has published: in the registry, with
\* its native id, until the thread ends (thread.cpp:178).
StartedIsReady ==
    LET r == answer.rec IN
    answer.op = "start" => /\ record[r].registered /\ record[r].nativeId # NoId
                           /\ life[owner[r]] = "alive" => r \in registry

\* What a thread has of others by asking for them is right as well.
HandlesAnswerRight == NoTaskForTheEnded /\ CurrentIsOwn /\ StartedIsReady

\* is_current_thread() is true in no thread but the one named (thread.h:181).
IsCurrentNamesCaller ==
    answer.op = "is_current" /\ answer.value => owner[answer.rec] = answer.by

\* start() comes back, and whoever joins a thread that has ended hears of it
\* (thread.cpp:147, thread.cpp:379).
Answerable(o) ==
    \/ call[o].op = "start"
    \/ call[o].op = "join" /\ record[call[o].rec].finished
CallsReturn == \A o \in Os : Answerable(o) ~> ~Answerable(o)

\* Records appear, leave and end, and waits are answered, as promised.
Lifecycle == INSTANCE ThreadLifecycle WITH
    Callers <- Os,
    listed <- registry,
    ended <- {r \in Records : record[r].finished},
    told <- IF answer.op \in {"join", "join_for"} /\ answer.value
              THEN {<<answer.by, answer.rec>>} ELSE {}
ImplementsLifecycle == Lifecycle!Spec

=============================================================================
