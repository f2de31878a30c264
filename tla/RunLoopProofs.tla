---------------------------- MODULE RunLoopProofs ----------------------------
(***************************************************************************)
(* Theorems of Deadline, TimerSchedule and RunLoop, for any clock, calls,  *)
(* intervals, timeouts and bounds, and of RunLoop about what the running   *)
(* calls take, and when: timers that do not catch up, passes in which none *)
(* is starved, and run_pending() that takes only what it found.            *)
(***************************************************************************)
EXTENDS RunLoop, SequenceTheorems, TLAPS

-----------------------------------------------------------------------------
(* Deadlines.                                                              *)

\* A whole number of milliseconds that is less than the room fits in it.
LEMMA RoomFits ==
    ASSUME NEW x \in Nat, NEW t \in Nat \ {0}, NEW d \in Nat, d < x \div t
    PROVE  d * t <= x
  <1> DEFINE q == x \div t
             r == x % t
  <1>1. q \in Int /\ r \in 0..(t - 1) /\ x = t * q + r
    OBVIOUS
  <1>2. d < q
    OBVIOUS
  <1> HIDE DEF q, r
  <1>3. PICK k \in Nat : q = d + k
    BY <1>1, <1>2
  <1>4. t * q = d * t + k * t /\ k * t \in Nat /\ d * t \in Nat
    BY <1>3
  <1> QED  BY <1>1, <1>4

\* deadline::after() is never before its base, and never reaches the value that
\* stands for no deadline: "computed ... clamped so the addition cannot overflow".
THEOREM AfterBounds ==
    ASSUME NEW base \in 0..Limit, NEW timeout \in Int
    PROVE  After(base, timeout) \in base..Limit
  <1>1. CASE timeout <= 0
    BY <1>1, ClockAssumption DEF After, Limit
  <1>2. CASE timeout > 0 /\ timeout < (Limit - base) \div TicksPerMs
    <2>1. timeout * TicksPerMs <= Limit - base
      BY <1>2, RoomFits, ClockAssumption DEF Limit
    <2>2. timeout * TicksPerMs \in Nat
      BY <1>2, ClockAssumption
    <2>3. After(base, timeout) = base + timeout * TicksPerMs
      BY <1>2 DEF After
    <2> QED  BY <2>1, <2>2, <2>3, ClockAssumption DEF Limit
  <1>3. CASE timeout > 0 /\ ~(timeout < (Limit - base) \div TicksPerMs)
    BY <1>3, ClockAssumption DEF After, Limit
  <1> QED  BY <1>1, <1>2, <1>3

-----------------------------------------------------------------------------
(* Sequences of running calls.                                             *)

\* Replacing the last element of a sequence keeps the others and its length.
LEMMA ReplaceLast ==
    ASSUME NEW S, NEW s \in Seq(S), s # <<>>, NEW e \in S
    PROVE  /\ Len(s) \in DOMAIN s /\ s[Len(s)] \in S
           /\ [s EXCEPT ![Len(s)] = e] \in Seq(S)
           /\ DOMAIN [s EXCEPT ![Len(s)] = e] = DOMAIN s
           /\ Len([s EXCEPT ![Len(s)] = e]) = Len(s)
           /\ \A i \in DOMAIN s : [s EXCEPT ![Len(s)] = e][i] = IF i = Len(s) THEN e ELSE s[i]
  OBVIOUS

\* Dropping the last element of a sequence keeps the others.
LEMMA DropLast ==
    ASSUME NEW S, NEW s \in Seq(S), s # <<>>, NEW t, t = SubSeq(s, 1, Len(s) - 1)
    PROVE  /\ t \in Seq(S) /\ Len(t) = Len(s) - 1
           /\ \A i \in DOMAIN t : i \in DOMAIN s /\ t[i] = s[i]
           /\ Len(t) \in Nat /\ DOMAIN t = 1..Len(t)
  <1>1. Len(s) \in Nat \ {0} /\ DOMAIN s = 1..Len(s)
    OBVIOUS
  <1>2. /\ DOMAIN t = 1..(Len(s) - 1)
        /\ \A i \in 1..(Len(s) - 1) : t[i] = s[i]
    BY <1>1
  <1>3. t \in Seq(S) /\ Len(t) = Len(s) - 1
    BY <1>1
  <1> QED  BY <1>1, <1>2, <1>3

\* The tail of a sequence, and its head, are of its kind.
LEMMA TailTypes ==
    ASSUME NEW S, NEW s \in Seq(S), s # <<>>
    PROVE  Tail(s) \in Seq(S) /\ Head(s) \in S
  OBVIOUS

-----------------------------------------------------------------------------
(* Type correctness.                                                       *)

\* Steps that make no timer leave the kinds of data as they are.
LEMMA KindsKept ==
    ASSUME Len(timers') = Len(timers)
    PROVE  Ids' = Ids /\ Work' = Work /\ Frames' = Frames
  <1>1. Ids' = Ids
    BY DEF Ids
  <1>2. Work' = Work
    BY <1>1 DEF Work
  <1> QED  BY <1>1, <1>2 DEF Frames

\* The innermost running call is a frame, and replacing or dropping it leaves frames.
LEMMA TopTypes ==
    ASSUME TypeOK, stack # <<>>
    PROVE  /\ Top \in Frames
           /\ \A f \in Frames : Becomes(f) => stack' \in Seq(Frames)
           /\ Pop => stack' \in Seq(Frames)
  <1>1. stack \in Seq(Frames)
    BY DEF TypeOK
  <1> QED  BY <1>1, ReplaceLast, DropLast DEF Top, Becomes, Pop

\* What a running call may change of its own frame.
LEMMA FrameTypes ==
    ASSUME NEW f \in Frames
    PROVE  /\ \A p \in Phases : [f EXCEPT !.phase = p] \in Frames
           /\ \A p \in Phases, u \in Deadlines : [f EXCEPT !.phase = p, !.until = u] \in Frames
           /\ \A p \in Phases, w \in Work : [f EXCEPT !.phase = p, !.work = w] \in Frames
           /\ \A p \in Phases, b \in Times, h \in SUBSET Ids :
                [f EXCEPT !.phase = p, !.boundary = b, !.handled = h] \in Frames
           /\ \A b \in Times, h \in SUBSET Ids :
                [f EXCEPT !.boundary = b, !.handled = h] \in Frames
           /\ \A p \in Phases, w \in Work, q \in SUBSET (Work \X Ids) :
                [f EXCEPT !.phase = p, !.work = w, !.passed = q] \in Frames
           /\ \A p \in Phases, w \in Work, h, b \in SUBSET Ids, q \in SUBSET (Work \X Ids) :
                [f EXCEPT !.phase = p, !.work = w, !.handled = h, !.passed = q, !.barred = b] \in Frames
           /\ \A p \in Phases, w \in Work, q \in SUBSET Nat :
                [f EXCEPT !.phase = p, !.work = w, !.queued = q] \in Frames
           /\ \A q \in SUBSET (Work \X Ids) : [f EXCEPT !.passed = q] \in Frames
  BY DEF Frames

\* A notify only wakes the innermost call.
LEMMA NotifyTypes == TypeOK /\ Notify => stack' \in Seq(Frames)
  <1> SUFFICES ASSUME TypeOK, Notify PROVE stack' \in Seq(Frames)
    OBVIOUS
  <1>1. CASE At("waiting")
    BY <1>1, TopTypes, FrameTypes DEF Notify, At, Phases, LockedPhases
  <1>2. CASE ~At("waiting")
    BY <1>2 DEF Notify, TypeOK
  <1> QED  BY <1>1, <1>2

\* Marking timers invalid changes nothing else of them.
LEMMA InvalidFacts ==
    ASSUME TypeOK, NEW ids
    PROVE  /\ Invalid(ids) \in Seq(Timers) /\ Len(Invalid(ids)) = Len(timers)
           /\ \A t \in Ids :
                /\ Invalid(ids)[t].valid = (timers[t].valid /\ t \notin ids)
                /\ Invalid(ids)[t].repeats = timers[t].repeats
  <1>1. timers \in Seq(Timers) /\ Ids = 1..Len(timers) /\ Len(timers) \in Nat
    BY DEF TypeOK, Ids
  <1>2. \A t \in Ids : [timers[t] EXCEPT !.valid = @ /\ t \notin ids] \in Timers
    <2> SUFFICES ASSUME NEW t \in Ids
                 PROVE  [timers[t] EXCEPT !.valid = @ /\ t \notin ids] \in Timers
      OBVIOUS
    <2>1. timers[t] \in Timers
      BY <1>1
    <2>2. \A v \in BOOLEAN : [timers[t] EXCEPT !.valid = v] \in Timers
      BY <2>1 DEF Timers
    <2>3. (timers[t].valid /\ t \notin ids) \in BOOLEAN
      OBVIOUS
    <2> QED  BY <2>2, <2>3, Zenon
  <1>3. Invalid(ids) \in [1..Len(timers) -> Timers]
    BY <1>1, <1>2 DEF Invalid
  <1>4. \A t \in Ids : Invalid(ids)[t] = [timers[t] EXCEPT !.valid = @ /\ t \notin ids]
    BY DEF Invalid
  <1>5. ASSUME NEW t \in Ids
        PROVE  /\ Invalid(ids)[t].valid = (timers[t].valid /\ t \notin ids)
               /\ Invalid(ids)[t].repeats = timers[t].repeats
    <2>1. timers[t] \in Timers
      BY <1>1
    <2>2. \A v \in BOOLEAN : /\ [timers[t] EXCEPT !.valid = v].valid = v
                            /\ [timers[t] EXCEPT !.valid = v].repeats = timers[t].repeats
      BY <2>1 DEF Timers
    <2>3. Invalid(ids)[t] = [timers[t] EXCEPT !.valid = timers[t].valid /\ t \notin ids]
      BY <1>4, Zenon
    <2>4. (timers[t].valid /\ t \notin ids) \in BOOLEAN
      OBVIOUS
    <2> QED  BY <2>2, <2>3, <2>4, Zenon
  <1>6. Invalid(ids) \in Seq(Timers) /\ Len(Invalid(ids)) = Len(timers)
    BY <1>1, <1>3
  <1> QED  BY <1>5, <1>6

\* timer_schedule keeps a deadline below the limit for each timer it has.
LEMMA InstallTypes ==
    ASSUME NEW S, NEW d, d \in [DOMAIN d -> 0..Limit], DOMAIN d \subseteq S,
           NEW id \in S, NEW t \in 0..Limit, NEW e, e = Install(d, id, t)
    PROVE  /\ DOMAIN e = DOMAIN d \union {id} /\ DOMAIN e \subseteq S
           /\ e \in [DOMAIN e -> 0..Limit]
           /\ e[id] = t /\ \A u \in DOMAIN d \ {id} : e[u] = d[u]
  BY DEF Install

\* remove() leaves the deadlines of the other timers.
LEMMA WithoutTypes ==
    ASSUME NEW S, NEW d, d \in [DOMAIN d -> 0..Limit], DOMAIN d \subseteq S,
           NEW ids, NEW e, e = Without(d, ids)
    PROVE  /\ DOMAIN e = DOMAIN d \ ids /\ DOMAIN e \subseteq S
           /\ e \in [DOMAIN e -> 0..Limit]
           /\ \A u \in DOMAIN e : e[u] = d[u]
  BY DEF Without

\* The clock is before the end that stands for no deadline.
LEMMA NowInRange == TypeOK => now \in 0..Limit
  BY ClockAssumption, LoopBoundsAssumption DEF TypeOK, Times, Limit

\* Intervals are whole numbers.
LEMMA IntervalIsInt == \A i \in Intervals : i \in Int
  BY CallsAssumption

\* What is stored of a timer.
LEMMA TimerTypes ==
    ASSUME TypeOK, NEW id \in Ids
    PROVE  /\ timers[id] \in Timers /\ timers[id].interval \in Intervals
           /\ timers[id].repeats \in BOOLEAN /\ timers[id].valid \in BOOLEAN
  <1>1. timers[id] \in Timers
    BY DEF TypeOK, Ids
  <1> QED  BY <1>1 DEF Timers

\* What take_due() leaves of the schedule.
LEMMA ClaimedFacts ==
    ASSUME TypeOK, NEW id \in Installed
    PROVE  LET left == Claimed(due, id, timers[id], now)
           IN  /\ left \in [DOMAIN left -> 0..Limit] /\ DOMAIN left \subseteq Installed
               /\ DOMAIN left = IF timers[id].repeats THEN Installed ELSE Installed \ {id}
               /\ \A t \in Installed \ {id} : left[t] = due[t]
  <1>1. id \in Ids /\ due \in [Installed -> 0..Limit]
    BY DEF TypeOK
  <1>2. After(now, timers[id].interval) \in 0..Limit
    <2>1. timers[id].interval \in Int
      BY <1>1, TimerTypes, IntervalIsInt
    <2>2. After(now, timers[id].interval) \in now..Limit
      BY <2>1, NowInRange, AfterBounds
    <2> QED  BY <2>2, NowInRange
  <1> DEFINE after == After(now, timers[id].interval)
  <1>3. after \in 0..Limit
    BY <1>2
  <1>4. Claimed(due, id, timers[id], now) =
            IF timers[id].repeats THEN [due EXCEPT ![id] = after] ELSE Without(due, {id})
    BY DEF Claimed
  <1> HIDE DEF after
  <1>5. CASE timers[id].repeats
    BY <1>1, <1>3, <1>4, <1>5 DEF Installed
  <1>6. CASE ~timers[id].repeats
    BY <1>1, <1>4, <1>6 DEF Installed, Without
  <1> QED  BY <1>5, <1>6

\* Steps of the calls any thread may make, but those that make a timer.
LEMMA AnyoneTypes ==
    ASSUME TypeOK,
           \/ Enqueue \/ Quit \/ Clear \/ Tick \/ Spurious \/ Finish
           \/ \E id \in Ids : Invalidate(id) \/ RemoveTimer(id) \/ FinishMark(id) \/ InstallTimer(id)
    PROVE  TypeOK'
  <1>1. CASE Enqueue
    <2>1. Len(timers') = Len(timers) /\ UNCHANGED <<now, timerVars, quit, finished, calls>>
      BY <1>1 DEF Enqueue, timerVars
    <2>2. Ids' = Ids /\ Frames' = Frames /\ Work' = Work
      BY <2>1, KindsKept
    <2>3. stack' \in Seq(Frames)
      BY <1>1, NotifyTypes DEF Enqueue
    <2>4. nextSequence' \in Nat /\ pending' \in Seq(0..(nextSequence' - 1))
      <3>1. pending \in Seq(0..(nextSequence - 1)) /\ nextSequence \in Nat
        BY DEF TypeOK
      <3>2. pending \in Seq(0..nextSequence)
        BY <3>1
      <3>3. nextSequence' = nextSequence + 1 /\ pending' = Append(pending, nextSequence)
        BY <1>1 DEF Enqueue
      <3>4. Append(pending, nextSequence) \in Seq(0..nextSequence)
        BY <3>1, <3>2
      <3>5. nextSequence' - 1 = nextSequence /\ nextSequence' \in Nat
        BY <3>1, <3>3
      <3> QED  BY <3>3, <3>4, <3>5
    <2> QED  BY <2>1, <2>2, <2>3, <2>4 DEF TypeOK, timerVars, Installed
  <1>2. CASE Quit \/ Clear \/ Tick \/ Spurious \/ Finish
    <2>1. Len(timers') = Len(timers) /\ UNCHANGED <<nextSequence, timers, making, removing, calls>>
      BY <1>2 DEF Quit, Clear, Tick, Spurious, Finish, timerVars
    <2>2. Ids' = Ids /\ Frames' = Frames /\ Work' = Work
      BY <2>1, KindsKept
    <2>3. stack' \in Seq(Frames)
      <3>1. CASE Quit
        BY <3>1, NotifyTypes DEF Quit
      <3>2. CASE Spurious
        BY <3>2, TopTypes, FrameTypes DEF Spurious, At, Phases
      <3>3. CASE Clear \/ Tick \/ Finish
        BY <3>3 DEF Clear, Tick, Finish, TypeOK
      <3> QED  BY <1>2, <3>1, <3>2, <3>3
    <2>4. quit' \in BOOLEAN /\ finished' \in BOOLEAN
      BY <1>2 DEF TypeOK, Quit, Clear, Tick, Spurious, Finish
    <2>5. now' \in Times
      <3>1. CASE Tick
        BY <3>1, LoopBoundsAssumption DEF TypeOK, Times, Tick
      <3>2. CASE UNCHANGED now
        BY <3>2 DEF TypeOK
      <3> QED  BY <1>2, <3>1, <3>2 DEF Quit, Clear, Spurious, Finish
    <2>7. pending' \in Seq(0..(nextSequence' - 1))
      <3>1. CASE UNCHANGED <<pending, nextSequence>>
        BY <3>1 DEF TypeOK
      <3>2. CASE pending' = <<>>
        BY <3>2
      <3> QED  BY <1>2, <3>1, <3>2 DEF Quit, Clear, Tick, Spurious, Finish
    <2>6. /\ DOMAIN due' \subseteq Ids /\ due' \in [DOMAIN due' -> 0..Limit] /\ dropping' \subseteq Ids
      BY <1>2 DEF TypeOK, Quit, Clear, Tick, Spurious, Finish, timerVars, Empty, Installed
    <2> QED  BY <2>1, <2>2, <2>3, <2>4, <2>5, <2>6, <2>7 DEF TypeOK, Installed
  <1>3. ASSUME NEW id \in Ids, Invalidate(id) \/ RemoveTimer(id) \/ FinishMark(id) \/ InstallTimer(id)
        PROVE  TypeOK'
    <2>1. UNCHANGED <<now, pending, nextSequence, quit, finished, calls>>
      BY <1>3 DEF Invalidate, RemoveTimer, FinishMark, InstallTimer
    <2>2. timers' \in Seq(Timers) /\ Len(timers') = Len(timers)
      BY <1>3, InvalidFacts DEF TypeOK, Invalidate, RemoveTimer, FinishMark, InstallTimer
    <2>3. Ids' = Ids /\ Frames' = Frames /\ Work' = Work
      BY <2>2, KindsKept
    <2>4. stack' \in Seq(Frames)
      <3>1. CASE UNCHANGED stack
        BY <3>1 DEF TypeOK
      <3>2. CASE Notify
        BY <3>2, NotifyTypes
      <3> QED  BY <1>3, <3>1, <3>2 DEF Invalidate, RemoveTimer, FinishMark, InstallTimer
    <2>5. DOMAIN due' \subseteq Ids /\ due' \in [DOMAIN due' -> 0..Limit]
      <3>1. due \in [DOMAIN due -> 0..Limit] /\ DOMAIN due \subseteq Ids
        BY DEF TypeOK, Installed
      <3>2. CASE RemoveTimer(id)
        BY <3>1, <3>2, WithoutTypes DEF RemoveTimer
      <3>3. CASE InstallTimer(id) /\ ~finished
        <4>1. id \in DOMAIN making /\ making[id] \in 0..Limit
          BY <3>3 DEF InstallTimer, TypeOK
        <4> DEFINE first == making[id]
        <4>2. due' = Install(due, id, first) /\ first \in 0..Limit
          BY <3>3, <4>1 DEF InstallTimer
        <4> HIDE DEF first
        <4> QED  BY <3>1, <4>2, InstallTypes
      <3>4. CASE UNCHANGED due
        BY <3>1, <3>4
      <3>5. CASE InstallTimer(id) /\ finished
        BY <3>4, <3>5 DEF InstallTimer
      <3>6. CASE Invalidate(id) \/ FinishMark(id)
        BY <3>4, <3>6 DEF Invalidate, FinishMark
      <3> QED  BY <1>3, <3>2, <3>3, <3>5, <3>6, Zenon
    <2>6. DOMAIN making' \subseteq Ids /\ making' \in [DOMAIN making' -> 0..Limit]
      <3>1. making \in [DOMAIN making -> 0..Limit] /\ DOMAIN making \subseteq Ids
        BY DEF TypeOK
      <3>2. CASE InstallTimer(id)
        BY <3>1, <3>2, WithoutTypes DEF InstallTimer
      <3>3. CASE UNCHANGED making
        BY <3>1, <3>3
      <3> QED  BY <1>3, <3>2, <3>3 DEF Invalidate, RemoveTimer, FinishMark
    <2>7. removing' \subseteq Ids /\ dropping' \subseteq Ids
      BY <1>3 DEF TypeOK, Invalidate, RemoveTimer, FinishMark, InstallTimer
    <2> QED  BY <2>1, <2>2, <2>3, <2>4, <2>5, <2>6, <2>7 DEF TypeOK, Installed
  <1> QED  BY <1>1, <1>2, <1>3

\* make() of a timer, with the first deadline it reads.
LEMMA MakeTypes ==
    ASSUME TypeOK, NEW repeats \in BOOLEAN, NEW interval \in Intervals,
           MakeTimer(repeats, interval)
    PROVE  TypeOK'
  <1> DEFINE new == [repeats |-> repeats, interval |-> interval, valid |-> TRUE, last |-> NotYet]
  <1>1. new \in Timers
    BY DEF Timers
  <1> HIDE DEF new
  <1>2. timers \in Seq(Timers) /\ timers' = Append(timers, new)
    BY DEF MakeTimer, TypeOK, new
  <1>3. timers' \in Seq(Timers) /\ Len(timers') = Len(timers) + 1 /\ Len(timers) \in Nat
    BY <1>1, <1>2
  <1>4. Ids \subseteq Ids' /\ Len(timers) + 1 \in Ids'
    BY <1>3 DEF Ids
  <1>5. Work \subseteq Work'
    BY <1>4 DEF Work
  <1>6. Frames \subseteq Frames'
    <2>1. SUBSET (Work \X Ids) \subseteq SUBSET (Work' \X Ids')
      BY <1>4, <1>5
    <2>2. SUBSET Ids \subseteq SUBSET Ids'
      BY <1>4
    <2> QED  BY <1>5, <2>1, <2>2 DEF Frames
  <1>7. UNCHANGED <<now, pending, nextSequence, due, removing, dropping, quit, finished, stack, calls>>
    BY DEF MakeTimer
  <1>8. stack' \in Seq(Frames')
    <2>1. stack \in Seq(Frames)
      BY DEF TypeOK
    <2> QED  BY <1>6, <1>7, <2>1
  <1>9. DOMAIN making' \subseteq Ids' /\ making' \in [DOMAIN making' -> 0..Limit]
    <2>1. making \in [DOMAIN making -> 0..Limit] /\ DOMAIN making \subseteq Ids'
      BY <1>4 DEF TypeOK
    <2>2. After(now, interval) \in now..Limit
      BY NowInRange, AfterBounds, IntervalIsInt
    <2>3. After(now, interval) \in 0..Limit
      BY <2>2, NowInRange
    <2>4. making' = Install(making, Len(timers) + 1, After(now, interval))
      BY DEF MakeTimer
    <2> DEFINE id == Len(timers) + 1
               after == After(now, interval)
    <2>5. id \in Ids' /\ after \in 0..Limit /\ making' = Install(making, id, after)
      BY <1>4, <2>3, <2>4
    <2> HIDE DEF id, after
    <2> QED  BY <2>1, <2>5, InstallTypes
  <1> QED  BY <1>3, <1>4, <1>7, <1>8, <1>9 DEF TypeOK, Installed

\* The frame a running call starts with.
Begun(f, call) ==
    /\ stack' = Append(stack, f)
    /\ f.call = call /\ f.phase = FirstPhase(call) /\ f.work = Task
    /\ f.boundary = now /\ f.handled = {} /\ f.passed = {}
    /\ f.limit = Finds(call, nextSequence, 0)
    /\ f.queued = Finds(call, Queued, {})
    /\ f.barred = Finds(call, {t \in Installed : due[t] > now}, {})
    /\ f.known = Finds(call, Len(timers), 0)

LEMMA BeginFrame ==
    ASSUME NEW call, NEW deadline, Begin(call, deadline)
    PROVE  \E f : Begun(f, call)
  <1> DEFINE limit == Finds(call, nextSequence, 0)
             queued == Finds(call, Queued, {})
             barred == Finds(call, {t \in Installed : due[t] > now}, {})
             known == Finds(call, Len(timers), 0)
             new == [call |-> call, phase |-> FirstPhase(call), deadline |-> deadline,
                     boundary |-> now, handled |-> {}, until |-> 0, work |-> Task,
                     passed |-> {}, limit |-> limit, queued |-> queued,
                     barred |-> barred, known |-> known]
  <1>1. stack' = Append(stack, new)
    BY DEF Begin
  <1> HIDE DEF limit, queued, barred, known
  <1>2. /\ new.call = call /\ new.phase = FirstPhase(call) /\ new.work = Task
        /\ new.boundary = now /\ new.handled = {} /\ new.passed = {}
        /\ new.limit = limit /\ new.queued = queued /\ new.barred = barred /\ new.known = known
    OBVIOUS
  <1> HIDE DEF new
  <1> QED  BY <1>1, <1>2 DEF Begun, limit, queued, barred, known

\* The start of a running call.
LEMMA BeginTypes ==
    ASSUME TypeOK, BeginCall
    PROVE  TypeOK'
  <1>1. PICK call \in RunningCalls, deadline \in Deadlines : Begin(call, deadline)
    <2>1. CASE \E call \in Calls \ {"run_for"} : Begin(call, NoDeadline)
      BY <2>1, CallsAssumption, ClockAssumption DEF Deadlines, NoDeadline
    <2>2. CASE "run_for" \in Calls /\ \E timeout \in Timeouts : Begin("run_for", After(now, timeout))
      <3>1. PICK timeout \in Timeouts : Begin("run_for", After(now, timeout))
        BY <2>2
      <3>2. After(now, timeout) \in now..Limit
        BY NowInRange, AfterBounds, CallsAssumption
      <3>3. After(now, timeout) \in Deadlines
        BY <3>2, NowInRange, ClockAssumption DEF Deadlines, Limit
      <3> QED  BY <3>1, <3>3 DEF RunningCalls
    <2> QED  BY <2>1, <2>2 DEF BeginCall
  <1>2. stack' \in Seq(Frames)
    <2>1. stack \in Seq(Frames) /\ nextSequence \in Nat /\ now \in Times
      BY DEF TypeOK
    <2>2. FirstPhase(call) \in Phases
      BY DEF FirstPhase, Phases, LockedPhases
    <2>3. 0 \in Deadlines /\ Task \in Work
      BY ClockAssumption DEF Deadlines, Work
    <2> DEFINE limit == Finds(call, nextSequence, 0)
               queued == Finds(call, Queued, {})
               barred == Finds(call, {t \in Installed : due[t] > now}, {})
               known == Finds(call, Len(timers), 0)
               new == [call |-> call, phase |-> FirstPhase(call), deadline |-> deadline,
                       boundary |-> now, handled |-> {}, until |-> 0, work |-> Task,
                       passed |-> {}, limit |-> limit, queued |-> queued,
                       barred |-> barred, known |-> known]
    <2>4. limit \in Nat /\ queued \in SUBSET Nat /\ barred \in SUBSET Ids /\ known \in Nat
      <3>1. Queued \in SUBSET Nat /\ Installed \subseteq Ids /\ Len(timers) \in Nat
        BY <2>1 DEF Queued, TypeOK
      <3> QED  BY <2>1, <3>1 DEF Finds
    <2>5. stack' = Append(stack, new)
      BY <1>1 DEF Begin
    <2> HIDE DEF limit, queued, barred, known
    <2>6. new \in Frames
      BY <2>1, <2>2, <2>3, <2>4 DEF Frames
    <2> HIDE DEF new
    <2> QED  BY <2>1, <2>5, <2>6
  <1>3. UNCHANGED <<now, pending, nextSequence, timerVars, quit, finished>> /\ calls' = calls + 1
    BY <1>1 DEF Begin
  <1>4. Ids' = Ids /\ Frames' = Frames
    BY <1>3, KindsKept DEF timerVars
  <1> QED  BY <1>2, <1>3, <1>4 DEF TypeOK, timerVars, Installed

\* What a step changes of the stack alone, or of the queue and the stack.
LEMMA StackTypes ==
    ASSUME TypeOK, Len(timers') = Len(timers),
           UNCHANGED <<now, nextSequence, due, making, removing, dropping, finished, calls>>,
           timers' \in Seq(Timers), quit' \in BOOLEAN,
           pending' \in {pending, Tail(pending)}, pending' # pending => pending # <<>>,
           stack' \in Seq(Frames)
    PROVE  TypeOK'
  <1>1. Ids' = Ids /\ Frames' = Frames
    BY KindsKept
  <1>2. pending' \in Seq(0..(nextSequence' - 1))
    BY TailTypes DEF TypeOK
  <1> QED  BY <1>1, <1>2 DEF TypeOK, Installed

\* An installed timer's deadline is one a wait can have.
LEMMA DueTypes == TypeOK => \A t \in Installed : t \in Ids /\ due[t] \in Deadlines /\ due[t] <= TimeMax
  BY ClockAssumption DEF TypeOK, Deadlines, Limit

\* The work a frame is given, and what it was taken past.
LEMMA PassedTypes ==
    ASSUME TypeOK, NEW f \in Frames, NEW w \in Work, NEW q, q \subseteq f.passed,
           NEW over, over \subseteq Ids
    PROVE  q \union ({w} \X over) \in SUBSET (Work \X Ids)
  BY DEF Frames

\* The steps of a running call that take no work.
LEMMA LookTypes ==
    ASSUME TypeOK,
           \/ Enter \/ Test \/ LookQuit \/ LookRefresh \/ LookGiveUp \/ LookWait \/ WakeUp
           \/ PendingFired \/ PendingEnd
    PROVE  TypeOK'
  <1>1. stack # <<>>
    BY DEF Enter, Test, LookQuit, LookRefresh, LookGiveUp, LookWait, WakeUp, PendingFired, PendingEnd,
           NothingToDo, Looking, At
  <1>2. Top \in Frames /\ now \in Times /\ 0 \in Deadlines
    BY <1>1, TopTypes, ClockAssumption DEF TypeOK, Deadlines
  <1>3. Pop => stack' \in Seq(Frames)
    BY <1>1, TopTypes
  <1>4. CASE Enter \/ Test \/ WakeUp \/ PendingFired \/ LookRefresh
    <2>1. stack' \in Seq(Frames)
      BY <1>1, <1>2, <1>3, <1>4, TopTypes, FrameTypes
         DEF Enter, Test, WakeUp, PendingFired, LookRefresh, Phases, LockedPhases
    <2> QED  BY <1>4, <2>1, StackTypes
             DEF Enter, Test, WakeUp, PendingFired, LookRefresh, timerVars, TypeOK
  <1>5. CASE LookWait
    <2>1. PICK until \in WaitDeadlines : Becomes([Top EXCEPT !.phase = "waiting", !.until = until])
      BY <1>5 DEF LookWait
    <2>2. until \in Deadlines
      BY <1>2, <2>1, DueTypes DEF WaitDeadlines, Frames
    <2>3. stack' \in Seq(Frames)
      BY <1>1, <1>2, <2>1, <2>2, TopTypes, FrameTypes DEF Phases
    <2> QED  BY <1>5, <2>3, StackTypes DEF LookWait, timerVars, TypeOK
  <1>6. CASE LookQuit \/ LookGiveUp \/ PendingEnd
    <2>1. stack' \in Seq(Frames)
      BY <1>3, <1>6 DEF LookQuit, LookGiveUp, PendingEnd
    <2>2. quit' \in BOOLEAN
      BY <1>6 DEF LookQuit, LookGiveUp, PendingEnd, Consumed, TypeOK
    <2> QED  BY <1>6, <2>1, <2>2, StackTypes DEF LookQuit, LookGiveUp, PendingEnd, timerVars, TypeOK
  <1> QED  BY <1>4, <1>5, <1>6

\* The steps that take a task from the queue.
LEMMA TakeTypes ==
    ASSUME TypeOK, LookTake \/ PendingTake
    PROVE  TypeOK'
  <1>1. stack # <<>> /\ pending # <<>>
    BY DEF LookTake, PendingTake, Looking, At, QueuedByLimit
  <1>2. Top \in Frames /\ now \in Times /\ Task \in Work /\ "work" \in Phases
    BY <1>1, TopTypes DEF TypeOK, Work, Phases
  <1>3. stack' \in Seq(Frames)
    <2>1. CASE PendingTake
      <3> DEFINE left == Top.queued \ {Head(pending)}
      <3>1. left \in SUBSET Nat
        BY <1>2 DEF Frames
      <3>2. Becomes([Top EXCEPT !.phase = "work", !.work = Task, !.queued = left])
        BY <2>1 DEF PendingTake
      <3> HIDE DEF left
      <3>3. [Top EXCEPT !.phase = "work", !.work = Task, !.queued = left] \in Frames
        BY <1>2, <3>1, FrameTypes
      <3> QED  BY <1>1, <3>2, <3>3, TopTypes
    <2>2. CASE LookTake
      <3> DEFINE f == FreshPass(Top)
      <3>1. f \in Frames
        BY <1>2, FrameTypes DEF FreshPass
      <3> DEFINE over == Overdue
      <3>2. over \subseteq Ids
        BY DueTypes DEF Overdue
      <3>3. Becomes([f EXCEPT !.phase = "work", !.work = Task,
                              !.passed = @ \union ({Task} \X over)])
        BY <2>2 DEF LookTake
      <3> HIDE DEF f, over
      <3>4. f.passed \union ({Task} \X over) \in SUBSET (Work \X Ids)
        BY <1>2, <3>1, <3>2, PassedTypes
      <3>5. [f EXCEPT !.phase = "work", !.work = Task,
                      !.passed = @ \union ({Task} \X over)] \in Frames
        BY <1>2, <3>1, <3>4, FrameTypes
      <3> QED  BY <1>1, <3>3, <3>5, TopTypes
    <2> QED  BY <2>1, <2>2
  <1> QED  BY <1>1, <1>3, StackTypes DEF LookTake, PendingTake, timerVars, TypeOK

\* The end of a task or a callback.
LEMMA OverTypes ==
    ASSUME TypeOK, Return \/ Throw
    PROVE  TypeOK'
  <1>1. stack # <<>> /\ Top \in Frames /\ Task \in Work
    BY TopTypes DEF Return, Throw, At, Work
  <1>2. timers' \in Seq(Timers) /\ Len(timers') = Len(timers)
    BY InvalidFacts DEF Return, Throw, WorkOver, TypeOK
  <1>3. stack' \in Seq(Frames)
    <2>1. CASE Pop
      BY <1>1, <2>1, TopTypes
    <2>2. CASE \E p \in Phases : Becomes([Top EXCEPT !.phase = p, !.work = Task])
      BY <1>1, <2>2, TopTypes, FrameTypes
    <2>3. Pop \/ \E p \in {"drain", "due", "test"} : Becomes([Top EXCEPT !.phase = p, !.work = Task])
      BY DEF Return, Throw
    <2> QED  BY <2>1, <2>2, <2>3 DEF Phases, LockedPhases
  <1> QED  BY <1>2, <1>3, StackTypes DEF Return, Throw, TypeOK

\* A claim and a fire, of a timer that is installed.
LEMMA FireTypes ==
    ASSUME TypeOK, stack # <<>>, NEW id \in Installed, NEW over, over \subseteq Ids,
           NEW out, out \subseteq Ids, Fire(id, over, out)
    PROVE  TypeOK'
  <1>1. id \in Ids /\ now \in Times /\ stack \in Seq(Frames) /\ timers \in Seq(Timers)
    BY DEF TypeOK
  <1>2. timers' \in Seq(Timers) /\ Len(timers') = Len(timers)
    <2>1. [timers[id] EXCEPT !.last = now] \in Timers
      BY <1>1, TimerTypes DEF Timers
    <2>2. timers' = [timers EXCEPT ![id] = [timers[id] EXCEPT !.last = now]]
      BY DEF Fire
    <2> QED  BY <1>1, <2>1, <2>2 DEF Ids
  <1>3. Ids' = Ids /\ Frames' = Frames
    BY <1>2, KindsKept
  <1>4. /\ DOMAIN due' \subseteq Ids /\ due' \in [DOMAIN due' -> 0..Limit]
    BY ClaimedFacts DEF Fire, TypeOK
  <1>5. stack' \in Seq(Frames)
    <2>1. ASSUME NEW i \in DOMAIN stack
          PROVE  stack'[i] \in Frames
      <3> DEFINE f == stack[i]
                 fired == {p \in f.passed : p[2] = id}
                 q == (f.passed \ fired) \union ({id} \X over)
                 h == Handled(f, id)
                 b == f.barred \union out
      <3>1. f \in Frames
        BY <1>1
      <3>2. stack'[i] = IF i < Len(stack) THEN [f EXCEPT !.passed = f.passed \ fired]
                        ELSE [f EXCEPT !.phase = "work", !.work = id, !.handled = h, !.passed = q, !.barred = b]
        BY DEF Fire
      <3>3. f.passed \ fired \in SUBSET (Work \X Ids)
        BY <3>1 DEF Frames
      <3>4. q \in SUBSET (Work \X Ids) /\ id \in Work
        BY <1>1, <3>3 DEF Work
      <3>5. h \in SUBSET Ids /\ b \in SUBSET Ids
        BY <1>1, <3>1 DEF Handled, Frames
      <3>6. "work" \in Phases
        BY DEF Phases
      <3>7. [f EXCEPT !.passed = f.passed \ fired] \in Frames
        BY <3>1, <3>3, FrameTypes
      <3> HIDE DEF f, fired, q, h, b
      <3>8. [f EXCEPT !.phase = "work", !.work = id, !.handled = h, !.passed = q, !.barred = b] \in Frames
        BY <3>1, <3>4, <3>5, <3>6, FrameTypes
      <3> QED  BY <3>2, <3>7, <3>8
    <2>2. stack' = [i \in DOMAIN stack |-> stack'[i]]
      BY DEF Fire
    <2>3. stack' \in [1..Len(stack) -> Frames] /\ Len(stack) \in Nat
      BY <1>1, <2>1, <2>2
    <2> QED  BY <2>3
  <1> QED  BY <1>1, <1>2, <1>3, <1>4, <1>5 DEF TypeOK, Fire, Installed

\* Only an installed timer is fired.
LEMMA FiresAnInstalled ==
    ASSUME TypeOK, NEW id \in Ids, LookFire(id) \/ PendingFire(id)
    PROVE  /\ stack # <<>> /\ id \in Installed
           /\ \E over, out \in SUBSET Ids : Fire(id, over, out)
  <1>1. stack # <<>> /\ id \in Installed
    BY DEF LookFire, PendingFire, Looking, At, Claimable, Candidates, Installed
  <1>2. Overdue \ {id} \subseteq Ids
    BY DueTypes DEF Overdue
  <1> QED  BY <1>1, <1>2 DEF LookFire, PendingFire

\* The new loop has the kinds of data TypeOK states.
LEMMA TypeInit == Init => TypeOK
  <1> SUFFICES ASSUME Init PROVE TypeOK
    OBVIOUS
  <1>1. DOMAIN Empty = {} /\ Empty \in [DOMAIN Empty -> 0..Limit]
    BY DEF Empty
  <1>2. now \in Times
    BY LoopBoundsAssumption DEF Init, Times
  <1>3. \A S : <<>> \in Seq(S)
    OBVIOUS
  <1> QED  BY <1>1, <1>2, <1>3 DEF Init, TypeOK, Installed, Ids

\* Every step keeps them.
LEMMA TypeStep == TypeOK /\ [Next]_vars => TypeOK'
  <1> SUFFICES ASSUME TypeOK, [Next]_vars PROVE TypeOK'
    OBVIOUS
  <1>1. CASE UNCHANGED vars
    <2>1. Ids' = Ids /\ Frames' = Frames
      BY <1>1, KindsKept DEF vars
    <2> QED  BY <1>1, <2>1 DEF vars, TypeOK, Installed
  <1>2. CASE Tick \/ Spurious \/ Finish \/ Enqueue \/ Quit \/ Clear
    BY <1>2, AnyoneTypes
  <1>3. CASE \E id \in Ids : Invalidate(id) \/ CallNext(id)
    BY <1>3, AnyoneTypes DEF CallNext
  <1>4. CASE \E repeats \in BOOLEAN, interval \in Intervals : MakeTimer(repeats, interval)
    BY <1>4, MakeTypes
  <1>5. CASE BeginCall
    BY <1>5, BeginTypes
  <1>6. CASE Throw \/ LoopNext
    BY <1>6, LookTypes, TakeTypes, OverTypes, FireTypes, FiresAnInstalled DEF LoopNext
  <1> QED  BY <1>1, <1>2, <1>3, <1>4, <1>5, <1>6 DEF Next, AnyoneNext

\* Whatever the intervals and timeouts, every deadline of a timer that is or
\* will be installed is one the loop waits for, and none is "no deadline".
THEOREM LoopTypeCorrect == Spec => []TypeOK
  BY TypeInit, TypeStep, PTL DEF Spec

-----------------------------------------------------------------------------
(* Sleeping.                                                               *)

\* Every running call but the innermost is inside work, so the call that another
\* returns to is never one that waits.
OnlyTopLooks == \A i \in 1..(Len(stack) - 1) : stack[i].phase = "work"

SleepInv == TypeOK /\ OnlyTopLooks /\ NotAsleepOnWork

Awake == OnlyTopLooks' /\ ~At("waiting")'

\* A step that changes the innermost call only.
LEMMA BecomesFacts ==
    ASSUME TypeOK, OnlyTopLooks, stack # <<>>, NEW f, Becomes(f)
    PROVE  /\ OnlyTopLooks' /\ stack' # <<>> /\ Len(stack') = Len(stack) /\ Top' = f
           /\ f.phase # "waiting" => Awake
  <1>1. stack \in Seq(Frames \union {f}) /\ f \in Frames \union {f}
    BY DEF TypeOK
  <1>2. /\ Len(stack) \in DOMAIN stack /\ DOMAIN stack = 1..Len(stack) /\ Len(stack) \in Nat
        /\ stack' \in Seq(Frames \union {f}) /\ Len(stack') = Len(stack)
        /\ \A i \in DOMAIN stack : stack'[i] = IF i = Len(stack) THEN f ELSE stack[i]
    BY <1>1, ReplaceLast DEF Becomes
  <1>3. stack' # <<>> /\ Top' = f
    BY <1>2 DEF Top
  <1>4. OnlyTopLooks'
    BY <1>2 DEF OnlyTopLooks
  <1> QED  BY <1>2, <1>3, <1>4 DEF Awake, At

\* A running call that ends gives way to work, never to a wait.
LEMMA PopFacts ==
    ASSUME TypeOK, OnlyTopLooks, stack # <<>>, Pop
    PROVE  Awake
  <1>1. stack \in Seq(Frames) /\ Len(stack) \in Nat
    BY DEF TypeOK
  <1>2. /\ stack' \in Seq(Frames) /\ Len(stack') = Len(stack) - 1 /\ Len(stack') \in Nat
        /\ DOMAIN stack' = 1..Len(stack')
        /\ \A i \in DOMAIN stack' : i \in DOMAIN stack /\ stack'[i] = stack[i]
    <2> DEFINE rest == stack'
    <2>1. rest = SubSeq(stack, 1, Len(stack) - 1)
      BY DEF Pop
    <2> HIDE DEF rest
    <2>2. rest \in Seq(Frames) /\ Len(rest) = Len(stack) - 1
      BY <1>1, <2>1, DropLast
    <2>3. \A i \in DOMAIN rest : i \in DOMAIN stack /\ rest[i] = stack[i]
      BY <1>1, <2>1, DropLast
    <2>4. Len(rest) \in Nat /\ DOMAIN rest = 1..Len(rest)
      BY <2>2
    <2> QED  BY <2>2, <2>3, <2>4 DEF rest
  <1>3. \A i \in DOMAIN stack' : stack'[i].phase = "work"
    BY <1>2 DEF OnlyTopLooks
  <1>4. OnlyTopLooks'
    BY <1>1, <1>2, <1>3 DEF OnlyTopLooks
  <1>5. ASSUME At("waiting")' PROVE FALSE
    <2>1. stack' # <<>> /\ Top'.phase = "waiting"
      BY <1>5 DEF At
    <2>2. Len(stack') \in DOMAIN stack'
      BY <1>2, <2>1
    <2> QED  BY <1>3, <2>1, <2>2 DEF Top
  <1> QED  BY <1>4, <1>5 DEF Awake

\* A notified loop does not wait.
LEMMA NotifyFacts ==
    ASSUME TypeOK, OnlyTopLooks, Notify
    PROVE  Awake
  <1>1. CASE At("waiting")
    <2>1. stack # <<>> /\ Becomes([Top EXCEPT !.phase = "woken"])
      BY <1>1 DEF Notify, At
    <2>2. [Top EXCEPT !.phase = "woken"].phase = "woken"
      BY <2>1, TopTypes DEF Frames
    <2> QED  BY <2>1, <2>2, BecomesFacts
  <1>2. CASE ~At("waiting")
    BY <1>2 DEF Notify, Awake, OnlyTopLooks, At, Top
  <1> QED  BY <1>1, <1>2

\* A running call does not begin with a wait.
LEMMA BeginFacts ==
    ASSUME TypeOK, OnlyTopLooks, BeginCall
    PROVE  Awake
  <1>1. PICK call, deadline : Begin(call, deadline)
    BY DEF BeginCall
  <1>2. stack \in Seq(Frames) /\ Len(stack) \in Nat /\ DOMAIN stack = 1..Len(stack)
    BY DEF TypeOK
  <1>3. PICK f : stack' = Append(stack, f) /\ f.phase = FirstPhase(call)
    <2>1. PICK f : Begun(f, call)
      BY <1>1, BeginFrame
    <2> QED  BY <2>1 DEF Begun
  <1>4. /\ Len(stack') = Len(stack) + 1 /\ stack'[Len(stack')] = f
        /\ \A i \in 1..Len(stack) : stack'[i] = stack[i]
    BY <1>2, <1>3
  <1>5. \A i \in 1..Len(stack) : stack[i].phase = "work"
    <2>1. CASE stack = <<>>
      BY <2>1
    <2>2. CASE At("work")
      BY <1>2, <2>2 DEF OnlyTopLooks, At, Top
    <2> QED  BY <1>1, <2>1, <2>2 DEF Begin
  <1>6. OnlyTopLooks'
    BY <1>2, <1>4, <1>5 DEF OnlyTopLooks
  <1>7. f.phase # "waiting"
    BY <1>3 DEF FirstPhase
  <1> QED  BY <1>4, <1>6, <1>7 DEF Awake, At, Top

\* A fire is work of the innermost call; those around it stay as they are.
LEMMA FireFacts ==
    ASSUME TypeOK, OnlyTopLooks, stack # <<>>, NEW id, NEW over, NEW out, Fire(id, over, out)
    PROVE  /\ Awake /\ Len(stack') = Len(stack)
           /\ \A i \in DOMAIN stack : stack'[i].phase = IF i < Len(stack) THEN stack[i].phase ELSE "work"
           /\ \A i \in DOMAIN stack : stack'[i].work = IF i < Len(stack) THEN stack[i].work ELSE id
  <1>1. stack \in Seq(Frames) /\ Len(stack) \in DOMAIN stack /\ DOMAIN stack = 1..Len(stack)
    BY DEF TypeOK
  <1>2. ASSUME NEW i \in DOMAIN stack
        PROVE  /\ stack'[i].phase = IF i < Len(stack) THEN stack[i].phase ELSE "work"
               /\ stack'[i].work = IF i < Len(stack) THEN stack[i].work ELSE id
    <2> DEFINE f == stack[i]
               fired == {p \in f.passed : p[2] = id}
               q == (f.passed \ fired) \union ({id} \X over)
               h == Handled(f, id)
               b == f.barred \union out
               r == f.passed \ fired
    <2>1. f \in Frames
      BY <1>1
    <2>2. stack'[i] = IF i < Len(stack) THEN [f EXCEPT !.passed = r]
                      ELSE [f EXCEPT !.phase = "work", !.work = id, !.handled = h, !.passed = q, !.barred = b]
      BY DEF Fire
    <2> HIDE DEF fired, q, h, r, b
    <2> QED  BY <2>1, <2>2 DEF Frames
  <1>3. stack' = [i \in DOMAIN stack |-> stack'[i]]
    BY DEF Fire
  <1>4. stack' \in Seq({stack'[i] : i \in DOMAIN stack}) /\ Len(stack') = Len(stack) /\ stack' # <<>>
    BY <1>1, <1>3
  <1>5. OnlyTopLooks'
    BY <1>1, <1>2, <1>4, SMTT(40) DEF OnlyTopLooks
  <1> QED  BY <1>1, <1>2, <1>4, <1>5 DEF Awake, At, Top

\* The loop's thread goes to wait only with nothing to do.
LEMMA LookSleeps ==
    ASSUME SleepInv, LoopNext \/ Throw
    PROVE  OnlyTopLooks' /\ NotAsleepOnWork'
  <1> USE DEF SleepInv
  <1>1. stack # <<>> /\ Top \in Frames
    BY TopTypes, FiresAnInstalled
       DEF LoopNext, Throw, Enter, Test, LookQuit, LookTake, LookRefresh, LookGiveUp, LookWait, WakeUp,
           PendingFired, PendingTake, PendingEnd, Return, NothingToDo, Looking, At
  <1>2. Awake => OnlyTopLooks' /\ NotAsleepOnWork'
    BY DEF Awake, NotAsleepOnWork
  <1>3. Pop => OnlyTopLooks' /\ NotAsleepOnWork'
    BY <1>1, <1>2, PopFacts
  <1>4. ASSUME NEW f, Becomes(f), f.phase # "waiting"
        PROVE  OnlyTopLooks' /\ NotAsleepOnWork'
    BY <1>1, <1>2, <1>4, BecomesFacts
  <1>5. \A p : /\ [Top EXCEPT !.phase = p].phase = p
               /\ \A w : [Top EXCEPT !.phase = p, !.work = w].phase = p
               /\ \A w, q : [Top EXCEPT !.phase = p, !.work = w, !.queued = q].phase = p
               /\ \A b, h : [Top EXCEPT !.phase = p, !.boundary = b, !.handled = h].phase = p
               /\ \A u : [Top EXCEPT !.phase = p, !.until = u].phase = p
    BY <1>1 DEF Frames
  <1>6. CASE Enter \/ Test \/ LookQuit \/ LookRefresh \/ LookGiveUp \/ WakeUp \/ PendingFired \/ PendingTake
             \/ PendingEnd \/ Throw
    <2>1. CASE Pop
      BY <1>3, <2>1
    <2>2. CASE \E p \in {"look", "drain"} : Becomes([Top EXCEPT !.phase = p])
      BY <1>4, <1>5, <2>2
    <2>3. CASE \E b, h : \E p \in {"looked", "test"} :
                Becomes([Top EXCEPT !.phase = p, !.boundary = b, !.handled = h])
      BY <1>4, <1>5, <2>3
    <2>4. CASE \E w, q : \E p \in {"work"} : Becomes([Top EXCEPT !.phase = p, !.work = w, !.queued = q])
      BY <1>4, <1>5, <2>4
    <2>5. CASE \E u : \E p \in {"look"} : Becomes([Top EXCEPT !.phase = p, !.until = u])
      BY <1>4, <1>5, <2>5
    <2>6. CASE Test \/ LookQuit \/ LookGiveUp \/ PendingFired \/ PendingEnd \/ Throw
      BY <2>1, <2>2, <2>6 DEF Test, LookQuit, LookGiveUp, PendingFired, PendingEnd, Throw
    <2> QED  BY <1>6, <2>3, <2>4, <2>5, <2>6 DEF Enter, LookRefresh, WakeUp, PendingTake
  <1>7. CASE Return
    <2>1. Pop \/ \E p \in {"drain", "due", "test"} : Becomes([Top EXCEPT !.phase = p, !.work = Task])
      BY <1>7 DEF Return
    <2> QED  BY <1>3, <1>4, <1>5, <2>1
  <1>8. CASE LookTake
    <2> DEFINE f == FreshPass(Top)
               q == f.passed \union ({Task} \X Overdue)
    <2>1. f \in Frames
      BY <1>1, FrameTypes DEF FreshPass, TypeOK
    <2>2. Becomes([f EXCEPT !.phase = "work", !.work = Task, !.passed = q])
      BY <1>8 DEF LookTake
    <2> HIDE DEF f, q
    <2>3. [f EXCEPT !.phase = "work", !.work = Task, !.passed = q].phase = "work"
      BY <2>1 DEF Frames
    <2> QED  BY <1>4, <2>2, <2>3
  <1>9. CASE LookWait
    <2>1. PICK until \in WaitDeadlines :
            /\ \A d \in WaitDeadlines : until <= d
            /\ Becomes([Top EXCEPT !.phase = "waiting", !.until = until])
      BY <1>9 DEF LookWait
    <2> DEFINE f == [Top EXCEPT !.phase = "waiting", !.until = until]
    <2>2. f.until = until /\ f.deadline = Top.deadline
      BY <1>1 DEF Frames
    <2>3. until <= Top.deadline /\ \A t \in Installed : until <= due[t]
      BY <2>1 DEF WaitDeadlines
    <2>4. pending' = <<>> /\ ~quit' /\ due' = due
      BY <1>9 DEF LookWait, NothingToDo, timerVars
    <2>5. OnlyTopLooks' /\ Top' = f
      BY <1>1, <2>1, BecomesFacts
    <2> QED  BY <2>2, <2>3, <2>4, <2>5 DEF NotAsleepOnWork, Installed
  <1>10. CASE \E id \in Ids : LookFire(id) \/ PendingFire(id)
    <2>1. PICK id, over, out : Fire(id, over, out)
      BY <1>10, FiresAnInstalled
    <2> QED  BY <1>1, <1>2, <2>1, FireFacts
  <1> QED  BY <1>6, <1>7, <1>8, <1>9, <1>10 DEF LoopNext

\* Every step keeps SleepInv.
LEMMA SleepStep == SleepInv /\ [Next]_vars => SleepInv'
  <1> SUFFICES ASSUME SleepInv, [Next]_vars PROVE SleepInv'
    OBVIOUS
  <1> USE DEF SleepInv
  <1>1. TypeOK'
    BY TypeStep
  <1>2. Awake => OnlyTopLooks' /\ NotAsleepOnWork'
    BY DEF Awake, NotAsleepOnWork
  <1>3. CASE Notify
    BY <1>1, <1>2, <1>3, NotifyFacts
  <1>4. CASE UNCHANGED <<pending, quit, due, stack>>
    BY <1>1, <1>4 DEF NotAsleepOnWork, OnlyTopLooks, At, Top, Installed
  <1>5. CASE Enqueue \/ Quit
    BY <1>3, <1>5 DEF Enqueue, Quit
  <1>6. CASE Clear
    BY <1>1, <1>6 DEF Clear, NotAsleepOnWork, OnlyTopLooks, At, Top, Installed, timerVars
  <1>7. CASE Tick \/ UNCHANGED vars
    BY <1>4, <1>7 DEF Tick, vars, timerVars
  <1>8. CASE \E repeats \in BOOLEAN, interval \in Intervals : MakeTimer(repeats, interval)
    BY <1>4, <1>8 DEF MakeTimer
  <1>9. CASE \E id \in Ids : Invalidate(id) \/ CallNext(id)
    BY <1>3, <1>4, <1>9 DEF Invalidate, CallNext, InstallTimer, RemoveTimer, FinishMark
  <1>10. CASE Finish
    BY <1>1, <1>2, <1>10 DEF Finish, Awake, At, OnlyTopLooks
  <1>11. CASE Spurious
    <2>1. stack # <<>> /\ Becomes([Top EXCEPT !.phase = "woken"]) /\ Top \in Frames
      BY <1>11, TopTypes DEF Spurious, At
    <2>2. [Top EXCEPT !.phase = "woken"].phase = "woken"
      BY <2>1 DEF Frames
    <2> QED  BY <1>1, <1>2, <2>1, <2>2, BecomesFacts
  <1>12. CASE BeginCall
    BY <1>1, <1>2, <1>12, BeginFacts
  <1>13. CASE LoopNext \/ Throw
    BY <1>1, <1>13, LookSleeps
  <1> QED  BY <1>5, <1>6, <1>7, <1>8, <1>9, <1>10, <1>11, <1>12, <1>13 DEF Next, AnyoneNext

\* A loop that waits has no task queued and no quit to answer, and wakes by its
\* own deadline and by that of every timer it has, also of one installed, or left
\* alone by a removal, after it began to wait.
THEOREM LoopNeverSleepsOnWork == Spec => []NotAsleepOnWork
  <1>1. Init => SleepInv
    BY TypeInit DEF Init, SleepInv, OnlyTopLooks, NotAsleepOnWork, At
  <1> QED  BY <1>1, SleepStep, PTL DEF Spec, SleepInv

-----------------------------------------------------------------------------
(* Valid timers.                                                           *)

Valid == {t \in Ids : timers[t].valid}

RepeatsKept == \A t \in Ids : timers'[t].repeats = timers[t].repeats

\* What a step may do to the fires under way that begins none: it may end the
\* innermost call's.
EndsOnlyTop ==
    /\ Firing' \subseteq Firing /\ Firing \ {Top.work} \subseteq Firing'
    /\ Top.phase # "work" => Firing' = Firing

\* The work of a frame is a task or the fire of a timer that was made.
LEMMA FramesWork ==
    TypeOK => \A i \in DOMAIN stack : stack[i].work \in Work /\ (stack[i].work # Task => stack[i].work \in Ids)
  <1> SUFFICES ASSUME TypeOK, NEW i \in DOMAIN stack
               PROVE  stack[i].work \in Work /\ (stack[i].work # Task => stack[i].work \in Ids)
    OBVIOUS
  <1>1. stack[i] \in Frames
    BY DEF TypeOK
  <1>2. stack[i].work \in Work
    BY <1>1 DEF Frames
  <1> QED  BY <1>2 DEF Work

\* The fires under way, by the frames they are the work of.
LEMMA FiringIs ==
    ASSUME TypeOK
    PROVE  \A t : t \in Firing <=> \E i \in DOMAIN stack :
                /\ stack[i].phase = "work" /\ stack[i].work = t /\ t # Task
                /\ t \in Ids /\ ~timers[t].repeats
  BY FramesWork DEF Firing, OneShot

\* The same after a step that leaves alone which timers repeat.
LEMMA FiringIsNext ==
    ASSUME TypeOK, RepeatsKept,
           \A i \in DOMAIN stack' : stack'[i].work \in Work
    PROVE  \A t : t \in Firing' <=> \E i \in DOMAIN stack' :
                /\ stack'[i].phase = "work" /\ stack'[i].work = t /\ t # Task
                /\ t \in Ids /\ ~timers[t].repeats
  <1>1. Firing' = {stack'[i].work : i \in {j \in DOMAIN stack' :
            stack'[j].phase = "work" /\ stack'[j].work # Task /\ ~timers'[stack'[j].work].repeats}}
    BY DEF Firing, OneShot
  <1>2. \A i \in DOMAIN stack' : stack'[i].work # Task =>
            stack'[i].work \in Ids /\ timers'[stack'[i].work].repeats = timers[stack'[i].work].repeats
    BY DEF Work, RepeatsKept
  <1> QED  BY <1>1, <1>2

\* A step that leaves the running calls alone begins and ends no fire.
LEMMA FiringStays ==
    ASSUME TypeOK, RepeatsKept, UNCHANGED stack
    PROVE  Firing' = Firing
  <1>1. \A i \in DOMAIN stack' : stack'[i].work \in Work
    BY FramesWork
  <1>2. \A t : t \in Firing' <=> t \in Firing
    BY <1>1, FiringIs, FiringIsNext
  <1> QED  BY <1>2

\* A change of the innermost call, but to a fire, ends no fire but its own.
LEMMA FiringBecomes ==
    ASSUME TypeOK, RepeatsKept, stack # <<>>, NEW f, Becomes(f),
           f.work \in Work, f.phase = "work" => f.work = Task
    PROVE  EndsOnlyTop
  <1>1. stack \in Seq(Frames \union {f}) /\ f \in Frames \union {f}
    BY DEF TypeOK
  <1>2. /\ Len(stack) \in DOMAIN stack /\ DOMAIN stack' = DOMAIN stack
        /\ \A i \in DOMAIN stack : stack'[i] = IF i = Len(stack) THEN f ELSE stack[i]
    BY <1>1, ReplaceLast DEF Becomes
  <1>3. \A i \in DOMAIN stack' : stack'[i].work \in Work
    BY <1>2, FramesWork
  <1>4. Firing' \subseteq Firing
    BY <1>2, <1>3, FiringIs, FiringIsNext
  <1>5. ASSUME NEW t \in Firing, t # Top.work \/ Top.phase # "work"
        PROVE  t \in Firing'
    <2>1. PICK i \in DOMAIN stack : /\ stack[i].phase = "work" /\ stack[i].work = t /\ t # Task
                                    /\ t \in Ids /\ ~timers[t].repeats
      BY FiringIs
    <2>2. stack'[i] = stack[i] /\ i \in DOMAIN stack'
      BY <1>2, <1>5, <2>1 DEF Top
    <2> QED  BY <1>3, <2>1, <2>2, FiringIsNext
  <1> QED  BY <1>4, <1>5 DEF EndsOnlyTop

\* The end of the innermost call ends no fire but its own.
LEMMA FiringPop ==
    ASSUME TypeOK, RepeatsKept, stack # <<>>, Pop
    PROVE  EndsOnlyTop
  <1>1. /\ DOMAIN stack' = 1..(Len(stack) - 1) /\ DOMAIN stack = 1..Len(stack) /\ Len(stack) \in Nat
        /\ \A i \in DOMAIN stack' : i \in DOMAIN stack /\ stack'[i] = stack[i]
    <2> DEFINE rest == stack'
    <2>1. rest = SubSeq(stack, 1, Len(stack) - 1) /\ stack \in Seq(Frames)
      BY DEF Pop, TypeOK
    <2> HIDE DEF rest
    <2>2. rest \in Seq(Frames) /\ Len(rest) = Len(stack) - 1
      BY <2>1, DropLast
    <2>3. \A i \in DOMAIN rest : i \in DOMAIN stack /\ rest[i] = stack[i]
      BY <2>1, DropLast
    <2>4. DOMAIN rest = 1..Len(rest) /\ DOMAIN stack = 1..Len(stack) /\ Len(stack) \in Nat
      BY <2>1, <2>2
    <2> QED  BY <2>2, <2>3, <2>4 DEF rest
  <1>2. \A i \in DOMAIN stack' : stack'[i].work \in Work
    BY <1>1, FramesWork
  <1>3. Firing' \subseteq Firing
    BY <1>1, <1>2, FiringIs, FiringIsNext
  <1>4. ASSUME NEW t \in Firing, t # Top.work \/ Top.phase # "work"
        PROVE  t \in Firing'
    <2>1. PICK i \in DOMAIN stack : /\ stack[i].phase = "work" /\ stack[i].work = t /\ t # Task
                                    /\ t \in Ids /\ ~timers[t].repeats
      BY FiringIs
    <2>2. i # Len(stack)
      BY <1>4, <2>1 DEF Top
    <2>3. i \in DOMAIN stack' /\ stack'[i] = stack[i]
      BY <1>1, <2>2
    <2> QED  BY <1>2, <2>1, <2>3, FiringIsNext
  <1> QED  BY <1>3, <1>4 DEF EndsOnlyTop

\* A notify begins and ends no fire.
LEMMA FiringNotify ==
    ASSUME TypeOK, RepeatsKept, Notify
    PROVE  Firing' = Firing
  <1>1. CASE At("waiting")
    <2> DEFINE f == [Top EXCEPT !.phase = "woken"]
    <2>1. stack # <<>> /\ Becomes(f) /\ Top.phase = "waiting" /\ Top \in Frames
      BY <1>1, TopTypes DEF Notify, At
    <2>2. f.phase = "woken" /\ f.work \in Work
      BY <2>1 DEF Frames
    <2> HIDE DEF f
    <2> QED  BY <2>1, <2>2, FiringBecomes DEF EndsOnlyTop
  <1>2. CASE ~At("waiting")
    BY <1>2, FiringStays DEF Notify
  <1> QED  BY <1>1, <1>2

\* Nor does the start of a running call.
LEMMA FiringBegin ==
    ASSUME TypeOK, RepeatsKept, BeginCall
    PROVE  Firing' = Firing
  <1>1. PICK call, deadline : Begin(call, deadline)
    BY DEF BeginCall
  <1>2. stack \in Seq(Frames) /\ Len(stack) \in Nat /\ DOMAIN stack = 1..Len(stack)
    BY DEF TypeOK
  <1>3. PICK f : stack' = Append(stack, f) /\ f.phase = FirstPhase(call) /\ f.work = Task
    <2>1. PICK f : Begun(f, call)
      BY <1>1, BeginFrame
    <2> QED  BY <2>1 DEF Begun
  <1>4. /\ DOMAIN stack' = 1..(Len(stack) + 1) /\ stack'[Len(stack) + 1] = f
        /\ \A i \in DOMAIN stack : i \in DOMAIN stack' /\ stack'[i] = stack[i]
        /\ \A i \in DOMAIN stack' : i \in DOMAIN stack \/ stack'[i] = f
    BY <1>2, <1>3
  <1>5. \A i \in DOMAIN stack' : stack'[i].work \in Work
    BY <1>3, <1>4, FramesWork DEF Work
  <1>6. \A t : t \in Firing' => t \in Firing
    BY <1>3, <1>4, <1>5, FiringIs, FiringIsNext
  <1>7. \A t : t \in Firing => t \in Firing'
    BY <1>4, <1>5, FiringIs, FiringIsNext
  <1> QED  BY <1>6, <1>7

\* A claim begins the fire of a one-shot; a repeating timer's is not counted.
LEMMA FiringFire ==
    ASSUME TypeOK, OnlyTopLooks, RepeatsKept, stack # <<>>, Top.phase # "work",
           NEW id \in Ids, NEW over, NEW out, Fire(id, over, out)
    PROVE  Firing' = Firing \union (IF timers[id].repeats THEN {} ELSE {id})
  <1>1. stack \in Seq(Frames) /\ Len(stack) \in DOMAIN stack /\ DOMAIN stack = 1..Len(stack)
    BY DEF TypeOK
  <1>2. DOMAIN stack' = DOMAIN stack
    <2>1. stack' = [i \in DOMAIN stack |-> stack'[i]]
      BY DEF Fire
    <2> QED  BY <2>1
  <1>3. \A i \in DOMAIN stack : IF i = Len(stack)
            THEN stack'[i].phase = "work" /\ stack'[i].work = id /\ stack[i].phase # "work"
            ELSE stack'[i].phase = stack[i].phase /\ stack'[i].work = stack[i].work
    BY <1>1, FireFacts DEF Top
  <1>4. id \in Work /\ id # Task
    BY DEF Work, Task, Ids
  <1>5. \A i \in DOMAIN stack' : stack'[i].work \in Work
    BY <1>2, <1>3, <1>4, FramesWork
  <1>6. \A t \in Firing' : t \in Firing \/ (t = id /\ ~timers[id].repeats)
    BY <1>2, <1>3, <1>5, FiringIs, FiringIsNext
  <1>7. \A t \in Firing : t \in Firing'
    BY <1>2, <1>3, <1>5, FiringIs, FiringIsNext
  <1>8. ~timers[id].repeats => id \in Firing'
    BY <1>1, <1>2, <1>3, <1>4, <1>5, FiringIsNext
  <1> QED  BY <1>6, <1>7, <1>8

\* Of the valid timers, those installed, being made, firing and being dropped,
\* and of those installed, the invalid ones that are being removed.
Held(valid, installed, made, firing, removed, dropped) ==
    /\ installed \subseteq valid \union removed
    /\ valid \subseteq installed \union made \union firing \union dropped
    /\ installed \intersect (made \union firing \union dropped) = {}
    /\ made \subseteq valid /\ made \intersect (firing \union dropped) = {}
    /\ removed \intersect valid = {}

HeldNow == Held(Valid, Installed, DOMAIN making, Firing, removing, dropping)

\* Timers are dropped only by a finish(), after which none is installed and no
\* running call goes on.
EndedWell == /\ dropping # {} => finished
             /\ finished => Installed = {} /\ stack = <<>>

HeldInv == SleepInv /\ HeldNow /\ EndedWell

\* HeldNow is ValidWhileHeld, and more, in terms of sets.
LEMMA HeldImplies == TypeOK /\ HeldNow => ValidWhileHeld
  <1> SUFFICES ASSUME TypeOK, HeldNow PROVE ValidWhileHeld
    OBVIOUS
  <1>1. Installed \subseteq Ids
    BY DEF TypeOK
  <1> QED  BY <1>1 DEF HeldNow, Held, Valid, ValidWhileHeld

\* Marking timers invalid takes them from the valid ones.
LEMMA InvalidValid ==
    ASSUME TypeOK, NEW ids, timers' = Invalid(ids)
    PROVE  Valid' = Valid \ ids /\ RepeatsKept
  <1>1. Len(timers') = Len(timers) /\ \A t \in Ids :
            /\ timers'[t].valid = (timers[t].valid /\ t \notin ids)
            /\ timers'[t].repeats = timers[t].repeats
    BY InvalidFacts
  <1>2. Ids' = Ids
    BY <1>1 DEF Ids
  <1> QED  BY <1>1, <1>2 DEF Valid, RepeatsKept

\* A step that leaves the timers alone leaves the valid ones.
LEMMA SameValid == UNCHANGED timers => Valid' = Valid /\ RepeatsKept
  BY DEF Valid, RepeatsKept, Ids

\* Steps of the running calls that neither claim a timer nor end work.
LEMMA LookHeld ==
    ASSUME TypeOK, OnlyTopLooks,
           \/ Enter \/ Test \/ LookQuit \/ LookTake \/ LookRefresh \/ LookGiveUp \/ LookWait \/ WakeUp
           \/ Spurious \/ PendingFired \/ PendingTake \/ PendingEnd
    PROVE  Firing' = Firing /\ stack # <<>> /\ UNCHANGED <<timerVars, finished>>
  <1>1. UNCHANGED <<timerVars, finished>>
    BY DEF Enter, Test, LookQuit, LookTake, LookRefresh, LookGiveUp, LookWait, WakeUp, Spurious,
           PendingFired, PendingTake, PendingEnd
  <1>2. RepeatsKept
    BY <1>1, SameValid DEF timerVars
  <1>3. stack # <<>> /\ Top.phase # "work"
    BY DEF Enter, Test, LookQuit, LookTake, LookRefresh, LookGiveUp, LookWait, WakeUp, Spurious,
           PendingFired, PendingTake, PendingEnd, NothingToDo, Looking, At
  <1>4. Top \in Frames /\ Task \in Work
    BY <1>3, TopTypes DEF Work
  <1>5. Pop => Firing' = Firing
    BY <1>2, <1>3, FiringPop DEF EndsOnlyTop
  <1>6. ASSUME NEW f \in Frames, Becomes(f), f.phase = "work" => f.work = Task
        PROVE  Firing' = Firing
    <2>1. f.work \in Work
      BY DEF Frames
    <2> QED  BY <1>2, <1>3, <1>6, <2>1, FiringBecomes DEF EndsOnlyTop
  <1>7. CASE LookQuit \/ LookGiveUp \/ PendingEnd
    BY <1>1, <1>3, <1>5, <1>7 DEF LookQuit, LookGiveUp, PendingEnd
  <1>8. CASE Enter \/ Test \/ WakeUp \/ Spurious \/ PendingFired \/ LookRefresh \/ LookWait
    <2>1. \A p \in {"test", "look", "drain", "woken", "looked", "waiting"} :
            /\ [Top EXCEPT !.phase = p] \in Frames /\ [Top EXCEPT !.phase = p].phase = p
            /\ \A u \in Deadlines : /\ [Top EXCEPT !.phase = p, !.until = u] \in Frames
                                    /\ [Top EXCEPT !.phase = p, !.until = u].phase = p
            /\ \A b \in Times, h \in SUBSET Ids :
                    /\ [Top EXCEPT !.phase = p, !.boundary = b, !.handled = h] \in Frames
                    /\ [Top EXCEPT !.phase = p, !.boundary = b, !.handled = h].phase = p
      BY <1>4, ZenonT(60) DEF Frames, Phases, LockedPhases
    <2>2. now \in Times /\ {} \in SUBSET Ids /\ 0 \in Deadlines
      BY ClockAssumption DEF TypeOK, Deadlines
    <2>3. Firing' = Firing \/ Pop \/
            \/ \E p \in {"look", "drain", "woken"} : Becomes([Top EXCEPT !.phase = p])
            \/ \E u \in Deadlines : Becomes([Top EXCEPT !.phase = "look", !.until = u])
            \/ \E u \in Deadlines : Becomes([Top EXCEPT !.phase = "waiting", !.until = u])
            \/ \E p \in {"test", "looked"}, b \in Times, h \in SUBSET Ids :
                    Becomes([Top EXCEPT !.phase = p, !.boundary = b, !.handled = h])
      <3>1. CASE Enter \/ Test \/ WakeUp \/ Spurious \/ PendingFired \/ LookRefresh
        BY <2>2, <3>1 DEF Enter, Test, WakeUp, Spurious, PendingFired, LookRefresh
      <3>2. CASE LookWait
        <4>1. \A d \in WaitDeadlines : d \in Deadlines
          BY <1>4, DueTypes DEF WaitDeadlines, Frames
        <4> QED  BY <3>2, <4>1 DEF LookWait
      <3> QED  BY <1>8, <3>1, <3>2
    <2>4. CASE \E p \in {"look", "drain", "woken"} : Becomes([Top EXCEPT !.phase = p])
      <3>1. PICK p \in {"look", "drain", "woken"} : Becomes([Top EXCEPT !.phase = p])
        BY <2>4
      <3> DEFINE f == [Top EXCEPT !.phase = p]
      <3>2. f \in Frames /\ f.phase # "work" /\ Becomes(f)
        BY <2>1, <3>1
      <3> HIDE DEF f
      <3> QED  BY <1>1, <1>3, <1>6, <3>2
    <2>5. CASE \E p \in {"look", "waiting"}, u \in Deadlines :
                Becomes([Top EXCEPT !.phase = p, !.until = u])
      <3>1. PICK p \in {"look", "waiting"}, u \in Deadlines : Becomes([Top EXCEPT !.phase = p, !.until = u])
        BY <2>5
      <3> DEFINE f == [Top EXCEPT !.phase = p, !.until = u]
      <3>2. f \in Frames /\ f.phase # "work" /\ Becomes(f)
        BY <2>1, <3>1
      <3> HIDE DEF f
      <3> QED  BY <1>1, <1>3, <1>6, <3>2
    <2>6. CASE \E p \in {"test", "looked"}, b \in Times, h \in SUBSET Ids :
                Becomes([Top EXCEPT !.phase = p, !.boundary = b, !.handled = h])
      <3>1. PICK p \in {"test", "looked"}, b \in Times, h \in SUBSET Ids : Becomes([Top EXCEPT !.phase = p, !.boundary = b, !.handled = h])
        BY <2>6
      <3> DEFINE f == [Top EXCEPT !.phase = p, !.boundary = b, !.handled = h]
      <3>2. f \in Frames /\ f.phase # "work" /\ Becomes(f)
        BY <2>1, <3>1
      <3> HIDE DEF f
      <3> QED  BY <1>1, <1>3, <1>6, <3>2
    <2>7. Firing' = Firing
      BY <1>5, <2>3, <2>4, <2>5, <2>6
    <2> QED  BY <1>1, <1>3, <2>7
  <1>9. CASE PendingTake
    <2>1. Becomes([Top EXCEPT !.phase = "work", !.work = Task, !.queued = @ \ {Head(pending)}])
      BY <1>9 DEF PendingTake
    <2>2. /\ [Top EXCEPT !.phase = "work", !.work = Task, !.queued = @ \ {Head(pending)}] \in Frames
          /\ [Top EXCEPT !.phase = "work", !.work = Task, !.queued = @ \ {Head(pending)}].work = Task
      BY <1>4 DEF Frames, Phases
    <2> QED  BY <1>1, <1>3, <1>6, <2>1, <2>2
  <1>10. CASE LookTake
    <2> DEFINE f == FreshPass(Top)
               over == Overdue
               q == f.passed \union ({Task} \X over)
    <2>1. f \in Frames
      BY <1>4, FrameTypes DEF FreshPass, TypeOK
    <2>2. over \subseteq Ids
      BY DueTypes DEF Overdue
    <2>3. Becomes([f EXCEPT !.phase = "work", !.work = Task, !.passed = q])
      BY <1>10 DEF LookTake
    <2> HIDE DEF f, over
    <2>4. q \in SUBSET (Work \X Ids)
      BY <1>4, <2>1, <2>2, PassedTypes
    <2> HIDE DEF q
    <2>5. [f EXCEPT !.phase = "work", !.work = Task, !.passed = q].work = Task
      BY <2>1 DEF Frames
    <2>6. [f EXCEPT !.phase = "work", !.work = Task, !.passed = q] \in Frames
      BY <1>4, <2>1, <2>4, FrameTypes DEF Phases
    <2>7. Firing' = Firing
      BY <1>6, <2>3, <2>5, <2>6
    <2> QED  BY <1>1, <1>3, <2>7
  <1> QED  BY <1>7, <1>8, <1>9, <1>10

\* A fire that ends leaves its one-shot invalid.
LEMMA OverHeld ==
    ASSUME HeldInv, Return \/ Throw
    PROVE  HeldNow' /\ EndedWell'
  <1>1. TypeOK /\ OnlyTopLooks
    BY DEF HeldInv, SleepInv
  <1>2. /\ stack # <<>> /\ Top.phase = "work" /\ timers' = WorkOver
        /\ UNCHANGED <<due, making, removing, dropping, finished>>
    BY DEF Return, Throw, At
  <1>3. Top \in Frames /\ Top.work \in Work /\ Task \in Work
    BY <1>1, <1>2, TopTypes DEF Frames, Work
  <1>4. OneShot(Top.work) <=> Top.work \in Firing
    <2>1. Len(stack) \in DOMAIN stack /\ (Top.work # Task => Top.work \in Ids)
      BY <1>1, <1>2, <1>3 DEF TypeOK, Work
    <2> QED  BY <1>1, <1>2, <2>1, FiringIs DEF Top, OneShot
  <1>5. RepeatsKept /\ Valid' = IF OneShot(Top.work) THEN Valid \ {Top.work} ELSE Valid
    BY <1>1, <1>2, InvalidValid, SameValid DEF WorkOver
  <1>6. EndsOnlyTop
    <2>1. CASE Pop
      BY <1>1, <1>2, <1>5, <2>1, FiringPop
    <2>2. ASSUME NEW p \in {"drain", "due", "test"}, Becomes([Top EXCEPT !.phase = p, !.work = Task])
          PROVE  EndsOnlyTop
      <3> DEFINE f == [Top EXCEPT !.phase = p, !.work = Task]
      <3>1. f.phase # "work" /\ f.work \in Work /\ Becomes(f)
        BY <1>3, <2>2 DEF Frames
      <3> HIDE DEF f
      <3> QED  BY <1>1, <1>2, <1>5, <3>1, FiringBecomes
    <2>3. Pop \/ \E p \in {"drain", "due", "test"} : Becomes([Top EXCEPT !.phase = p, !.work = Task])
      BY DEF Return, Throw
    <2> QED  BY <2>1, <2>2, <2>3
  <1>7. HeldNow'
    BY <1>2, <1>4, <1>5, <1>6 DEF HeldInv, HeldNow, Held, EndsOnlyTop, Installed
  <1>8. EndedWell'
    BY <1>2 DEF HeldInv, EndedWell
  <1> QED  BY <1>7, <1>8

\* A claim keeps a repeating timer installed, and turns a one-shot into a fire.
LEMMA FireHeld ==
    ASSUME HeldInv, NEW id \in Ids, LookFire(id) \/ PendingFire(id)
    PROVE  HeldNow' /\ EndedWell'
  <1>1. TypeOK /\ OnlyTopLooks
    BY DEF HeldInv, SleepInv
  <1>2. PICK over, out : Fire(id, over, out)
    BY <1>1, FiresAnInstalled
  <1>3. stack # <<>> /\ id \in Installed /\ Top.phase # "work"
    BY <1>1, FiresAnInstalled DEF LookFire, PendingFire, Looking, At
  <1>4. Valid' = Valid /\ RepeatsKept
    <2>1. timers \in Seq(Timers) /\ timers' = [timers EXCEPT ![id].last = now]
      BY <1>1, <1>2 DEF Fire, TypeOK
    <2>2. /\ Len(timers') = Len(timers)
          /\ \A t \in Ids : /\ timers'[t].valid = timers[t].valid
                            /\ timers'[t].repeats = timers[t].repeats
      BY <2>1 DEF Ids, Timers
    <2>3. Ids' = Ids
      BY <2>2 DEF Ids
    <2> QED  BY <2>2, <2>3 DEF Valid, RepeatsKept
  <1>5. Firing' = Firing \union (IF timers[id].repeats THEN {} ELSE {id})
    BY <1>1, <1>2, <1>3, <1>4, FiringFire
  <1>6. Installed' = IF timers[id].repeats THEN Installed ELSE Installed \ {id}
    BY <1>1, <1>2, <1>3, ClaimedFacts DEF Fire, Installed
  <1>7. UNCHANGED <<making, removing, dropping, finished>>
    BY <1>2 DEF Fire
  <1>8. HeldNow'
    BY <1>3, <1>4, <1>5, <1>6, <1>7 DEF HeldInv, HeldNow, Held
  <1>9. EndedWell'
    BY <1>3, <1>7 DEF HeldInv, EndedWell
  <1> QED  BY <1>8, <1>9

\* Every step keeps HeldInv.
LEMMA HeldStep == HeldInv /\ [Next]_vars => HeldInv'
  <1> SUFFICES ASSUME HeldInv, [Next]_vars PROVE HeldNow' /\ EndedWell'
    BY SleepStep DEF HeldInv
  <1>1. TypeOK /\ OnlyTopLooks
    BY DEF HeldInv, SleepInv
  <1>2. ASSUME UNCHANGED <<timers, due, making, removing, dropping, finished>>,
               Firing' = Firing, finished => stack' = <<>>
        PROVE  HeldNow' /\ EndedWell'
    BY <1>2, SameValid DEF HeldInv, HeldNow, EndedWell, Installed
  <1>3. CASE \/ Enter \/ Test \/ LookQuit \/ LookTake \/ LookRefresh \/ LookGiveUp \/ LookWait \/ WakeUp
             \/ Spurious \/ PendingFired \/ PendingTake \/ PendingEnd
    <2>1. Firing' = Firing /\ stack # <<>> /\ UNCHANGED <<timerVars, finished>>
      BY <1>1, <1>3, LookHeld
    <2> QED  BY <1>2, <2>1 DEF HeldInv, EndedWell, timerVars
  <1>4. CASE \E id \in Ids : LookFire(id) \/ PendingFire(id)
    BY <1>4, FireHeld
  <1>5. CASE Return \/ Throw
    BY <1>5, OverHeld
  <1>6. Notify => (finished => stack' = <<>>)
    BY DEF Notify, At, HeldInv, EndedWell
  <1>7. CASE Enqueue \/ Quit
    <2>1. Notify /\ UNCHANGED <<timerVars, finished>>
      BY <1>7 DEF Enqueue, Quit
    <2>2. Firing' = Firing
      BY <1>1, <2>1, SameValid, FiringNotify DEF timerVars
    <2> QED  BY <1>2, <1>6, <2>1, <2>2 DEF timerVars
  <1>8. CASE Clear \/ Tick \/ UNCHANGED vars
    <2>1. UNCHANGED <<timerVars, stack, finished>>
      BY <1>8 DEF Clear, Tick, vars, timerVars
    <2>2. Firing' = Firing
      BY <1>1, <2>1, SameValid, FiringStays DEF timerVars
    <2> QED  BY <1>2, <2>1, <2>2 DEF timerVars, HeldInv, EndedWell
  <1>9. CASE BeginCall
    <2>1. UNCHANGED timerVars /\ ~finished /\ UNCHANGED finished
      BY <1>9 DEF BeginCall, Begin
    <2>2. Firing' = Firing
      BY <1>1, <1>9, <2>1, SameValid, FiringBegin DEF timerVars
    <2> QED  BY <1>2, <2>1, <2>2 DEF timerVars
  <1>10. CASE Finish
    <2>1. /\ stack = <<>> /\ stack' = <<>> /\ ~finished /\ finished' /\ UNCHANGED <<timers, making, removing>>
          /\ dropping' = Installed /\ Installed' = {}
      BY <1>10 DEF Finish, Empty, Installed
    <2>2. Firing = {} /\ Firing' = {}
      BY <2>1 DEF Firing
    <2>3. Valid' = Valid /\ dropping = {}
      BY <2>1, SameValid DEF HeldInv, EndedWell
    <2>4. HeldNow'
      BY <2>1, <2>2, <2>3 DEF HeldInv, HeldNow, Held
    <2> QED  BY <2>1, <2>4 DEF EndedWell
  <1>11. CASE \E repeats \in BOOLEAN, interval \in Intervals : MakeTimer(repeats, interval)
    <2>1. PICK repeats \in BOOLEAN, interval \in Intervals : MakeTimer(repeats, interval)
      BY <1>11
    <2> DEFINE id == Len(timers) + 1
    <2>2. /\ DOMAIN making' = DOMAIN making \union {id}
          /\ UNCHANGED <<due, removing, dropping, finished, stack>>
      BY <2>1 DEF MakeTimer, Install
    <2>3. PICK new : timers' = Append(timers, new) /\ new.valid
      BY <2>1 DEF MakeTimer
    <2>4. timers \in Seq(Timers) /\ Len(timers) \in Nat
      BY <1>1 DEF TypeOK
    <2>5. /\ Ids' = Ids \union {id} /\ id \notin Ids
          /\ timers'[id].valid /\ \A t \in Ids : timers'[t] = timers[t]
      BY <2>3, <2>4 DEF Ids
    <2>6. Valid' = Valid \union {id} /\ RepeatsKept
      BY <2>5 DEF Valid, RepeatsKept
    <2>7. Firing' = Firing
      BY <1>1, <2>2, <2>6, FiringStays
    <2>8. Firing \subseteq Ids /\ Installed \subseteq Ids /\ removing \subseteq Ids /\ dropping \subseteq Ids
      BY <1>1, FiringIs DEF TypeOK
    <2> HIDE DEF id
    <2>9. HeldNow'
      BY <2>2, <2>5, <2>6, <2>7, <2>8 DEF HeldInv, HeldNow, Held, Installed
    <2> QED  BY <2>2, <2>9 DEF HeldInv, EndedWell, Installed
  <1>12. ASSUME NEW id \in Ids, Invalidate(id)
         PROVE  HeldNow' /\ EndedWell'
    <2>1. /\ timers' = Invalid({id}) /\ removing' = removing \union {id} /\ id \notin DOMAIN making
          /\ UNCHANGED <<due, making, dropping, finished, stack>>
      BY <1>12 DEF Invalidate
    <2>2. Valid' = Valid \ {id} /\ Firing' = Firing
      BY <1>1, <2>1, InvalidValid, FiringStays
    <2>3. HeldNow'
      BY <2>1, <2>2 DEF HeldInv, HeldNow, Held, Installed
    <2> QED  BY <2>1, <2>3 DEF HeldInv, EndedWell, Installed
  <1>13. ASSUME NEW id \in Ids, RemoveTimer(id)
         PROVE  HeldNow' /\ EndedWell'
    <2>1. /\ id \in removing /\ removing' = removing \ {id} /\ Installed' = Installed \ {id}
          /\ Notify /\ UNCHANGED <<timers, making, dropping, finished>>
      BY <1>13 DEF RemoveTimer, Without, Installed
    <2>2. Valid' = Valid /\ Firing' = Firing
      BY <1>1, <2>1, SameValid, FiringNotify
    <2>3. HeldNow'
      BY <2>1, <2>2 DEF HeldInv, HeldNow, Held
    <2> QED  BY <1>6, <2>1, <2>3 DEF HeldInv, EndedWell
  <1>14. ASSUME NEW id \in Ids, FinishMark(id)
         PROVE  HeldNow' /\ EndedWell'
    <2>1. /\ id \in dropping /\ dropping' = dropping \ {id} /\ timers' = Invalid({id})
          /\ UNCHANGED <<due, making, removing, finished, stack>>
      BY <1>14 DEF FinishMark
    <2>2. Valid' = Valid \ {id} /\ Firing' = Firing
      BY <1>1, <2>1, InvalidValid, FiringStays
    <2>3. HeldNow'
      BY <2>1, <2>2 DEF HeldInv, HeldNow, Held, Installed
    <2> QED  BY <2>1, <2>3 DEF HeldInv, EndedWell, Installed
  <1>15. ASSUME NEW id \in Ids, InstallTimer(id)
         PROVE  HeldNow' /\ EndedWell'
    <2>1. /\ id \in DOMAIN making /\ DOMAIN making' = DOMAIN making \ {id}
          /\ UNCHANGED <<removing, dropping, finished>>
      BY <1>15 DEF InstallTimer, Without
    <2>2. CASE finished
      <3>1. timers' = Invalid({id}) /\ UNCHANGED <<due, stack>>
        BY <1>15, <2>2 DEF InstallTimer
      <3>2. Valid' = Valid \ {id} /\ Firing' = Firing
        BY <1>1, <3>1, InvalidValid, FiringStays
      <3>3. HeldNow'
        BY <2>1, <2>2, <3>1, <3>2 DEF HeldInv, HeldNow, Held, Installed, EndedWell
      <3> QED  BY <2>1, <3>1, <3>3 DEF HeldInv, EndedWell, Installed
    <2>3. CASE ~finished
      <3>1. Installed' = Installed \union {id} /\ Notify /\ UNCHANGED timers
        BY <1>15, <2>3 DEF InstallTimer, Install, Installed
      <3>2. Valid' = Valid /\ Firing' = Firing
        BY <1>1, <3>1, SameValid, FiringNotify
      <3>3. HeldNow'
        BY <2>1, <3>1, <3>2 DEF HeldInv, HeldNow, Held
      <3> QED  BY <2>1, <2>3, <3>3 DEF HeldInv, EndedWell
    <2> QED  BY <2>2, <2>3
  <1>16. CASE LoopNext
    BY <1>3, <1>4, <1>5, <1>16 DEF LoopNext
  <1>17. CASE AnyoneNext
    BY <1>7, <1>8, <1>11, <1>12, <1>17 DEF AnyoneNext
  <1>18. CASE \E id \in Ids : CallNext(id)
    BY <1>13, <1>14, <1>15, <1>18 DEF CallNext
  <1> QED  BY <1>3, <1>5, <1>8, <1>9, <1>10, <1>16, <1>17, <1>18 DEF Next

\* No timer is left installed after its invalidate() has returned, and none stays
\* valid that nobody will install, fire or drop.
THEOREM LoopHoldsValidTimers == Spec => []ValidWhileHeld
  <1>1. Init => HeldInv
    <2> SUFFICES ASSUME Init PROVE HeldInv
      OBVIOUS
    <2>1. SleepInv
      BY TypeInit DEF Init, SleepInv, OnlyTopLooks, NotAsleepOnWork, At
    <2>2. Installed = {} /\ DOMAIN making = {} /\ Valid = {} /\ Firing = {}
      BY DEF Init, Empty, Installed, Valid, Ids, Firing
    <2> QED  BY <2>1, <2>2 DEF Init, HeldInv, HeldNow, Held, EndedWell
  <1>2. HeldInv => ValidWhileHeld
    BY HeldImplies DEF HeldInv, SleepInv
  <1> QED  BY <1>1, <1>2, HeldStep, PTL DEF Spec

-----------------------------------------------------------------------------
(* The inductive invariant.                                                *)

\* A timer claimed before is installed again only to repeat, an interval after its
\* last claim.
ClaimsFit ==
    /\ \A t \in DOMAIN making : timers[t].last = NotYet
    /\ \A t \in Installed : timers[t].last # NotYet =>
         timers[t].repeats /\ due[t] = After(timers[t].last, timers[t].interval)

\* A timer t that was overdue when a call took the work w, and has not fired since, is
\* due before w's timer is again; and unless the call's pass has had w already, t is
\* for this pass.
PairFits(f, w, t) ==
    /\ w \notin DOMAIN making /\ t \notin DOMAIN making
    /\ t \in Installed =>
         /\ due[t] < now
         /\ w \in Installed => due[t] < due[w]
         /\ w \notin f.handled => due[t] <= f.boundary /\ t \notin f.handled

PassFits(f) == f.boundary <= now /\ \A p \in f.passed : PairFits(f, p[1], p[2])

PassesFit == \A i \in DOMAIN stack : PassFits(stack[i])

PassInv == HeldInv /\ ClaimsFit /\ PassesFit

-----------------------------------------------------------------------------
(* Steps that take no timer and end no pass.                               *)

\* What such a step may do to the schedule.
ScheduleStep ==
    /\ now <= now'
    /\ Installed' \subseteq Installed \union DOMAIN making
    /\ \A t \in Installed \intersect Installed' : due'[t] = due[t]
    /\ DOMAIN making' \subseteq DOMAIN making \union {Len(timers) + 1}
    /\ \A t \in DOMAIN making' \ DOMAIN making : timers'[t].last = NotYet
    /\ \A t \in Ids : /\ timers'[t].last = timers[t].last
                      /\ timers'[t].interval = timers[t].interval
                      /\ timers'[t].repeats = timers[t].repeats

\* And to the passes.
SamePass(f, g) == f.boundary = g.boundary /\ f.handled = g.handled /\ f.passed = g.passed
PassKept ==
    \A i \in DOMAIN stack' :
        \/ i \in DOMAIN stack /\ SamePass(stack'[i], stack[i])
        \/ stack'[i].boundary = now /\ stack'[i].passed = {}

LEMMA FrameKinds ==
    ASSUME TypeOK, NEW i \in DOMAIN stack
    PROVE  /\ stack[i].boundary \in Times /\ stack[i].handled \subseteq Ids
           /\ stack[i].passed \subseteq Work \X Ids /\ stack[i] \in Frames
           /\ \A p \in stack[i].passed : p[1] \in Work /\ p[2] \in Ids /\ p = <<p[1], p[2]>>
  <1>1. stack[i] \in Frames
    BY DEF TypeOK
  <1>2. /\ stack[i].boundary \in Times /\ stack[i].handled \subseteq Ids
        /\ stack[i].passed \subseteq Work \X Ids
    BY <1>1 DEF Frames
  <1> QED  BY <1>1, <1>2

\* The clock, the deadlines and the ids that are yet to come.
LEMMA ScheduleKinds ==
    ASSUME TypeOK
    PROVE  /\ now \in Int /\ (\A t \in Installed : due[t] \in Int /\ t \in Ids)
           /\ DOMAIN making \subseteq Ids /\ Task \notin Ids
           /\ \A w \in Work : w # Len(timers) + 1
           /\ \A t \in Ids : t # Len(timers) + 1 /\ t \in Work
  <1>1. Len(timers) \in Nat
    BY DEF TypeOK
  <1>2. /\ \A w \in Work : w # Len(timers) + 1
        /\ \A t \in Ids : t # Len(timers) + 1 /\ t \in Work
        /\ Task \notin Ids
    BY <1>1 DEF Work, Ids, Task
  <1>3. now \in Int
    BY NowInRange
  <1>4. \A t \in Installed : due[t] \in Int /\ t \in Ids
    BY DueTypes DEF Deadlines
  <1> QED  BY <1>2, <1>3, <1>4 DEF TypeOK

\* What such a step leaves of a pair.
LEMMA PairKept ==
    ASSUME TypeOK, ScheduleStep, now' \in Int, NEW f, NEW w \in Work, NEW t \in Ids, PairFits(f, w, t),
           NEW g, g.handled = f.handled, g.boundary = f.boundary
    PROVE  PairFits(g, w, t)'
  <1>1. w \notin DOMAIN making' /\ t \notin DOMAIN making'
    BY ScheduleKinds DEF ScheduleStep, PairFits
  <1>2. ASSUME t \in Installed'
        PROVE  /\ t \in Installed /\ due'[t] = due[t] /\ due[t] < now'
               /\ w \in Installed' => due[t] < due'[w]
               /\ w \notin f.handled => due[t] <= f.boundary /\ t \notin f.handled
    <2>1. t \in Installed /\ due'[t] = due[t]
      BY <1>2 DEF ScheduleStep, PairFits
    <2>2. due[t] < now'
      BY <2>1, ScheduleKinds DEF ScheduleStep, PairFits
    <2>3. w \in Installed' => w \in Installed /\ due'[w] = due[w]
      BY DEF ScheduleStep, PairFits
    <2> QED  BY <2>1, <2>2, <2>3 DEF PairFits
  <1> QED  BY <1>1, <1>2 DEF PairFits

LEMMA QuietPass ==
    ASSUME PassInv, ScheduleStep, TypeOK'
    PROVE  /\ ClaimsFit'
           /\ PassKept => PassesFit'
  <1>1. TypeOK /\ HeldNow /\ ClaimsFit /\ PassesFit
    BY DEF PassInv, HeldInv, SleepInv
  <1>2. now' \in Int /\ now \in Int
    BY <1>1, NowInRange, ScheduleKinds DEF TypeOK, Times
  <1>3. ClaimsFit'
    <2>1. ASSUME NEW t \in DOMAIN making' PROVE timers'[t].last = NotYet
      BY <1>1, <2>1 DEF ScheduleStep, ClaimsFit, TypeOK
    <2>2. ASSUME NEW t \in Installed', timers'[t].last # NotYet
          PROVE  timers'[t].repeats /\ due'[t] = After(timers'[t].last, timers'[t].interval)
      <3>1. t \in Ids
        BY <1>1, <2>2 DEF ScheduleStep, TypeOK
      <3>2. timers'[t].last = timers[t].last
        BY <3>1 DEF ScheduleStep
      <3>3. t \in Installed
        BY <1>1, <2>2, <3>2 DEF ScheduleStep, ClaimsFit
      <3> QED  BY <1>1, <2>2, <3>1, <3>3 DEF ScheduleStep, ClaimsFit
    <2> QED  BY <2>1, <2>2 DEF ClaimsFit
  <1>4. ASSUME PassKept PROVE PassesFit'
    <2>1. ASSUME NEW i \in DOMAIN stack'
          PROVE  PassFits(stack[i])'
      <3>1. CASE i \in DOMAIN stack /\ SamePass(stack'[i], stack[i])
        <4>1. PassFits(stack[i]) /\ stack[i].boundary \in Times
          BY <1>1, <3>1, FrameKinds DEF PassesFit
        <4>2. stack'[i].boundary <= now'
          BY <1>2, <3>1, <4>1 DEF PassFits, SamePass, ScheduleStep, Times
        <4>3. ASSUME NEW p \in stack'[i].passed
              PROVE  PairFits(stack[i], p[1], p[2])'
          <5>1. p \in stack[i].passed
            BY <3>1, <4>3 DEF SamePass
          <5>2. p[1] \in Work /\ p[2] \in Ids /\ PairFits(stack[i], p[1], p[2])
            BY <1>1, <3>1, <4>1, <5>1, FrameKinds DEF PassFits
          <5>3. PICK f, g, w, t : f = stack[i] /\ g = stack'[i] /\ w = p[1] /\ t = p[2]
            OBVIOUS
          <5>4. PairFits(g, w, t)'
            BY <1>1, <1>2, <3>1, <5>2, <5>3, PairKept DEF SamePass
          <5> QED  BY <5>3, <5>4 DEF PairFits
        <4> QED  BY <4>2, <4>3 DEF PassFits
      <3>2. CASE stack'[i].boundary = now /\ stack'[i].passed = {}
        BY <3>2 DEF PassFits, ScheduleStep
      <3> QED  BY <1>4, <2>1, <3>1, <3>2 DEF PassKept
    <2> QED  BY <2>1 DEF PassesFit
  <1> QED  BY <1>3, <1>4

LEMMA TopChanges ==
    ASSUME TypeOK, stack # <<>>, NEW f, Becomes(f)
    PROVE  /\ Len(stack) \in DOMAIN stack /\ DOMAIN stack' = DOMAIN stack /\ Top = stack[Len(stack)]
           /\ \A i \in DOMAIN stack : stack'[i] = IF i = Len(stack) THEN f ELSE stack[i]
           /\ SamePass(f, Top) => PassKept
  <1>1. stack \in Seq(Frames \union {f}) /\ f \in Frames \union {f}
    BY DEF TypeOK
  <1>2. /\ Len(stack) \in DOMAIN stack /\ DOMAIN stack' = DOMAIN stack
        /\ \A i \in DOMAIN stack : stack'[i] = IF i = Len(stack) THEN f ELSE stack[i]
    BY <1>1, ReplaceLast DEF Becomes
  <1>3. Top = stack[Len(stack)]
    BY DEF Top
  <1> QED  BY <1>2, <1>3 DEF PassKept, SamePass

LEMMA PopPasses ==
    ASSUME TypeOK, stack # <<>>, Pop
    PROVE  PassKept
  <1>1. PICK rest : rest = stack'
    OBVIOUS
  <1>2. rest = SubSeq(stack, 1, Len(stack) - 1) /\ stack \in Seq(Frames)
    BY <1>1 DEF Pop, TypeOK
  <1>3. \A i \in DOMAIN rest : i \in DOMAIN stack /\ rest[i] = stack[i]
    BY <1>2, DropLast
  <1> QED  BY <1>1, <1>3 DEF PassKept, SamePass

LEMMA SamePasses == UNCHANGED stack => PassKept
  BY DEF PassKept, SamePass

\* Where a running call stands, and the work it has in hand, are not its pass.
LEMMA PlaceIsNotPass ==
    ASSUME TypeOK, stack # <<>>
    PROVE  \A phase : /\ SamePass([Top EXCEPT !.phase = phase], Top)
                      /\ \A until : SamePass([Top EXCEPT !.phase = phase, !.until = until], Top)
                      /\ \A work : SamePass([Top EXCEPT !.phase = phase, !.work = work], Top)
                      /\ \A work, queued : SamePass([Top EXCEPT !.phase = phase, !.work = work,
                                                                !.queued = queued], Top)
  BY TopTypes DEF SamePass, Frames

LEMMA NotifyPasses ==
    ASSUME TypeOK, Notify
    PROVE  PassKept
  <1>1. CASE At("waiting")
    <2>1. stack # <<>> /\ Becomes([Top EXCEPT !.phase = "woken"])
      BY <1>1 DEF Notify, At
    <2> QED  BY <2>1, PlaceIsNotPass, TopChanges
  <1>2. CASE ~At("waiting")
    BY <1>2, SamePasses DEF Notify
  <1> QED  BY <1>1, <1>2

LEMMA BeginPasses ==
    ASSUME TypeOK, BeginCall
    PROVE  PassKept
  <1>1. PICK call, deadline : Begin(call, deadline)
    BY DEF BeginCall
  <1>2. PICK f : stack' = Append(stack, f) /\ f.boundary = now /\ f.passed = {}
    <2>1. PICK f : Begun(f, call)
      BY <1>1, BeginFrame
    <2> QED  BY <2>1 DEF Begun
  <1>3. stack \in Seq(Frames)
    BY DEF TypeOK
  <1>4. \A i \in DOMAIN stack' : (i \in DOMAIN stack /\ stack'[i] = stack[i]) \/ stack'[i] = f
    BY <1>2, <1>3
  <1> QED  BY <1>2, <1>4 DEF PassKept, SamePass

\* The running calls but where they take a timer, or a fresh pass.
LEMMA GoesOnPasses ==
    ASSUME TypeOK, \/ Test \/ LookQuit \/ LookGiveUp \/ LookWait \/ WakeUp \/ Spurious
                   \/ PendingFired \/ PendingTake \/ PendingEnd \/ Return \/ Throw
    PROVE  PassKept
  <1>1. stack # <<>>
    BY DEF Test, LookQuit, LookGiveUp, LookWait, WakeUp, Spurious, PendingFired, PendingTake, PendingEnd,
           Return, Throw, NothingToDo, Looking, At
  <1>2. Pop => PassKept
    BY <1>1, PopPasses
  <1>3. \A phase : /\ Becomes([Top EXCEPT !.phase = phase]) => PassKept
                   /\ \A until : Becomes([Top EXCEPT !.phase = phase, !.until = until]) => PassKept
                   /\ \A work : Becomes([Top EXCEPT !.phase = phase, !.work = work]) => PassKept
                   /\ \A work, queued :
                        Becomes([Top EXCEPT !.phase = phase, !.work = work, !.queued = queued]) => PassKept
    BY <1>1, PlaceIsNotPass, TopChanges
  <1>4. CASE Test \/ LookQuit \/ LookGiveUp \/ PendingFired \/ PendingEnd \/ Throw \/ Spurious
    BY <1>2, <1>3, <1>4 DEF Test, LookQuit, LookGiveUp, PendingFired, PendingEnd, Throw, Spurious
  <1>5. CASE WakeUp \/ LookWait
    BY <1>3, <1>5 DEF WakeUp, LookWait
  <1>6. CASE PendingTake
    BY <1>3, <1>6 DEF PendingTake
  <1>7. CASE Return
    <2>1. Pop \/ \E phase \in {"drain", "due", "test"} : Becomes([Top EXCEPT !.phase = phase, !.work = Task])
      BY <1>7 DEF Return
    <2> QED  BY <1>2, <1>3, <2>1
  <1> QED  BY <1>4, <1>5, <1>6, <1>7

\* Marking timers invalid leaves their claims.
LEMMA InvalidKeeps ==
    ASSUME TypeOK, NEW ids, timers' = Invalid(ids)
    PROVE  \A t \in Ids : /\ timers'[t].last = timers[t].last
                          /\ timers'[t].interval = timers[t].interval
                          /\ timers'[t].repeats = timers[t].repeats
  <1> SUFFICES ASSUME NEW t \in Ids
               PROVE  /\ timers'[t].last = timers[t].last /\ timers'[t].interval = timers[t].interval
                      /\ timers'[t].repeats = timers[t].repeats
    OBVIOUS
  <1>1. timers[t] \in Timers
    BY TimerTypes
  <1>2. PICK v \in BOOLEAN : v = (timers[t].valid /\ t \notin ids)
    OBVIOUS
  <1>3. timers'[t] = [timers[t] EXCEPT !.valid = v]
    BY <1>2, Zenon DEF Invalid
  <1> QED  BY <1>1, <1>3 DEF Timers

LEMMA SameSchedule ==
    ASSUME TypeOK, UNCHANGED <<now, due, making, timers>>
    PROVE  ScheduleStep
  <1>1. Installed' = Installed /\ now <= now
    BY ScheduleKinds DEF Installed
  <1> QED  BY <1>1 DEF ScheduleStep

\* What the other calls do to timers: none but a new one is installed anew.
LEMMA CallsSchedule ==
    ASSUME TypeOK, HeldNow,
           \/ Tick \/ Finish \/ (\E repeats \in BOOLEAN, interval \in Intervals : MakeTimer(repeats, interval))
           \/ \E id \in Ids : Invalidate(id) \/ CallNext(id)
    PROVE  ScheduleStep
  <1>1. now <= now /\ Installed \intersect DOMAIN making = {}
    BY ScheduleKinds DEF HeldNow, Held
  <1>2. CASE Tick
    <2>1. now <= now' /\ UNCHANGED <<due, making, timers>> /\ Installed' = Installed
      BY <1>2, ScheduleKinds DEF Tick, timerVars, Installed
    <2> QED  BY <2>1 DEF ScheduleStep
  <1>3. CASE Finish
    <2>1. UNCHANGED <<now, making, timers>> /\ Installed' = {}
      BY <1>3 DEF Finish, Installed, Empty
    <2> QED  BY <1>1, <2>1 DEF ScheduleStep
  <1>4. CASE \E repeats \in BOOLEAN, interval \in Intervals : MakeTimer(repeats, interval)
    <2>1. PICK repeats \in BOOLEAN, interval \in Intervals : MakeTimer(repeats, interval)
      BY <1>4
    <2>2. PICK new : timers' = Append(timers, new) /\ new.last = NotYet
      BY <2>1 DEF MakeTimer
    <2>3. timers \in Seq(Timers)
      BY DEF TypeOK
    <2>4. timers'[Len(timers) + 1] = new /\ \A t \in Ids : timers'[t] = timers[t]
      BY <2>2, <2>3 DEF Ids
    <2>5. /\ UNCHANGED <<now, due>> /\ Installed' = Installed
          /\ DOMAIN making' = DOMAIN making \union {Len(timers) + 1}
      BY <2>1 DEF MakeTimer, Install, Installed
    <2> QED  BY <1>1, <2>2, <2>4, <2>5 DEF ScheduleStep
  <1>5. ASSUME NEW id \in Ids, Invalidate(id) \/ FinishMark(id)
        PROVE  ScheduleStep
    <2>1. UNCHANGED <<now, due, making>> /\ Installed' = Installed /\ timers' = Invalid({id})
      BY <1>5 DEF Invalidate, FinishMark, Installed
    <2>2. \A t \in Ids : /\ timers'[t].last = timers[t].last
                         /\ timers'[t].interval = timers[t].interval
                         /\ timers'[t].repeats = timers[t].repeats
      BY <2>1, InvalidKeeps
    <2> QED  BY <1>1, <2>1, <2>2 DEF ScheduleStep
  <1>6. ASSUME NEW id \in Ids, RemoveTimer(id)
        PROVE  ScheduleStep
    <2>1. UNCHANGED <<now, timers, making>> /\ due' = Without(due, {id})
      BY <1>6 DEF RemoveTimer
    <2>2. Installed' \subseteq Installed /\ \A t \in Installed' : due'[t] = due[t]
      BY <2>1 DEF Without, Installed
    <2> QED  BY <1>1, <2>1, <2>2 DEF ScheduleStep
  <1>7. ASSUME NEW id \in Ids, InstallTimer(id)
        PROVE  ScheduleStep
    <2>1. UNCHANGED now /\ id \in DOMAIN making /\ DOMAIN making' \subseteq DOMAIN making /\ id \notin Installed
      BY <1>1, <1>7 DEF InstallTimer, Without
    <2>2. CASE finished
      <3>1. UNCHANGED due /\ Installed' = Installed /\ timers' = Invalid({id})
        BY <1>7, <2>2 DEF InstallTimer, Installed
      <3>2. \A t \in Ids : /\ timers'[t].last = timers[t].last
                           /\ timers'[t].interval = timers[t].interval
                           /\ timers'[t].repeats = timers[t].repeats
        BY <3>1, InvalidKeeps
      <3> QED  BY <1>1, <2>1, <3>1, <3>2 DEF ScheduleStep
    <2>3. CASE ~finished
      <3>1. UNCHANGED timers /\ due' = Install(due, id, making[id])
        BY <1>7, <2>3 DEF InstallTimer
      <3>2. Installed' = Installed \union {id} /\ \A t \in Installed : due'[t] = due[t]
        BY <2>1, <3>1 DEF Install, Installed
      <3> QED  BY <1>1, <2>1, <3>1, <3>2 DEF ScheduleStep
    <2> QED  BY <2>2, <2>3
  <1> QED  BY <1>2, <1>3, <1>4, <1>5, <1>6, <1>7 DEF CallNext

-----------------------------------------------------------------------------
(* Steps that take a timer or a task, or begin a pass.                     *)

\* A fresh pass is for every timer that is overdue.
LEMMA FreshFits ==
    ASSUME PassInv, UNCHANGED <<now, due, making, timers>>, stack # <<>>, NEW f, Becomes(f),
           Installed # {} => f.boundary = now /\ f.handled = {},
           Installed = {} => f.boundary \in {now, Top.boundary},
           f.passed \subseteq Top.passed \union ({Task} \X Overdue)
    PROVE  PassesFit'
  <1>1. TypeOK /\ HeldNow /\ PassesFit
    BY DEF PassInv, HeldInv, SleepInv
  <1>2. /\ Len(stack) \in DOMAIN stack /\ DOMAIN stack' = DOMAIN stack /\ Top = stack[Len(stack)]
        /\ \A i \in DOMAIN stack : stack'[i] = IF i = Len(stack) THEN f ELSE stack[i]
    BY <1>1, TopChanges
  <1>3. \A g : PassFits(g)' = PassFits(g)
    BY DEF PassFits, PairFits, Installed
  <1>4. now \in Int /\ (\A t \in Installed : due[t] \in Int) /\ Task \notin DOMAIN making /\ Task \notin Installed
    BY <1>1, ScheduleKinds
  <1>5. PassFits(Top)
    BY <1>1, <1>2 DEF PassesFit
  <1>6. ASSUME NEW p \in f.passed
        PROVE  PairFits(f, p[1], p[2])
    <2>1. CASE p \in Top.passed
      <3>1. PairFits(Top, p[1], p[2])
        BY <1>5, <2>1 DEF PassFits
      <3> QED  BY <1>4, <3>1 DEF PairFits
    <2>2. CASE p \in {Task} \X Overdue
      <3>1. PICK t \in Overdue : p[1] = Task /\ p[2] = t
        BY <2>2
      <3>2. t \in Installed /\ due[t] < now /\ t \notin DOMAIN making
        BY <1>1, <3>1 DEF Overdue, HeldNow, Held
      <3>3. PairFits(f, Task, t)
        BY <1>4, <3>2 DEF PairFits
      <3> QED  BY <3>1, <3>3
    <2> QED  BY <2>1, <2>2
  <1>7. f.boundary <= now
    BY <1>4, <1>5 DEF PassFits
  <1>8. PassFits(f)
    BY <1>6, <1>7 DEF PassFits
  <1>9. \A i \in DOMAIN stack' : PassFits(stack'[i])
    BY <1>1, <1>2, <1>8 DEF PassesFit
  <1>10. PassesFit' <=> \A i \in DOMAIN stack' : PassFits(stack[i])'
    BY DEF PassesFit
  <1>11. ASSUME NEW i \in DOMAIN stack' PROVE PassFits(stack[i])'
    <2>1. PICK g : g = stack'[i]
      OBVIOUS
    <2>2. PassFits(g)'
      BY <1>3, <1>9, <2>1
    <2> QED  BY <2>1, <2>2 DEF PassFits, PairFits
  <1> QED  BY <1>10, <1>11

LEMMA TakePasses ==
    ASSUME PassInv, Enter \/ LookTake \/ LookRefresh
    PROVE  PassesFit' /\ UNCHANGED <<now, due, making, timers>>
  <1>1. /\ TypeOK /\ stack # <<>> /\ UNCHANGED <<now, due, making, timers>>
    BY DEF Enter, LookTake, LookRefresh, Looking, At, timerVars, PassInv, HeldInv, SleepInv
  <1>2. Top \in Frames
    BY <1>1, TopTypes
  <1>3. CASE Enter \/ LookRefresh
    <2>1. PICK p, f : /\ f = [Top EXCEPT !.phase = p, !.boundary = now, !.handled = {}]
                      /\ Becomes(f)
      BY <1>3 DEF Enter, LookRefresh
    <2>2. Becomes(f)
      BY <2>1
    <2>3. f.boundary = now /\ f.handled = {} /\ f.passed = Top.passed
      BY <1>2, <2>1 DEF Frames
    <2> QED  BY <1>1, <2>2, <2>3, FreshFits
  <1>4. CASE LookTake
    <2>1. PICK g : g = FreshPass(Top)
      OBVIOUS
    <2>2. g = IF Installed = {} THEN Top ELSE [Top EXCEPT !.boundary = now, !.handled = {}]
      BY <2>1 DEF FreshPass
    <2>3. PICK q : q = g.passed \union ({Task} \X Overdue)
      OBVIOUS
    <2>4. PICK f : f = [g EXCEPT !.phase = "work", !.work = Task, !.passed = q]
      OBVIOUS
    <2>5. Becomes(f)
      BY <1>4, <2>1, <2>3, <2>4 DEF LookTake
    <2>6. /\ g \in Frames /\ g.passed = Top.passed
          /\ Installed # {} => g.boundary = now /\ g.handled = {}
          /\ Installed = {} => g.boundary = Top.boundary
      <3>1. g \in Frames
        BY <1>1, <1>2, <2>2, FrameTypes DEF TypeOK
      <3> QED  BY <1>2, <2>2, <3>1 DEF Frames
    <2>7. f.boundary = g.boundary /\ f.handled = g.handled /\ f.passed = q
      BY <2>4, <2>6 DEF Frames
    <2>8. /\ Installed # {} => f.boundary = now /\ f.handled = {}
          /\ Installed = {} => f.boundary = Top.boundary
          /\ f.passed \subseteq Top.passed \union ({Task} \X Overdue)
      BY <2>3, <2>6, <2>7
    <2> QED  BY <1>1, <2>5, <2>8, FreshFits
  <1> QED  BY <1>1, <1>3, <1>4

\* A claim, in each of the running calls.
LEMMA FirePasses ==
    ASSUME TypeOK, NEW id, NEW over, NEW out, Fire(id, over, out), NEW i \in DOMAIN stack
    PROVE  /\ DOMAIN stack' = DOMAIN stack
           /\ stack'[i].boundary = stack[i].boundary
           /\ stack'[i].handled = IF i < Len(stack) THEN stack[i].handled ELSE stack[i].handled \union {id}
           /\ \A p \in stack'[i].passed :
                \/ p \in stack[i].passed /\ p[2] # id
                \/ ~(i < Len(stack)) /\ p \in {id} \X over
  <1>1. PICK f, fired, q, r, h, b :
          /\ f = stack[i] /\ fired = {p \in f.passed : p[2] = id} /\ r = f.passed \ fired
          /\ q = r \union ({id} \X over) /\ h = f.handled \union {id} /\ b = f.barred \union out
    OBVIOUS
  <1>2. f \in Frames
    BY <1>1, FrameKinds
  <1>3. stack'[i] = IF i < Len(stack) THEN [f EXCEPT !.passed = r]
                    ELSE [f EXCEPT !.phase = "work", !.work = id, !.handled = h, !.passed = q, !.barred = b]
    BY <1>1 DEF Fire, Handled
  <1>4. DOMAIN stack' = DOMAIN stack
    <2>1. stack' = [j \in DOMAIN stack |-> stack'[j]]
      BY DEF Fire
    <2> QED  BY <2>1
  <1>5. /\ stack'[i].boundary = f.boundary
        /\ stack'[i].handled = IF i < Len(stack) THEN f.handled ELSE h
        /\ stack'[i].passed = IF i < Len(stack) THEN r ELSE q
    BY <1>2, <1>3 DEF Frames
  <1> QED  BY <1>1, <1>4, <1>5

\* take_due_timer() looks from the same clock as the pass or later, and puts off the
\* timer it claims past all that are overdue.
LEMMA FireFits ==
    ASSUME PassInv, NEW id \in Ids, LookFire(id) \/ PendingFire(id)
    PROVE  ClaimsFit' /\ PassesFit'
  <1>1. TypeOK /\ HeldNow /\ ClaimsFit /\ PassesFit
    BY DEF PassInv, HeldInv, SleepInv
  <1>2. PICK over, out : over \in SUBSET (Overdue \ {id}) /\ Fire(id, over, out)
    BY DEF LookFire, PendingFire
  <1>3. id \in Installed
    BY <1>1, FiresAnInstalled
  <1>4. /\ now \in 0..Limit /\ (\A t \in Installed : due[t] \in Int /\ t \in Ids) /\ now' = now
        /\ DOMAIN making' = DOMAIN making /\ id \notin DOMAIN making /\ DOMAIN making \subseteq Ids
    BY <1>1, <1>2, <1>3, NowInRange, ScheduleKinds DEF Fire, HeldNow, Held
  <1>5. PICK after : after = After(now, timers[id].interval)
    OBVIOUS
  <1>6. after \in now..Limit
    BY <1>1, <1>3, <1>4, <1>5, TimerTypes, IntervalIsInt, AfterBounds
  <1>7. /\ Installed' = IF timers[id].repeats THEN Installed ELSE Installed \ {id}
        /\ \A t \in Installed' \ {id} : due'[t] = due[t]
        /\ id \in Installed' => due'[id] = after
    <2>1. due' = IF timers[id].repeats THEN [due EXCEPT ![id] = after] ELSE Without(due, {id})
      BY <1>2, <1>5 DEF Fire, Claimed
    <2> QED  BY <1>1, <1>3, <2>1 DEF TypeOK, Installed, Without
  <1>8. /\ timers'[id].last = now /\ timers'[id].interval = timers[id].interval
        /\ timers'[id].repeats = timers[id].repeats
        /\ \A t \in Ids \ {id} : timers'[t] = timers[t]
    <2>1. timers \in Seq(Timers) /\ timers' = [timers EXCEPT ![id].last = now]
      BY <1>1, <1>2 DEF Fire, TypeOK
    <2>2. timers[id] \in Timers /\ id \in DOMAIN timers
      BY <1>1, <2>1 DEF Ids
    <2>3. timers'[id] = [timers[id] EXCEPT !.last = now] /\ \A t \in Ids \ {id} : timers'[t] = timers[t]
      BY <2>1, <2>2 DEF Ids
    <2> QED  BY <2>2, <2>3 DEF Timers
  <1>9. ClaimsFit'
    <2>1. \A t \in DOMAIN making' : timers'[t].last = NotYet
      BY <1>1, <1>4, <1>8 DEF ClaimsFit
    <2>2. \A t \in Installed' : timers'[t].last # NotYet =>
            timers'[t].repeats /\ due'[t] = After(timers'[t].last, timers'[t].interval)
      <3>1. ASSUME id \in Installed'
            PROVE  timers'[id].repeats /\ due'[id] = After(timers'[id].last, timers'[id].interval)
        BY <1>5, <1>7, <1>8, <3>1
      <3>2. ASSUME NEW t \in Installed' \ {id}, timers'[t].last # NotYet
            PROVE  timers'[t].repeats /\ due'[t] = After(timers'[t].last, timers'[t].interval)
        <4>1. t \in Installed /\ timers'[t] = timers[t] /\ due'[t] = due[t]
          BY <1>4, <1>7, <1>8, <3>2
        <4> QED  BY <1>1, <3>2, <4>1 DEF ClaimsFit
      <3> QED  BY <3>1, <3>2
    <2> QED  BY <2>1, <2>2 DEF ClaimsFit
  <1>10. ASSUME NEW i \in DOMAIN stack'
         PROVE  PassFits(stack[i])'
    <2>1. /\ i \in DOMAIN stack /\ stack'[i].boundary = stack[i].boundary
          /\ stack'[i].handled = IF i < Len(stack) THEN stack[i].handled ELSE stack[i].handled \union {id}
          /\ \A p \in stack'[i].passed :
                \/ p \in stack[i].passed /\ p[2] # id
                \/ ~(i < Len(stack)) /\ p \in {id} \X over
      <3>1. DOMAIN stack' = DOMAIN stack
        <4>1. stack' = [j \in DOMAIN stack |-> stack'[j]]
          BY <1>2 DEF Fire
        <4> QED  BY <4>1
      <3> QED  BY <1>1, <1>2, <1>10, <3>1, FirePasses
    <2>2. PassFits(stack[i])
      BY <1>1, <2>1 DEF PassesFit
    <2>3. ASSUME NEW p \in stack'[i].passed
          PROVE  PairFits(stack[i], p[1], p[2])'
      <3>1. PICK w, t : w = p[1] /\ t = p[2]
        OBVIOUS
      <3>2. CASE p \in stack[i].passed /\ p[2] # id
        <4>1. PairFits(stack[i], w, t) /\ t # id
          BY <2>2, <3>1, <3>2 DEF PassFits
        <4>2. ASSUME t \in Installed'
              PROVE  /\ due'[t] < now'
                     /\ w \in Installed' => due'[t] < due'[w]
                     /\ w \notin stack'[i].handled => due'[t] <= stack'[i].boundary /\ t \notin stack'[i].handled
          <5>1. t \in Installed /\ due'[t] = due[t] /\ due[t] < now
            BY <1>7, <4>1, <4>2 DEF PairFits
          <5>2. w \in Installed' => due[t] < due'[w]
            <6>1. CASE w = id
              BY <1>4, <1>6, <1>7, <5>1, <6>1
            <6>2. CASE w # id
              BY <1>7, <4>1, <5>1, <6>2 DEF PairFits
            <6> QED  BY <6>1, <6>2
          <5> QED  BY <1>4, <2>1, <4>1, <5>1, <5>2 DEF PairFits
        <4>3. w \notin DOMAIN making' /\ t \notin DOMAIN making'
          BY <1>4, <4>1 DEF PairFits
        <4>4. PairFits(stack[i], w, t)'
          BY <4>2, <4>3 DEF PairFits
        <4> QED  BY <3>1, <4>4 DEF PairFits
      <3>3. CASE ~(i < Len(stack)) /\ p \in {id} \X over
        <4>1. w = id /\ t \in Installed /\ t # id /\ due[t] < now /\ t \notin DOMAIN making
          BY <1>1, <1>2, <3>1, <3>3 DEF Overdue, HeldNow, Held
        <4>2. id \in stack'[i].handled
          BY <2>1, <3>3
        <4>3. t \in Installed' /\ due'[t] = due[t] /\ (id \in Installed' => due[t] < due'[id])
          BY <1>4, <1>6, <1>7, <4>1
        <4>4. PairFits(stack[i], w, t)'
          BY <1>4, <4>1, <4>2, <4>3 DEF PairFits
        <4> QED  BY <3>1, <4>4 DEF PairFits
      <3> QED  BY <2>1, <3>2, <3>3
    <2> QED  BY <1>4, <2>1, <2>2, <2>3 DEF PassFits
  <1> QED  BY <1>9, <1>10 DEF PassesFit

-----------------------------------------------------------------------------
(* The invariant holds.                                                    *)

LEMMA PassInit == Init => PassInv
  <1> SUFFICES ASSUME Init PROVE PassInv
    OBVIOUS
  <1>1. SleepInv
    BY TypeInit DEF Init, SleepInv, OnlyTopLooks, NotAsleepOnWork, At
  <1>2. Installed = {} /\ DOMAIN making = {} /\ Valid = {} /\ Firing = {} /\ DOMAIN stack = {}
    BY DEF Init, Empty, Installed, Valid, Ids, Firing
  <1>3. HeldInv
    BY <1>1, <1>2 DEF Init, HeldInv, HeldNow, Held, EndedWell
  <1> QED  BY <1>2, <1>3 DEF PassInv, ClaimsFit, PassesFit

\* Every step keeps PassInv.
LEMMA PassStep == PassInv /\ [Next]_vars => PassInv'
  <1> SUFFICES ASSUME PassInv, [Next]_vars PROVE ClaimsFit' /\ PassesFit'
    BY HeldStep DEF PassInv
  <1>1. TypeOK /\ HeldNow /\ TypeOK'
    BY TypeStep DEF PassInv, HeldInv, SleepInv
  <1>2. ASSUME ScheduleStep, PassKept
        PROVE  ClaimsFit' /\ PassesFit'
    BY <1>1, <1>2, QuietPass
  <1>3. ASSUME UNCHANGED <<now, timerVars>>, PassKept
        PROVE  ClaimsFit' /\ PassesFit'
    BY <1>1, <1>2, <1>3, SameSchedule DEF timerVars
  <1>4. CASE Enqueue \/ Quit
    <2>1. UNCHANGED <<now, timerVars>> /\ Notify
      BY <1>4 DEF Enqueue, Quit
    <2> QED  BY <1>1, <1>3, <2>1, NotifyPasses
  <1>5. CASE Clear \/ UNCHANGED vars
    <2>1. UNCHANGED <<now, timerVars>> /\ UNCHANGED stack
      BY <1>5 DEF Clear, vars, timerVars
    <2> QED  BY <1>3, <2>1, SamePasses
  <1>6. CASE BeginCall
    <2>1. UNCHANGED <<now, timerVars>>
      BY <1>6 DEF BeginCall, Begin
    <2> QED  BY <1>1, <1>3, <1>6, <2>1, BeginPasses
  <1>7. CASE \/ Test \/ LookQuit \/ LookGiveUp \/ LookWait \/ WakeUp \/ Spurious
             \/ PendingFired \/ PendingTake \/ PendingEnd
    <2>1. UNCHANGED <<now, timerVars>>
      BY <1>7 DEF Test, LookQuit, LookGiveUp, LookWait, WakeUp, Spurious, PendingFired, PendingTake,
                  PendingEnd
    <2> QED  BY <1>1, <1>3, <1>7, <2>1, GoesOnPasses
  <1>8. CASE Return \/ Throw
    <2>1. UNCHANGED <<now, due, making>> /\ timers' = WorkOver
      BY <1>8 DEF Return, Throw
    <2>2. timers' = timers \/ timers' = Invalid({Top.work})
      BY <2>1 DEF WorkOver
    <2>3. \A t \in Ids : /\ timers'[t].last = timers[t].last
                         /\ timers'[t].interval = timers[t].interval
                         /\ timers'[t].repeats = timers[t].repeats
      BY <1>1, <2>2, InvalidKeeps
    <2>4. now <= now' /\ Installed' = Installed
      BY <1>1, <2>1, ScheduleKinds DEF Installed
    <2>5. ScheduleStep
      BY <2>1, <2>3, <2>4 DEF ScheduleStep
    <2> QED  BY <1>1, <1>2, <1>8, <2>5, GoesOnPasses
  <1>9. CASE Enter \/ LookTake \/ LookRefresh
    <2>1. PassesFit' /\ ScheduleStep
      BY <1>1, <1>9, TakePasses, SameSchedule
    <2> QED  BY <1>1, <2>1, QuietPass
  <1>10. CASE \E id \in Ids : LookFire(id) \/ PendingFire(id)
    BY <1>10, FireFits
  <1>11. CASE \/ Tick \/ Finish \/ (\E repeats \in BOOLEAN, interval \in Intervals : MakeTimer(repeats, interval))
              \/ \E id \in Ids : Invalidate(id) \/ CallNext(id)
    <2>1. ScheduleStep
      BY <1>1, <1>11, CallsSchedule
    <2>2. UNCHANGED stack \/ Notify
      BY <1>11 DEF Tick, Finish, MakeTimer, Invalidate, CallNext, InstallTimer, RemoveTimer, FinishMark
    <2> QED  BY <1>1, <1>2, <2>1, <2>2, SamePasses, NotifyPasses
  <1>12. CASE LoopNext
    BY <1>7, <1>8, <1>9, <1>10, <1>12 DEF LoopNext
  <1>13. CASE AnyoneNext
    BY <1>4, <1>5, <1>11, <1>13 DEF AnyoneNext
  <1> QED  BY <1>5, <1>6, <1>7, <1>8, <1>11, <1>12, <1>13 DEF Next

-----------------------------------------------------------------------------
(* What a step that takes work does.                                       *)

\* Only next() and run_pending() take work: a task, or the fire of the timer it is
\* named after.
LEMMA TakesWhat ==
    ASSUME TypeOK, OnlyTopLooks, [Next]_vars, NEW work, Takes(work)
    PROVE  \/ work = Task /\ (LookTake \/ PendingTake)
           \/ work \in Ids /\ (LookFire(work) \/ PendingFire(work))
  <1>1. /\ stack # <<>> /\ Top.phase \in LockedPhases /\ Top = stack[Len(stack)]
        /\ Len(stack') = Len(stack) /\ stack'[Len(stack)].phase = "work" /\ stack'[Len(stack)].work = work
        /\ Top \in Frames /\ Len(stack) \in Nat
    BY TopTypes DEF Takes, Locked, Top, TypeOK
  <1>2. Top.phase # "work" /\ Top.phase # "waiting" /\ Top.phase # "woken"
    BY <1>1 DEF LockedPhases
  <1>3. ~UNCHANGED stack /\ ~Pop
    <2>1. ~UNCHANGED stack
      BY <1>1, <1>2
    <2>2. Pop => Len(stack') = Len(stack) - 1
      <3>1. PICK rest : rest = stack'
        OBVIOUS
      <3>2. Pop => rest = SubSeq(stack, 1, Len(stack) - 1)
        BY <3>1 DEF Pop
      <3>3. stack \in Seq(Frames)
        BY DEF TypeOK
      <3> QED  BY <1>1, <3>1, <3>2, <3>3, DropLast
    <2> QED  BY <1>1, <2>1, <2>2
  <1>4. ASSUME NEW f, Becomes(f)
        PROVE  f.phase = "work" /\ f.work = work
    <2>1. Len(stack') = Len(stack) /\ Top' = f
      BY <1>1, <1>4, BecomesFacts
    <2> QED  BY <1>1, <2>1 DEF Top
  <1>5. /\ \A p : Becomes([Top EXCEPT !.phase = p]) => p = "work"
        /\ \A p, u : Becomes([Top EXCEPT !.phase = p, !.until = u]) => p = "work"
        /\ \A p, b, h : Becomes([Top EXCEPT !.phase = p, !.boundary = b, !.handled = h]) => p = "work"
    <2>1. /\ \A p : [Top EXCEPT !.phase = p].phase = p
          /\ \A p, u : [Top EXCEPT !.phase = p, !.until = u].phase = p
          /\ \A p, b, h : [Top EXCEPT !.phase = p, !.boundary = b, !.handled = h].phase = p
      BY <1>1 DEF Frames
    <2>2. ASSUME NEW p, Becomes([Top EXCEPT !.phase = p]) PROVE p = "work"
      BY <1>4, <2>1, <2>2
    <2>3. ASSUME NEW p, NEW u, Becomes([Top EXCEPT !.phase = p, !.until = u]) PROVE p = "work"
      BY <1>4, <2>1, <2>3
    <2>4. ASSUME NEW p, NEW b, NEW h, Becomes([Top EXCEPT !.phase = p, !.boundary = b, !.handled = h])
          PROVE  p = "work"
      <3>1. PICK f : f = [Top EXCEPT !.phase = p, !.boundary = b, !.handled = h]
        OBVIOUS
      <3>2. f.phase = p
        BY <2>1, <3>1
      <3> QED  BY <1>4, <2>4, <3>1, <3>2
    <2> QED  BY <2>2, <2>3, <2>4
  <1>6. ~(\/ Enqueue \/ Quit \/ Clear \/ Tick \/ Finish \/ BeginCall \/ Throw \/ Return \/ UNCHANGED vars
          \/ (\E repeats \in BOOLEAN, interval \in Intervals : MakeTimer(repeats, interval))
          \/ \E id \in Ids : Invalidate(id) \/ CallNext(id))
    <2>1. ~(Enqueue \/ Quit)
      BY DEF Takes, Enqueue, Quit
    <2>2. ~(Clear \/ Tick \/ Finish \/ UNCHANGED vars)
      BY <1>1, <1>3 DEF Clear, Tick, Finish, vars
    <2>3. ~(BeginCall \/ Throw \/ Return)
      BY <1>1, <1>2 DEF BeginCall, Begin, Throw, Return, At
    <2>4. ~(\E repeats \in BOOLEAN, interval \in Intervals : MakeTimer(repeats, interval))
      BY <1>3 DEF MakeTimer
    <2>5. ~(\E id \in Ids : Invalidate(id) \/ CallNext(id))
      BY <1>3 DEF Takes, Invalidate, CallNext, InstallTimer, RemoveTimer, FinishMark
    <2> QED  BY <2>1, <2>2, <2>3, <2>4, <2>5
  <1>7. ~(\/ Enter \/ Test \/ LookQuit \/ LookRefresh \/ LookGiveUp \/ LookWait \/ WakeUp \/ Spurious
          \/ PendingFired \/ PendingEnd)
    <2>1. ~(LookQuit \/ LookGiveUp \/ PendingEnd)
      BY <1>3 DEF LookQuit, LookGiveUp, PendingEnd
    <2>2. ~(Enter \/ Test \/ PendingFired \/ LookRefresh \/ Spurious)
      BY <1>3, <1>5 DEF Enter, Test, PendingFired, LookRefresh, Spurious
    <2>3. ~(LookWait \/ WakeUp)
      BY <1>5 DEF LookWait, WakeUp
    <2> QED  BY <2>1, <2>2, <2>3
  <1>8. ASSUME NEW id \in Ids, LookFire(id) \/ PendingFire(id)
        PROVE  work = id
    <2>1. PICK over, out : Fire(id, over, out)
      BY <1>8, FiresAnInstalled
    <2>2. stack'[Len(stack)].work = id
      <3>1. Len(stack) \in DOMAIN stack /\ ~(Len(stack) < Len(stack))
        BY <1>1 DEF TypeOK
      <3> QED  BY <1>1, <2>1, <3>1, FireFacts
    <2> QED  BY <1>1, <2>2
  <1>9. ASSUME LookTake \/ PendingTake
        PROVE  work = Task
    <2>1. CASE PendingTake
      <3>1. PICK f : f = [Top EXCEPT !.phase = "work", !.work = Task, !.queued = @ \ {Head(pending)}]
        OBVIOUS
      <3>2. Becomes(f) /\ f.work = Task
        BY <1>1, <2>1, <3>1 DEF PendingTake, Frames
      <3> QED  BY <1>4, <3>2
    <2>2. CASE LookTake
      <3>1. PICK g : g = FreshPass(Top)
        OBVIOUS
      <3>2. g \in Frames
        BY <1>1, <3>1, FrameTypes DEF FreshPass, TypeOK
      <3>3. PICK q : q = g.passed \union ({Task} \X Overdue)
        OBVIOUS
      <3>4. PICK f : f = [g EXCEPT !.phase = "work", !.work = Task, !.passed = q]
        OBVIOUS
      <3>5. Becomes(f) /\ f.work = Task
        BY <2>2, <3>1, <3>2, <3>3, <3>4 DEF LookTake, Frames
      <3> QED  BY <1>4, <3>5
    <2> QED  BY <1>9, <2>1, <2>2
  <1> QED  BY <1>6, <1>7, <1>8, <1>9 DEF Next, LoopNext, AnyoneNext

\* A timer whose deadline has come before the clock's limit has had its interval.
LEMMA AfterReaches ==
    ASSUME NEW base \in 0..Limit, NEW timeout \in Int, NEW m \in Int, m < Limit, After(base, timeout) <= m
    PROVE  m >= base + timeout * TicksPerMs
  <1>1. base \in Nat /\ TicksPerMs \in Nat \ {0} /\ Limit \in Int
    BY ClockAssumption DEF Limit
  <1>2. CASE timeout <= 0
    <2>1. PICK k \in Nat : timeout = 0 - k
      BY <1>2
    <2>2. timeout * TicksPerMs = 0 - k * TicksPerMs /\ k * TicksPerMs \in Nat
      BY <1>1, <2>1
    <2>3. After(base, timeout) = base
      BY <1>2 DEF After
    <2> QED  BY <1>1, <2>2, <2>3
  <1>3. CASE timeout > 0 /\ timeout < (Limit - base) \div TicksPerMs
    <2>1. After(base, timeout) = base + timeout * TicksPerMs
      BY <1>3 DEF After
    <2> QED  BY <2>1
  <1>4. CASE timeout > 0 /\ ~(timeout < (Limit - base) \div TicksPerMs)
    <2>1. After(base, timeout) = Limit
      BY <1>4 DEF After
    <2> QED  BY <1>1, <2>1
  <1> QED  BY <1>2, <1>3, <1>4

-----------------------------------------------------------------------------
(* Theorems.                                                               *)

\* A timer is claimed by a running call only once its interval is over since it was
\* claimed before, and a one-shot only once.  deadline::after() clamps a deadline
\* past the clock's end to its limit, so this is of a clock that has not come there.
THEOREM TimersDoNotCatchUp ==
    ASSUME MaxTime < Limit
    PROVE  Spec => NoCatchingUp
  <1>1. ASSUME PassInv, [Next]_vars
        PROVE  \A t \in Ids : Takes(t) /\ timers[t].last # NotYet =>
                 timers[t].repeats /\ now >= timers[t].last + timers[t].interval * TicksPerMs
    <2> SUFFICES ASSUME NEW t \in Ids, Takes(t), timers[t].last # NotYet
                 PROVE  timers[t].repeats /\ now >= timers[t].last + timers[t].interval * TicksPerMs
      OBVIOUS
    <2>1. TypeOK /\ OnlyTopLooks /\ ClaimsFit /\ PassesFit
      BY <1>1 DEF PassInv, HeldInv, SleepInv
    <2>2. LookFire(t) \/ PendingFire(t)
      BY <1>1, <2>1, TakesWhat, ScheduleKinds
    <2>3. stack # <<>> /\ t \in Installed /\ due[t] <= Top.boundary
      BY <2>2 DEF LookFire, PendingFire, Looking, At, Claimable, Candidates, Installed
    <2>4. Top.boundary <= now /\ Top.boundary \in Int /\ now \in Times
      <3>1. Len(stack) \in DOMAIN stack /\ Top = stack[Len(stack)] /\ Top \in Frames
        BY <2>1, <2>3, TopTypes DEF Top, TypeOK
      <3> QED  BY <2>1, <3>1 DEF PassesFit, PassFits, Frames, Times, TypeOK
    <2>5. /\ timers[t].repeats /\ due[t] = After(timers[t].last, timers[t].interval)
          /\ due[t] \in Int
      BY <2>1, <2>3, ScheduleKinds DEF ClaimsFit
    <2>6. timers[t].last \in 0..Limit /\ timers[t].interval \in Int /\ now \in Int /\ now < Limit
      <3>1. timers[t].last \in Times \union {NotYet}
        BY <2>1, TimerTypes DEF Timers
      <3>2. timers[t].last \in Times
        BY <3>1
      <3> QED  BY <2>1, <2>4, <3>2, TimerTypes, IntervalIsInt, LoopBoundsAssumption, ClockAssumption
                DEF Times, Limit
    <2>7. PICK last, interval, n : last = timers[t].last /\ interval = timers[t].interval /\ n = now
      OBVIOUS
    <2>8. After(last, interval) <= n
      BY <2>3, <2>4, <2>5, <2>6, <2>7
    <2>9. n >= last + interval * TicksPerMs
      BY <2>6, <2>7, <2>8, AfterReaches
    <2> QED  BY <2>5, <2>7, <2>9
  <1> QED  BY <1>1, PassInit, PassStep, PTL DEF Spec, NoCatchingUp

\* No running call takes a task, or a timer's fire, a second time while a timer waits
\* that was overdue at the first: the pass, and where a claim puts a timer, see to it.
THEOREM PassesStarveNone == Spec => NoneOvertakenTwice
  <1>1. ASSUME PassInv, [Next]_vars
        PROVE  \A work \in Work, t \in Overdue :
                 Looking /\ Takes(work) /\ work # t => <<work, t>> \notin Top.passed
    <2> SUFFICES ASSUME NEW work \in Work, NEW t \in Overdue, Looking, Takes(work), work # t,
                        <<work, t>> \in Top.passed
                 PROVE  FALSE
      OBVIOUS
    <2>1. TypeOK /\ OnlyTopLooks /\ PassesFit
      BY <1>1 DEF PassInv, HeldInv, SleepInv
    <2>2. stack # <<>> /\ Top.phase \in {"look", "looked"}
      BY DEF Looking, At
    <2>3. PairFits(Top, work, t) /\ Top.handled \subseteq Ids
      <3>1. Len(stack) \in DOMAIN stack /\ Top = stack[Len(stack)]
        BY <2>1, <2>2 DEF Top, TypeOK
      <3>2. PassFits(Top) /\ Top.handled \subseteq Ids
        BY <2>1, <3>1, FrameKinds DEF PassesFit
      <3>3. PICK p : p = <<work, t>>
        OBVIOUS
      <3>4. p[1] = work /\ p[2] = t /\ p \in Top.passed
        BY <3>3
      <3>5. PairFits(Top, p[1], p[2])
        BY <3>2, <3>4 DEF PassFits
      <3> QED  BY <3>2, <3>4, <3>5
    <2>4. t \in Installed /\ due[t] \in Int
      BY <2>1, ScheduleKinds DEF Overdue
    <2>5. work \notin Top.handled => t \in Candidates(due, Top.boundary, Top.handled)
      BY <2>3, <2>4 DEF PairFits, Candidates, Installed
    <2>6. CASE work = Task
      <3>1. LookTake
        BY <1>1, <2>1, <2>2, <2>6, TakesWhat, ScheduleKinds DEF PendingTake, At
      <3>2. NoneDue /\ work \notin Top.handled
        BY <2>1, <2>3, <2>6, <3>1, ScheduleKinds DEF LookTake
      <3> QED  BY <2>5, <3>2 DEF NoneDue
    <2>7. CASE work # Task
      <3>1. work \in Ids /\ LookFire(work)
        BY <1>1, <2>1, <2>2, <2>7, TakesWhat DEF PendingFire, At
      <3>2. /\ work \in Installed /\ work \notin Top.handled
            /\ \A u \in Candidates(due, Top.boundary, Top.handled) : due[work] <= due[u]
        BY <3>1 DEF LookFire, Claimable, Candidates, Installed
      <3>3. due[work] <= due[t] /\ due[t] < due[work] /\ due[work] \in Int
        BY <2>1, <2>3, <2>4, <2>5, <3>2, ScheduleKinds DEF PairFits
      <3> QED  BY <2>4, <3>3
    <2> QED  BY <2>6, <2>7
  <1> QED  BY <1>1, PassInit, PassStep, PTL DEF Spec, NoneOvertakenTwice

-----------------------------------------------------------------------------
(* What run_pending() finds.                                               *)

Ordered == \A i, j \in DOMAIN pending : i < j => pending[i] < pending[j]

\* A frame of run_pending() and of no other call stands in its phases.
PlaceFits(f) ==
    /\ f.phase \in {"due", "drain"} => f.call = "run_pending"
    /\ f.call = "run_pending" => f.phase \in {"due", "drain", "work"}

\* What of the queue is below a call's limit was there as it began, and is not taken
\* yet; what it may not fire it has handled, or is due after its boundary; and what
\* was made since is not due before it.
DrainFits(f) ==
    /\ f.boundary \in Int /\ f.boundary <= now
    /\ f.limit \in Nat /\ f.limit <= nextSequence
    /\ \A s \in Queued : s < f.limit => s \in f.queued
    /\ \A t \in f.barred : /\ t \in Ids /\ t \notin DOMAIN making
                           /\ t \in Installed => t \in f.handled \/ f.boundary < due[t]
    /\ f.known \in Nat
    /\ \A t \in Installed : t > f.known => f.boundary <= due[t]
    /\ \A t \in DOMAIN making : t > f.known => f.boundary <= making[t]

Fits(f) == PlaceFits(f) /\ (f.call = "run_pending" => DrainFits(f))

FramesFit == \A i \in DOMAIN stack : Fits(stack[i])
FramesFitNow == \A i \in DOMAIN stack' : Fits(stack'[i])

DrainInv == PassInv /\ Ordered /\ FramesFit

\* What a step may do to the queue and the schedule: a task comes last, a claim puts
\* a timer that was due off, to the claim's time or later.
DueStep ==
    /\ now <= now' /\ nextSequence <= nextSequence' /\ Len(timers) <= Len(timers')
    /\ \A s \in Queued' : s \in Queued \/ s >= nextSequence
    /\ \A t \in Installed' :
         \/ t \in Installed /\ due'[t] = due[t]
         \/ t \in Installed /\ due[t] <= now /\ now <= due'[t]
         \/ t \in DOMAIN making /\ due'[t] = making[t]
    /\ \A t \in DOMAIN making' :
         \/ t \in DOMAIN making /\ making'[t] = making[t]
         \/ t = Len(timers) + 1 /\ now <= making'[t]

\* What is stored, as numbers.
Kinds ==
    /\ now \in Int /\ nextSequence \in Nat /\ Len(timers) \in Nat
    /\ Queued \subseteq Nat /\ (\A s \in Queued : s < nextSequence)
    /\ \A t \in Installed : t \in Nat /\ due[t] \in Int
    /\ \A t \in DOMAIN making : t \in Nat /\ making[t] \in Int

LEMMA DrainKinds == TypeOK => Kinds
  <1> SUFFICES ASSUME TypeOK PROVE Kinds
    OBVIOUS
  <1>1. now \in Int /\ nextSequence \in Nat /\ Len(timers) \in Nat
    BY NowInRange DEF TypeOK
  <1>2. Queued \subseteq Nat /\ (\A s \in Queued : s < nextSequence)
    BY <1>1 DEF Queued, TypeOK
  <1>3. ASSUME NEW t \in Installed PROVE t \in Nat /\ due[t] \in Int
    BY <1>1, DueTypes DEF Ids, Deadlines
  <1>4. ASSUME NEW t \in DOMAIN making PROVE t \in Nat /\ making[t] \in Int
    <2>1. t \in Ids /\ making[t] \in 0..Limit
      BY DEF TypeOK
    <2> QED  BY <1>1, <2>1 DEF Ids, Limit
  <1> QED  BY <1>1, <1>2, <1>3, <1>4 DEF Kinds

LEMMA DrainKindsNext == (TypeOK => Kinds)'
  BY DrainKinds, PTL

\* Such a step leaves a frame fitting.
LEMMA FitsKept ==
    ASSUME TypeOK, TypeOK', DueStep, NEW f, Fits(f)
    PROVE  Fits(f)'
  <1> SUFFICES ASSUME DrainFits(f) PROVE DrainFits(f)'
    BY DEF Fits, PlaceFits
  <1>1. /\ now \in Int /\ now' \in Int /\ nextSequence \in Nat /\ nextSequence' \in Nat
        /\ Len(timers) \in Nat /\ Len(timers') \in Nat /\ Queued' \subseteq Nat
        /\ \A t \in Installed : due[t] \in Int
        /\ \A t \in Installed' : t \in Nat /\ due'[t] \in Int
        /\ \A t \in DOMAIN making : making[t] \in Int
        /\ \A t \in DOMAIN making' : t \in Nat /\ making'[t] \in Int
    BY DrainKinds, DrainKindsNext DEF Kinds
  <1>2. /\ f.boundary \in Int /\ f.boundary <= now /\ f.limit \in Nat /\ f.limit <= nextSequence
        /\ f.known \in Nat
    BY DEF DrainFits
  <1>3. f.boundary <= now' /\ f.limit <= nextSequence'
    BY <1>1, <1>2 DEF DueStep
  <1>4. ASSUME NEW s \in Queued', s < f.limit PROVE s \in f.queued
    <2>1. s \in Queued
      BY <1>1, <1>2, <1>4 DEF DueStep
    <2> QED  BY <1>4, <2>1 DEF DrainFits
  <1>5. ASSUME NEW t \in f.barred
        PROVE  /\ t \in Ids' /\ t \notin DOMAIN making'
               /\ t \in Installed' => t \in f.handled \/ f.boundary < due'[t]
    <2>1. t \in Ids /\ t \notin DOMAIN making /\ (t \in Installed => t \in f.handled \/ f.boundary < due[t])
      BY DEF DrainFits
    <2>2. t \in Ids' /\ t # Len(timers) + 1
      BY <1>1, <2>1 DEF Ids, DueStep
    <2>3. ASSUME t \in Installed', t \notin f.handled PROVE f.boundary < due'[t]
      <3>1. t \in Installed /\ (due'[t] = due[t] \/ (due[t] <= now /\ now <= due'[t]))
        BY <2>1, <2>3 DEF DueStep
      <3> QED  BY <1>1, <1>2, <2>1, <2>3, <3>1
    <2> QED  BY <2>1, <2>2, <2>3 DEF DueStep
  <1>6. ASSUME NEW t \in Installed', t > f.known PROVE f.boundary <= due'[t]
    BY <1>1, <1>2, <1>6 DEF DueStep, DrainFits
  <1>7. ASSUME NEW t \in DOMAIN making', t > f.known PROVE f.boundary <= making'[t]
    BY <1>1, <1>2, <1>7 DEF DueStep, DrainFits
  <1> QED  BY <1>2, <1>3, <1>4, <1>5, <1>6, <1>7 DEF DrainFits

\* The frames fit what the step finds, and so what it leaves.
LEMMA FramesKept ==
    ASSUME TypeOK, TypeOK', DueStep, FramesFitNow
    PROVE  FramesFit'
  <1> SUFFICES ASSUME NEW i \in DOMAIN stack' PROVE Fits(stack[i])'
    BY DEF FramesFit
  <1>1. PICK f : f = stack'[i]
    OBVIOUS
  <1>2. Fits(f)'
    BY <1>1, FitsKept DEF FramesFitNow
  <1> QED  BY <1>1, <1>2 DEF Fits, PlaceFits, DrainFits

\* Taking the first of the queue leaves the rest in order, and itself gone.
LEMMA TailOrdered ==
    ASSUME NEW s \in Seq(Nat), s # <<>>, \A i, j \in DOMAIN s : i < j => s[i] < s[j]
    PROVE  /\ \A i, j \in DOMAIN Tail(s) : i < j => Tail(s)[i] < Tail(s)[j]
           /\ {Tail(s)[i] : i \in DOMAIN Tail(s)} \subseteq {s[i] : i \in DOMAIN s} \ {Head(s)}
           /\ Head(s) \in {s[i] : i \in DOMAIN s}
  <1>1. /\ Len(s) \in Nat \ {0} /\ DOMAIN s = 1..Len(s) /\ DOMAIN Tail(s) = 1..(Len(s) - 1)
        /\ Head(s) = s[1] /\ \A i \in DOMAIN Tail(s) : Tail(s)[i] = s[i + 1]
    OBVIOUS
  <1>2. \A i \in DOMAIN Tail(s) : i + 1 \in DOMAIN s /\ 1 \in DOMAIN s /\ 1 < i + 1 /\ i \in Nat
    BY <1>1
  <1>3. \A i, j \in DOMAIN Tail(s) : i < j => Tail(s)[i] < Tail(s)[j]
    BY <1>1, <1>2
  <1>4. \A i \in DOMAIN Tail(s) : Tail(s)[i] # Head(s) /\ Tail(s)[i] \in {s[k] : k \in DOMAIN s}
    BY <1>1, <1>2
  <1> QED  BY <1>1, <1>3, <1>4

\* The queue stays in the order of its numbers.
LEMMA OrderStep == TypeOK /\ Ordered /\ [Next]_vars => Ordered'
  <1> SUFFICES ASSUME TypeOK, Ordered, [Next]_vars PROVE Ordered'
    OBVIOUS
  <1>1. pending \in Seq(0..(nextSequence - 1)) /\ nextSequence \in Nat
    BY DEF TypeOK
  <1>2. CASE UNCHANGED pending
    BY <1>2 DEF Ordered
  <1>3. CASE pending' = <<>>
    BY <1>3 DEF Ordered
  <1>4. CASE pending' = Tail(pending) /\ pending # <<>>
    <2>1. pending \in Seq(Nat)
      BY <1>1
    <2> QED  BY <1>4, <2>1, TailOrdered DEF Ordered
  <1>5. CASE pending' = Append(pending, nextSequence)
    <2>1. /\ DOMAIN pending' = 1..(Len(pending) + 1) /\ pending'[Len(pending) + 1] = nextSequence
          /\ \A i \in 1..Len(pending) : pending'[i] = pending[i] /\ pending[i] < nextSequence
          /\ Len(pending) \in Nat /\ DOMAIN pending = 1..Len(pending)
      BY <1>1, <1>5
    <2> QED  BY <2>1 DEF Ordered
  <1>6. CASE Enqueue \/ Clear \/ Finish
    BY <1>3, <1>5, <1>6 DEF Enqueue, Clear, Finish
  <1>7. CASE LookTake \/ PendingTake
    BY <1>4, <1>7 DEF LookTake, PendingTake, QueuedByLimit
  <1>8. CASE \/ Tick \/ Spurious \/ BeginCall \/ Throw \/ Quit \/ UNCHANGED vars
             \/ (\E repeats \in BOOLEAN, interval \in Intervals : MakeTimer(repeats, interval))
             \/ \E id \in Ids : Invalidate(id) \/ CallNext(id)
    BY <1>2, <1>8 DEF Tick, Spurious, BeginCall, Begin, Throw, Quit, MakeTimer, Invalidate, CallNext,
                      InstallTimer, RemoveTimer, FinishMark, vars
  <1>9. CASE \/ Enter \/ Test \/ LookQuit \/ LookRefresh \/ LookGiveUp \/ LookWait \/ WakeUp
             \/ PendingFired \/ PendingEnd \/ Return \/ \E id \in Ids : LookFire(id) \/ PendingFire(id)
    BY <1>2, <1>9 DEF Enter, Test, LookQuit, LookRefresh, LookGiveUp, LookWait, WakeUp, PendingFired,
                      PendingEnd, Return, LookFire, PendingFire, Fire
  <1> QED  BY <1>6, <1>7, <1>8, <1>9 DEF Next, AnyoneNext, LoopNext

\* Steps that leave the schedule and queue nothing.
LEMMA SameDue ==
    ASSUME TypeOK, UNCHANGED <<now, nextSequence, due, making>>, Len(timers') = Len(timers),
           Queued' \subseteq Queued
    PROVE  DueStep
  <1>1. now <= now' /\ nextSequence <= nextSequence' /\ Len(timers) <= Len(timers')
    BY DrainKinds DEF Kinds
  <1>2. Installed' = Installed
    BY DEF Installed
  <1> QED  BY <1>1, <1>2 DEF DueStep

\* What the calls of any thread do to the queue and the schedule.
LEMMA CallsDue ==
    ASSUME TypeOK,
           \/ Enqueue \/ Quit \/ Clear \/ Tick \/ Finish
           \/ (\E repeats \in BOOLEAN, interval \in Intervals : MakeTimer(repeats, interval))
           \/ \E id \in Ids : Invalidate(id) \/ CallNext(id)
    PROVE  DueStep
  <1>1. /\ now \in Int /\ nextSequence \in Nat /\ Len(timers) \in Nat
        /\ now <= now /\ nextSequence <= nextSequence /\ Len(timers) <= Len(timers)
        /\ pending \in Seq(0..(nextSequence - 1))
    BY DrainKinds DEF Kinds, TypeOK
  <1>2. CASE Enqueue
    <2>1. /\ pending' = Append(pending, nextSequence) /\ nextSequence' = nextSequence + 1
          /\ UNCHANGED <<now, due, making, timers>> /\ Installed' = Installed
      BY <1>2 DEF Enqueue, timerVars, Installed
    <2>2. \A s \in Queued' : s \in Queued \/ s = nextSequence
      BY <1>1, <2>1 DEF Queued
    <2> QED  BY <1>1, <2>1, <2>2 DEF DueStep
  <1>3. CASE Quit \/ Clear
    <2>1. UNCHANGED <<now, nextSequence, due, making, timers>> /\ Queued' \subseteq Queued
      BY <1>3 DEF Quit, Clear, timerVars, Queued
    <2> QED  BY <2>1, SameDue
  <1>4. CASE Tick
    <2>1. /\ UNCHANGED <<nextSequence, due, making, timers>> /\ Installed' = Installed
          /\ Queued' = Queued /\ now <= now'
      BY <1>1, <1>4 DEF Tick, timerVars, Queued, Installed
    <2> QED  BY <1>1, <2>1 DEF DueStep
  <1>5. CASE Finish
    <2>1. UNCHANGED <<now, nextSequence, making, timers>> /\ Installed' = {} /\ Queued' = {}
      BY <1>5 DEF Finish, Installed, Empty, Queued
    <2> QED  BY <1>1, <2>1 DEF DueStep
  <1>6. CASE \E repeats \in BOOLEAN, interval \in Intervals : MakeTimer(repeats, interval)
    <2>1. PICK repeats \in BOOLEAN, interval \in Intervals : MakeTimer(repeats, interval)
      BY <1>6
    <2>2. After(now, interval) \in now..Limit /\ Limit \in Int
      BY NowInRange, AfterBounds, IntervalIsInt, ClockAssumption DEF Limit
    <2>3. PICK after, id : after = After(now, interval) /\ id = Len(timers) + 1
      OBVIOUS
    <2>4. now <= after
      BY <1>1, <2>2, <2>3
    <2>5. PICK new : timers' = Append(timers, new)
      BY <2>1 DEF MakeTimer
    <2>6. timers \in Seq(Timers)
      BY DEF TypeOK
    <2>7. Len(timers') = Len(timers) + 1
      BY <2>5, <2>6
    <2>8. making' = Install(making, id, after) /\ UNCHANGED <<now, pending, nextSequence, due>>
      BY <2>1, <2>3 DEF MakeTimer
    <2>9. \A t \in DOMAIN making' : (t \in DOMAIN making /\ making'[t] = making[t])
                                      \/ (t = id /\ making'[t] = after)
      BY <2>8 DEF Install
    <2>10. Installed' = Installed /\ Queued' = Queued
      BY <2>8 DEF Installed, Queued
    <2> QED  BY <1>1, <2>3, <2>4, <2>7, <2>8, <2>9, <2>10 DEF DueStep
  <1>7. ASSUME NEW id \in Ids, Invalidate(id) \/ FinishMark(id) \/ RemoveTimer(id) \/ InstallTimer(id)
        PROVE  DueStep
    <2>1. /\ UNCHANGED <<now, pending, nextSequence>> /\ Queued' = Queued
          /\ timers' = timers \/ timers' = Invalid({id})
      BY <1>7 DEF Invalidate, FinishMark, RemoveTimer, InstallTimer, Queued
    <2>2. Len(timers') = Len(timers)
      BY <2>1, InvalidFacts
    <2>3. /\ \A t \in Installed' : \/ t \in Installed /\ due'[t] = due[t]
                                   \/ t \in DOMAIN making /\ due'[t] = making[t]
          /\ \A t \in DOMAIN making' : t \in DOMAIN making /\ making'[t] = making[t]
      <3>1. CASE Invalidate(id) \/ FinishMark(id)
        BY <3>1 DEF Invalidate, FinishMark, Installed
      <3>2. CASE RemoveTimer(id)
        BY <3>2 DEF RemoveTimer, Without, Installed
      <3>3. CASE InstallTimer(id)
        BY <3>3 DEF InstallTimer, Install, Without, Installed
      <3> QED  BY <1>7, <3>1, <3>2, <3>3
    <2> QED  BY <1>1, <2>1, <2>2, <2>3 DEF DueStep
  <1> QED  BY <1>2, <1>3, <1>4, <1>5, <1>6, <1>7 DEF CallNext

\* What of a frame says what the call found and may take.
SameFound(f, g) ==
    /\ f.call = g.call /\ f.boundary = g.boundary /\ f.handled = g.handled /\ f.limit = g.limit
    /\ f.queued = g.queued /\ f.barred = g.barred /\ f.known = g.known

LEMMA BecomesFits ==
    ASSUME TypeOK, FramesFit, stack # <<>>, NEW f, Becomes(f), PlaceFits(f),
           f.call = "run_pending" => SameFound(f, Top)
    PROVE  FramesFitNow
  <1>1. /\ Len(stack) \in DOMAIN stack /\ DOMAIN stack' = DOMAIN stack /\ Top = stack[Len(stack)]
        /\ \A i \in DOMAIN stack : stack'[i] = IF i = Len(stack) THEN f ELSE stack[i]
    BY TopChanges
  <1>2. Fits(Top)
    BY <1>1 DEF FramesFit
  <1>3. Fits(f)
    BY <1>2 DEF Fits, DrainFits, SameFound
  <1> QED  BY <1>1, <1>3 DEF FramesFit, FramesFitNow

LEMMA PopFits ==
    ASSUME TypeOK, FramesFit, stack # <<>>, Pop
    PROVE  FramesFitNow
  <1>1. PICK rest : rest = stack'
    OBVIOUS
  <1>2. rest = SubSeq(stack, 1, Len(stack) - 1) /\ stack \in Seq(Frames)
    BY <1>1 DEF Pop, TypeOK
  <1>3. \A i \in DOMAIN rest : i \in DOMAIN stack /\ rest[i] = stack[i]
    BY <1>2, DropLast
  <1> QED  BY <1>1, <1>3 DEF FramesFit, FramesFitNow

\* The innermost call's frame fits.
LEMMA TopFits ==
    ASSUME TypeOK, FramesFit, stack # <<>>
    PROVE  Fits(Top) /\ Top \in Frames
  <1>1. Len(stack) \in DOMAIN stack
    BY DEF TypeOK
  <1> QED  BY <1>1, TopTypes DEF FramesFit, Top

LEMMA NotifyFits ==
    ASSUME TypeOK, FramesFit, Notify
    PROVE  FramesFitNow
  <1>1. CASE At("waiting")
    <2>1. stack # <<>> /\ Top.phase = "waiting"
      BY <1>1 DEF At
    <2>2. PICK f : f = [Top EXCEPT !.phase = "woken"]
      OBVIOUS
    <2>3. Becomes(f) /\ f.phase = "woken" /\ SameFound(f, Top) /\ PlaceFits(Top)
      BY <1>1, <2>1, <2>2, TopFits DEF Notify, Fits, SameFound, Frames
    <2>4. PlaceFits(f)
      BY <2>1, <2>3 DEF PlaceFits, SameFound
    <2> QED  BY <2>1, <2>3, <2>4, BecomesFits
  <1>2. CASE ~At("waiting")
    BY <1>2 DEF Notify, FramesFit, FramesFitNow
  <1> QED  BY <1>1, <1>2

\* run_pending() begins with what the loop holds.
LEMMA BeginFits ==
    ASSUME TypeOK, HeldNow, FramesFit, BeginCall
    PROVE  FramesFitNow
  <1>1. PICK call, deadline : Begin(call, deadline)
    BY DEF BeginCall
  <1>2. PICK f : Begun(f, call)
    BY <1>1, BeginFrame
  <1>3. \A i \in DOMAIN stack' : (i \in DOMAIN stack /\ stack'[i] = stack[i]) \/ stack'[i] = f
    <2>1. stack \in Seq(Frames) /\ stack' = Append(stack, f)
      BY <1>2 DEF TypeOK, Begun
    <2> QED  BY <2>1
  <1>4. PlaceFits(f)
    BY <1>2 DEF Begun, PlaceFits, FirstPhase
  <1>5. ASSUME call = "run_pending" PROVE DrainFits(f)
    <2>1. /\ f.boundary = now /\ f.limit = nextSequence /\ f.queued = Queued
          /\ f.barred = {t \in Installed : due[t] > now} /\ f.known = Len(timers)
      BY <1>2, <1>5 DEF Begun, Finds
    <2>2. \A t \in Installed \union DOMAIN making : t \in Ids /\ ~(t > Len(timers))
      BY DEF TypeOK, Ids
    <2>3. \A t \in Installed : t \notin DOMAIN making
      BY DEF HeldNow, Held
    <2> QED  BY <2>1, <2>2, <2>3, DrainKinds DEF Kinds, DrainFits
  <1>6. Fits(f)
    BY <1>2, <1>4, <1>5 DEF Fits, Begun
  <1> QED  BY <1>3, <1>6 DEF FramesFit, FramesFitNow

\* The running calls but where they take a timer, or run_pending() a task.
LEMMA GoesOnFits ==
    ASSUME TypeOK, FramesFit,
           \/ Enter \/ Test \/ LookQuit \/ LookTake \/ LookRefresh \/ LookGiveUp \/ LookWait
           \/ WakeUp \/ Spurious \/ PendingFired \/ PendingEnd \/ Return \/ Throw
    PROVE  FramesFitNow
  <1>1. stack # <<>>
    BY DEF Enter, Test, LookQuit, LookTake, LookRefresh, LookGiveUp, LookWait, WakeUp, Spurious,
           PendingFired, PendingEnd, Return, Throw, NothingToDo, Looking, At
  <1>2. Top \in Frames /\ PlaceFits(Top)
    BY <1>1, TopFits DEF Fits
  <1>3. Pop => FramesFitNow
    BY <1>1, PopFits
  <1>4. ASSUME NEW f, Becomes(f), f.call = Top.call, PlaceFits(f), f.call = "run_pending" => SameFound(f, Top)
        PROVE  FramesFitNow
    BY <1>1, <1>4, BecomesFits
  <1>5. CASE LookQuit \/ LookGiveUp \/ PendingEnd \/ Throw
    BY <1>3, <1>5 DEF LookQuit, LookGiveUp, PendingEnd, Throw
  <1>6. CASE Enter \/ LookRefresh
    <2>1. PICK p, f : /\ f = [Top EXCEPT !.phase = p, !.boundary = now, !.handled = {}] /\ Becomes(f)
                      /\ p \in {"test", "looked"} /\ Top.phase \in {"begun", "look"}
      BY <1>6 DEF Enter, LookRefresh, At
    <2>2. f.phase = p /\ f.call = Top.call
      BY <1>2, <2>1 DEF Frames
    <2>3. f.call # "run_pending" /\ PlaceFits(f)
      BY <1>2, <2>1, <2>2 DEF PlaceFits
    <2> QED  BY <1>4, <2>1, <2>2, <2>3
  <1>7. CASE Test \/ Spurious \/ PendingFired
    <2>1. Pop \/ \E p : /\ Becomes([Top EXCEPT !.phase = p])
                        /\ \/ p \in {"look", "woken"} /\ Top.phase \in {"test", "waiting"}
                           \/ p = "drain" /\ Top.phase = "due"
      BY <1>7 DEF Test, Spurious, PendingFired, At
    <2>2. ASSUME NEW p, Becomes([Top EXCEPT !.phase = p]),
                 \/ p \in {"look", "woken"} /\ Top.phase \in {"test", "waiting"}
                 \/ p = "drain" /\ Top.phase = "due"
          PROVE  FramesFitNow
      <3>1. PICK f : f = [Top EXCEPT !.phase = p]
        OBVIOUS
      <3>2. f.phase = p /\ SameFound(f, Top) /\ Becomes(f)
        BY <1>2, <2>2, <3>1 DEF SameFound, Frames
      <3>3. PlaceFits(f) /\ f.call = Top.call
        BY <1>2, <2>2, <3>2 DEF PlaceFits, SameFound
      <3> QED  BY <1>4, <3>2, <3>3
    <2> QED  BY <1>3, <2>1, <2>2
  <1>8. CASE LookWait \/ WakeUp
    <2>1. PICK p, u : /\ Becomes([Top EXCEPT !.phase = p, !.until = u]) /\ p \in {"look", "waiting"}
                      /\ Top.phase \in {"look", "looked", "waiting", "woken"}
      BY <1>8 DEF LookWait, WakeUp, NothingToDo, Looking, At
    <2>2. PICK f : f = [Top EXCEPT !.phase = p, !.until = u]
      OBVIOUS
    <2>3. f.phase = p /\ SameFound(f, Top) /\ Becomes(f)
      BY <1>2, <2>1, <2>2 DEF SameFound, Frames
    <2>4. PlaceFits(f) /\ f.call = Top.call
      BY <1>2, <2>1, <2>3 DEF PlaceFits, SameFound
    <2> QED  BY <1>4, <2>3, <2>4
  <1>9. CASE Return
    <2>1. Pop \/ \E p : /\ Becomes([Top EXCEPT !.phase = p, !.work = Task])
                        /\ IF Top.call = "run_pending" THEN p \in {"due", "drain"} ELSE p = "test"
      BY <1>9 DEF Return
    <2>2. ASSUME NEW p, Becomes([Top EXCEPT !.phase = p, !.work = Task]),
                 IF Top.call = "run_pending" THEN p \in {"due", "drain"} ELSE p = "test"
          PROVE  FramesFitNow
      <3>1. PICK f : f = [Top EXCEPT !.phase = p, !.work = Task]
        OBVIOUS
      <3>2. f.phase = p /\ SameFound(f, Top) /\ Becomes(f)
        BY <1>2, <2>2, <3>1 DEF SameFound, Frames
      <3>3. PlaceFits(f) /\ f.call = Top.call
        BY <2>2, <3>2 DEF PlaceFits, SameFound
      <3> QED  BY <1>4, <3>2, <3>3
    <2> QED  BY <1>3, <2>1, <2>2
  <1>10. CASE LookTake
    <2>1. PICK g : g = FreshPass(Top)
      OBVIOUS
    <2>2. g \in Frames /\ g.call = Top.call
      <3>1. g = IF Installed = {} THEN Top ELSE [Top EXCEPT !.boundary = now, !.handled = {}]
        BY <2>1 DEF FreshPass
      <3>2. g \in Frames
        BY <1>2, <3>1, FrameTypes DEF TypeOK
      <3> QED  BY <1>2, <3>1, <3>2 DEF Frames
    <2>3. PICK q : q = g.passed \union ({Task} \X Overdue)
      OBVIOUS
    <2>4. PICK f : f = [g EXCEPT !.phase = "work", !.work = Task, !.passed = q]
      OBVIOUS
    <2>5. Becomes(f) /\ f.phase = "work" /\ f.call = Top.call
      BY <1>10, <2>1, <2>2, <2>3, <2>4 DEF LookTake, Frames
    <2>6. Top.call # "run_pending"
      BY <1>2, <1>10 DEF LookTake, Looking, At, PlaceFits
    <2> QED  BY <1>4, <2>5, <2>6 DEF PlaceFits
  <1> QED  BY <1>5, <1>6, <1>7, <1>8, <1>9, <1>10

\* A fire by run_pending() is one more it may not do again; the fires of other calls
\* change nothing of what it found.
LEMMA FireFound ==
    ASSUME TypeOK, FramesFit, NEW id \in Ids, LookFire(id) \/ PendingFire(id), id \notin DOMAIN making
    PROVE  FramesFitNow
  <1>1. stack # <<>> /\ Top \in Frames /\ Fits(Top)
    BY TopFits, FiresAnInstalled
  <1>2. PICK over, out : /\ Fire(id, over, out)
                         /\ \/ out = {} /\ Top.phase \in {"look", "looked"}
                            \/ out = {id} /\ Top.phase = "due"
    BY DEF LookFire, PendingFire, Looking, At
  <1>3. Len(stack) \in DOMAIN stack /\ Top = stack[Len(stack)] /\ DOMAIN stack' = DOMAIN stack
        /\ \A i \in DOMAIN stack : ~(i < Len(stack)) => i = Len(stack)
    <2>1. stack' = [i \in DOMAIN stack |-> stack'[i]]
      BY <1>2 DEF Fire
    <2> QED  BY <1>1, <2>1 DEF TypeOK, Top
  <1>4. ASSUME NEW i \in DOMAIN stack PROVE Fits(stack'[i])
    <2>1. PICK f, fired, q, r, h, b :
            /\ f = stack[i] /\ fired = {p \in f.passed : p[2] = id} /\ r = f.passed \ fired
            /\ q = r \union ({id} \X over) /\ h = f.handled \union {id} /\ b = f.barred \union out
      OBVIOUS
    <2>2. f \in Frames /\ Fits(f)
      BY <2>1, FrameKinds DEF FramesFit
    <2>3. stack'[i] = IF i < Len(stack) THEN [f EXCEPT !.passed = r]
                      ELSE [f EXCEPT !.phase = "work", !.work = id, !.handled = h, !.passed = q, !.barred = b]
      BY <1>2, <2>1 DEF Fire, Handled
    <2>4. PICK g : g = stack'[i]
      OBVIOUS
    <2>5. /\ g.call = f.call /\ g.boundary = f.boundary /\ g.limit = f.limit /\ g.queued = f.queued
          /\ g.known = f.known
          /\ i < Len(stack) => g.phase = f.phase /\ g.handled = f.handled /\ g.barred = f.barred
          /\ ~(i < Len(stack)) => g.phase = "work" /\ g.handled = h /\ g.barred = b
      BY <2>2, <2>3, <2>4 DEF Frames
    <2>6. PlaceFits(g)
      BY <2>2, <2>5 DEF PlaceFits, Fits
    <2>7. ASSUME g.call = "run_pending" PROVE DrainFits(g)
      <3>1. DrainFits(f)
        BY <2>2, <2>5, <2>7 DEF Fits
      <3>2. CASE i < Len(stack)
        BY <2>5, <3>1, <3>2 DEF DrainFits
      <3>3. CASE ~(i < Len(stack))
        <4>1. out = {id} /\ g.barred = f.barred \union {id} /\ g.handled = f.handled \union {id}
          <5>1. f = Top /\ PlaceFits(Top)
            BY <1>1, <1>3, <2>1, <3>3 DEF Fits
          <5> QED  BY <1>2, <2>1, <2>5, <2>7, <3>3, <5>1 DEF PlaceFits
        <4> QED  BY <2>5, <3>1, <4>1 DEF DrainFits
      <3> QED  BY <3>2, <3>3
    <2> QED  BY <2>4, <2>6, <2>7 DEF Fits
  <1> QED  BY <1>3, <1>4 DEF FramesFitNow

\* And it puts off a timer whose deadline had come.
LEMMA FireDue ==
    ASSUME PassInv, NEW id \in Ids, LookFire(id) \/ PendingFire(id)
    PROVE  DueStep /\ id \notin DOMAIN making
  <1>1. TypeOK /\ HeldNow /\ PassesFit
    BY DEF PassInv, HeldInv, SleepInv
  <1>2. PICK over, out : Fire(id, over, out)
    BY DEF LookFire, PendingFire
  <1>3. stack # <<>> /\ id \in Installed /\ due[id] <= Top.boundary
    BY DEF LookFire, PendingFire, Looking, At, Claimable, Candidates, Installed
  <1>4. Top.boundary <= now /\ Top.boundary \in Int
    <2>1. Len(stack) \in DOMAIN stack /\ Top = stack[Len(stack)] /\ Top \in Frames
      BY <1>1, <1>3, TopTypes DEF Top, TypeOK
    <2> QED  BY <1>1, <2>1 DEF PassesFit, PassFits, Frames, Times
  <1>5. /\ now \in Int /\ nextSequence \in Nat /\ Len(timers) \in Nat /\ due[id] \in Int
        /\ now <= now /\ nextSequence <= nextSequence
    BY <1>1, <1>3, DrainKinds DEF Kinds
  <1>6. due[id] <= now
    BY <1>3, <1>4, <1>5
  <1>7. PICK after : after = After(now, timers[id].interval)
    OBVIOUS
  <1>8. now <= after
    <2>1. now \in 0..Limit /\ timers[id].interval \in Int /\ Limit \in Int
      BY <1>1, NowInRange, TimerTypes, IntervalIsInt, ClockAssumption DEF Limit
    <2>2. after \in now..Limit
      BY <1>7, <2>1, AfterBounds
    <2> QED  BY <1>5, <2>1, <2>2
  <1>9. /\ Installed' \subseteq Installed
        /\ \A t \in Installed' \ {id} : due'[t] = due[t]
        /\ id \in Installed' => due'[id] = after
    <2>1. due' = IF timers[id].repeats THEN [due EXCEPT ![id] = after] ELSE Without(due, {id})
      BY <1>2, <1>7 DEF Fire, Claimed
    <2> QED  BY <1>1, <1>3, <2>1 DEF TypeOK, Installed, Without
  <1>10. /\ UNCHANGED <<now, pending, nextSequence, making>> /\ Len(timers') = Len(timers)
    <2>1. timers \in Seq(Timers) /\ timers' = [timers EXCEPT ![id].last = now]
      BY <1>1, <1>2 DEF Fire, TypeOK
    <2>2. Len(timers') = Len(timers)
      BY <2>1
    <2> QED  BY <1>2, <2>2 DEF Fire
  <1>11. DueStep
    BY <1>5, <1>6, <1>8, <1>9, <1>10 DEF DueStep, Queued
  <1> QED  BY <1>1, <1>3, <1>11 DEF HeldNow, Held

\* run_pending() takes the first of the queue, which is then in neither.
LEMMA PendingTakeFits ==
    ASSUME DrainInv, PendingTake, TypeOK'
    PROVE  FramesFit'
  <1>1. TypeOK /\ FramesFit /\ stack # <<>> /\ pending # <<>> /\ Head(pending) < Top.limit
    BY DEF DrainInv, PassInv, HeldInv, SleepInv, PendingTake, At, QueuedByLimit
  <1>2. Top \in Frames /\ Fits(Top)
    BY <1>1, TopFits
  <1>3. PICK h, q : h = Head(pending) /\ q = Top.queued \ {h}
    OBVIOUS
  <1>4. PICK f : f = [Top EXCEPT !.phase = "work", !.work = Task, !.queued = q]
    OBVIOUS
  <1>5. Becomes(f)
    BY <1>3, <1>4 DEF PendingTake
  <1>6. /\ f.call = Top.call /\ f.boundary = Top.boundary /\ f.handled = Top.handled
        /\ f.limit = Top.limit /\ f.barred = Top.barred /\ f.known = Top.known
        /\ f.queued = q /\ f.phase = "work"
    BY <1>2, <1>4 DEF Frames
  <1>7. Queued' \subseteq Queued \ {h}
    <2>1. pending \in Seq(Nat) /\ pending' = Tail(pending)
      BY <1>1 DEF TypeOK, PendingTake
    <2> QED  BY <1>1, <1>3, <2>1, TailOrdered DEF Queued, DrainInv, Ordered
  <1>8. DueStep
    <2>1. UNCHANGED <<now, nextSequence, due, making, timers>>
      BY DEF PendingTake, timerVars
    <2> QED  BY <1>1, <1>7, <2>1, SameDue
  <1>9. /\ Len(stack) \in DOMAIN stack /\ DOMAIN stack' = DOMAIN stack
        /\ \A i \in DOMAIN stack : stack'[i] = IF i = Len(stack) THEN f ELSE stack[i]
    BY <1>1, <1>5, TopChanges
  <1>10. ASSUME NEW i \in DOMAIN stack' PROVE Fits(stack[i])'
    <2>1. CASE i # Len(stack)
      <3>1. PICK g : g = stack[i]
        OBVIOUS
      <3>2. Fits(g)' /\ stack'[i] = g
        BY <1>1, <1>8, <1>9, <2>1, <3>1, FitsKept DEF FramesFit
      <3> QED  BY <3>2 DEF Fits, PlaceFits, DrainFits
    <2>2. CASE i = Len(stack)
      <3>1. PICK g : g = Top
        OBVIOUS
      <3>2. Fits(g)'
        BY <1>1, <1>2, <1>8, <3>1, FitsKept
      <3>3. f.call = "run_pending" => DrainFits(f)'
        BY <1>3, <1>6, <1>7, <3>1, <3>2 DEF Fits, DrainFits
      <3>4. Fits(f)'
        BY <1>6, <3>1, <3>2, <3>3 DEF Fits, PlaceFits
      <3>5. stack'[i] = f
        BY <1>9, <2>2
      <3> QED  BY <3>4, <3>5 DEF Fits, PlaceFits, DrainFits
    <2> QED  BY <2>1, <2>2
  <1> QED  BY <1>10 DEF FramesFit

LEMMA DrainInit == Init => DrainInv
  <1> SUFFICES ASSUME Init PROVE Ordered /\ FramesFit
    BY PassInit DEF DrainInv
  <1> QED  BY DEF Init, Ordered, FramesFit

\* Every step keeps DrainInv.
LEMMA DrainStep == DrainInv /\ [Next]_vars => DrainInv'
  <1> SUFFICES ASSUME DrainInv, [Next]_vars PROVE FramesFit'
    BY PassStep, OrderStep DEF DrainInv, PassInv, HeldInv, SleepInv
  <1>1. TypeOK /\ TypeOK' /\ HeldNow /\ FramesFit /\ PassInv
    BY TypeStep DEF DrainInv, PassInv, HeldInv, SleepInv
  <1>2. ASSUME DueStep, FramesFitNow PROVE FramesFit'
    BY <1>1, <1>2, FramesKept
  <1>3. UNCHANGED stack => FramesFitNow
    BY <1>1 DEF FramesFit, FramesFitNow
  <1>4. CASE \/ Enqueue \/ Quit \/ Clear \/ Tick \/ Finish
             \/ (\E repeats \in BOOLEAN, interval \in Intervals : MakeTimer(repeats, interval))
             \/ \E id \in Ids : Invalidate(id) \/ CallNext(id)
    <2>1. UNCHANGED stack \/ Notify
      BY <1>4 DEF Enqueue, Quit, Clear, Tick, Finish, MakeTimer, Invalidate, CallNext, InstallTimer,
                  RemoveTimer, FinishMark
    <2> QED  BY <1>1, <1>2, <1>3, <1>4, <2>1, CallsDue, NotifyFits
  <1>5. CASE BeginCall
    <2>1. UNCHANGED <<now, pending, nextSequence, timerVars>>
      BY <1>5 DEF BeginCall, Begin
    <2> QED  BY <1>1, <1>2, <1>5, <2>1, SameDue, BeginFits DEF timerVars, Queued
  <1>6. CASE \/ Enter \/ Test \/ LookQuit \/ LookTake \/ LookRefresh \/ LookGiveUp \/ LookWait
             \/ WakeUp \/ Spurious \/ PendingFired \/ PendingEnd
    <2>1. UNCHANGED <<now, nextSequence, timerVars>>
      BY <1>6 DEF Enter, Test, LookQuit, LookTake, LookRefresh, LookGiveUp, LookWait, WakeUp, Spurious,
                  PendingFired, PendingEnd
    <2>2. Queued' \subseteq Queued
      <3>1. CASE UNCHANGED pending
        BY <3>1 DEF Queued
      <3>2. CASE LookTake
        <4>1. pending \in Seq(Nat) /\ pending # <<>> /\ pending' = Tail(pending)
          BY <1>1, <3>2 DEF LookTake, TypeOK
        <4> QED  BY <4>1, TailOrdered DEF Queued, DrainInv, Ordered
      <3> QED  BY <1>6, <3>1, <3>2 DEF Enter, Test, LookQuit, LookRefresh, LookGiveUp, LookWait, WakeUp,
                                       Spurious, PendingFired, PendingEnd
    <2> QED  BY <1>1, <1>2, <1>6, <2>1, <2>2, SameDue, GoesOnFits DEF timerVars
  <1>7. CASE Return \/ Throw
    <2>1. UNCHANGED <<now, pending, nextSequence, due, making>> /\ timers' = WorkOver
      BY <1>7 DEF Return, Throw
    <2>2. Len(timers') = Len(timers)
      BY <1>1, <2>1, InvalidFacts DEF WorkOver
    <2> QED  BY <1>1, <1>2, <1>7, <2>1, <2>2, SameDue, GoesOnFits DEF Queued
  <1>8. CASE \E id \in Ids : LookFire(id) \/ PendingFire(id)
    BY <1>1, <1>2, <1>8, FireDue, FireFound
  <1>9. CASE PendingTake
    BY <1>1, <1>9, PendingTakeFits
  <1>10. CASE UNCHANGED vars
    BY <1>1, <1>10 DEF vars, FramesFit, Fits, PlaceFits, DrainFits, Queued, Installed, Ids
  <1>11. CASE LoopNext
    BY <1>6, <1>7, <1>8, <1>9, <1>11 DEF LoopNext
  <1>12. CASE AnyoneNext
    BY <1>4, <1>12 DEF AnyoneNext
  <1> QED  BY <1>4, <1>5, <1>6, <1>7, <1>10, <1>11, <1>12 DEF Next

\* run_pending() takes only tasks that were queued as it began, each once, and fires
\* each timer at most once, none that was installed then and not yet due, and one made
\* since only at the clock's reading it began with: in calls nested to any depth, with
\* any timers, and whatever its work and the other threads queue, clear and install.
THEOREM PendingRunsNoMore == Spec => PendingRunsWhatItFound
  <1>1. ASSUME DrainInv, [Next]_vars, At("due") \/ At("drain")
        PROVE  /\ Takes(Task) => Head(pending) \in Top.queued
               /\ \A t \in Ids : Takes(t) =>
                    t \notin Top.barred /\ (t > Top.known => due[t] = Top.boundary)
    <2>1. TypeOK /\ OnlyTopLooks /\ stack # <<>> /\ DrainFits(Top)
      BY <1>1, TopFits DEF DrainInv, PassInv, HeldInv, SleepInv, At, Fits, PlaceFits
    <2>2. ASSUME Takes(Task) PROVE Head(pending) \in Top.queued
      <3>1. PendingTake
        BY <1>1, <2>1, <2>2, TakesWhat, ScheduleKinds DEF LookTake, Looking, At
      <3>2. Head(pending) \in Queued /\ Head(pending) < Top.limit
        <4>1. pending \in Seq(Nat) /\ pending # <<>> /\ Head(pending) < Top.limit
          BY <2>1, <3>1 DEF TypeOK, PendingTake, QueuedByLimit
        <4> QED  BY <1>1, <4>1, TailOrdered DEF Queued, DrainInv, Ordered
      <3> QED  BY <2>1, <3>2 DEF DrainFits
    <2>3. ASSUME NEW t \in Ids, Takes(t)
          PROVE  t \notin Top.barred /\ (t > Top.known => due[t] = Top.boundary)
      <3>1. PendingFire(t)
        BY <1>1, <2>1, <2>3, TakesWhat, ScheduleKinds DEF LookFire, Looking, At
      <3>2. t \in Installed /\ due[t] <= Top.boundary /\ t \notin Top.handled
        BY <3>1 DEF PendingFire, Claimable, Candidates, Installed
      <3>3. due[t] \in Int /\ Top.boundary \in Int
        BY <2>1, <3>2, DrainKinds DEF Kinds, DrainFits
      <3> QED  BY <2>1, <3>2, <3>3 DEF DrainFits
    <2> QED  BY <2>2, <2>3
  <1> QED  BY <1>1, DrainInit, DrainStep, PTL DEF Spec, PendingRunsWhatItFound
=============================================================================
