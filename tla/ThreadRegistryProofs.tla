------------------------ MODULE ThreadRegistryProofs ------------------------
(***************************************************************************)
(* Theorems of ThreadRegistry, for any threads, native ids and bounds.     *)
(***************************************************************************)
EXTENDS ThreadRegistry, TLAPS

-----------------------------------------------------------------------------
(* The invariant.                                                          *)

\* Where a call under way is, and of what record: a thread is inside the making
\* of its own record, or its end, with nothing of it left to chance.
CallFits(o) ==
    LET c == call[o] IN
    /\ c.at = "done" <=> c.op = "none"
    /\ c.op # "none" => Live(o) /\ c.rec \in 1..built
    /\ c.op = "born" => /\ c.at \in {"begin", "wait"} /\ life[o] = "alive"
                        /\ owner[c.rec] = o
                        /\ c.at = "begin" => ~record[c.rec].registered
                        /\ c.at = "wait" => record[c.rec].registered
    /\ c.op = "start" => c.at = "wait"
    /\ c.op = "current" => /\ c.at = "begin" /\ locals[o].thread = "unmade"
                           /\ owner[c.rec] = o /\ record[c.rec].registered
    /\ c.op = "perform" => c.at = "queue" /\ ~c.over
    /\ c.op \in {"join", "join_for"}
         => c.at \in {"look", "asleep"} /\ record[c.rec].registered
    /\ c.op # "is_current"
    /\ c.op = "end" => /\ c.at \in {"finish", "notify", "torn"} /\ life[o] = "dying"
                       /\ locals[o].thread = "made"

\* What a thread has of itself at each stage of its life.
ThreadFits(o) ==
    /\ holder[o] # NoRecord => holder[o] \in 1..built /\ owner[holder[o]] = o
    /\ holder[o] # NoRecord <=> locals[o].thread = "made"
    /\ life[o] = "unborn" => locals[o].thread = "unmade"
    /\ life[o] = "alive" => locals[o].thread # "gone"
    /\ life[o] = "dead" => locals[o].thread # "made"
    /\ Live(o) => id[o] # NoId

\* No two threads have one id at a time, and the process keeps its own.
IdsApart ==
    /\ \A o, p \in Os : o # p /\ id[o] # NoId => id[o] # id[p]
    /\ id[Main] = MainId /\ life[Main] # "unborn"

\* Where a record is, from its making to its end.
RecordFits(r) ==
    LET o == owner[r] IN
    /\ life[o] # "unborn"
    /\ record[r].isMain <=> o = Main
    /\ record[r].isMain <=> r = theMain
    /\ record[r].published \/ record[r].finished \/ r \in registry => record[r].registered
    /\ record[r].registered => record[r].nativeId # NoId
    /\ record[r].registered /\ Live(o) => record[r].nativeId = id[o]
    /\ ~record[r].registered => /\ call[o].op = "born" /\ call[o].at = "begin"
                                /\ call[o].rec = r /\ locals[o].thread = "unmade"
    /\ record[r].registered /\ holder[o] # r
         => \/ locals[o].thread = "gone"
            \/ locals[o].thread = "unmade" /\ r = theMain
            \/ call[o].op = "current" /\ call[o].rec = r
    /\ record[r].finished <=> \/ locals[o].thread = "gone"
                              \/ call[o].op = "end" /\ call[o].at # "finish"
    /\ record[r].registered
         => (r \in registry <=> locals[o].thread # "gone" /\ call[o].op # "end")

\* A thread has one record at most, and what is not built is blank.
RecordsApart ==
    /\ \A r, s \in 1..built : owner[r] = owner[s] => r = s
    /\ \A r \in Records : r > built => record[r] = Blank
    /\ theMain # NoRecord => theMain \in 1..built
    /\ theMain = NoRecord => locals[Main].thread = "unmade"

\* What was answered is of a record that has been had from somewhere.
AnswerFits ==
    /\ answer.op \in {"join", "join_for", "start"}
         => answer.rec \in 1..built /\ record[answer.rec].registered
    /\ answer.op = "current" /\ answer.rec # Placeholder
         => answer.rec \in 1..built /\ owner[answer.rec] = answer.by
    /\ answer.op \in {"join", "join_for"} /\ answer.value => record[answer.rec].finished
    /\ answer.op = "join" => record[answer.rec].finished \/ owner[answer.rec] = answer.by
    /\ NoTaskForTheEnded

PlacesInv ==
    /\ TypeOK
    /\ \A o \in Os : CallFits(o)
    /\ \A o \in Os : ThreadFits(o)
    /\ IdsApart
    /\ \A r \in 1..built : RecordFits(r)
    /\ RecordsApart
    /\ AnswerFits

-----------------------------------------------------------------------------
(* Types.                                                                  *)

\* The calls under way and the last answer, as TypeOK has them.
CallsTyped ==
    /\ call \in [Os -> CallStates]
    /\ \A o \in Os : call[o].rec \in (1..built) \union {NoRecord}
    /\ answer \in Answers

StateTyped ==
    /\ life \in [Os -> {"unborn", "alive", "dying", "dead"}]
    /\ id \in [Os -> NativeIds \union {NoId}]
    /\ locals \in [Os -> Locals]
    /\ calls \in 0..MaxCalls
    /\ holder \in [Os -> Records \union {NoRecord}]
    /\ built \in 0..MaxRecords
    /\ record \in [Records -> RecordStates]
    /\ owner \in [Records -> Os]
    /\ theMain \in Records \union {NoRecord}
    /\ registry \subseteq 1..built

\* The numbers that stand for no record are no record's.
LEMMA RecordNumbers ==
    /\ NoRecord \notin Records /\ Placeholder \notin Records
    /\ TypeOK => 1..built \subseteq Records /\ built \in Nat
    /\ TypeOK /\ built < MaxRecords
         => built + 1 \in Records /\ 1..(built + 1) = (1..built) \union {built + 1}
            /\ built + 1 \in 0..MaxRecords /\ built + 1 \notin 1..built
  BY ThreadsAssumption DEF Records, NoRecord, Placeholder, TypeOK

\* What a call may be set to is a call.
LEMMA CallTypes ==
    ASSUME TypeOK, NEW o \in Os
    PROVE  /\ Idle \in CallStates /\ Idle.rec = NoRecord
           /\ \A op \in Ops, at \in Points, r \in Records :
                Entered(op, at, r) \in CallStates /\ Entered(op, at, r).rec = r
           /\ \A at \in Points : /\ [call[o] EXCEPT !.at = at] \in CallStates
                                 /\ [call[o] EXCEPT !.at = at].rec = call[o].rec
  <1>1. \A r \in Records : record[r].finished \in BOOLEAN
    BY DEF TypeOK, RecordStates
  <1>2. call[o] \in CallStates
    BY DEF TypeOK
  <1>3. Idle \in CallStates /\ Idle.rec = NoRecord
    BY DEF Idle, CallStates, Ops, Points
  <1>4. \A op \in Ops, at \in Points, r \in Records :
           Entered(op, at, r) \in CallStates /\ Entered(op, at, r).rec = r
    BY <1>1 DEF Entered, CallStates
  <1>5. \A at \in Points : /\ [call[o] EXCEPT !.at = at] \in CallStates
                          /\ [call[o] EXCEPT !.at = at].rec = call[o].rec
    BY <1>2 DEF CallStates
  <1> QED  BY <1>3, <1>4, <1>5

\* A call that begins, goes on, answers or returns leaves calls and an answer.
LEMMA EnterTypes ==
    ASSUME TypeOK, NEW o \in Os, NEW op \in Ops, NEW at \in Points, NEW r \in Records,
           Enter(o, op, at, r), r \in 1..built', built' = built \/ built' = built + 1
    PROVE  CallsTyped'
  <1>1. Entered(op, at, r) \in CallStates /\ Entered(op, at, r).rec = r
    BY CallTypes
  <1>2. 1..built \subseteq 1..built'
    BY DEF TypeOK
  <1> QED  BY <1>1, <1>2 DEF Enter, CallsTyped, TypeOK

LEMMA GoesTypes ==
    ASSUME TypeOK, NEW o \in Os, NEW at \in Points, Goes(o, at), built' = built
    PROVE  CallsTyped'
  BY CallTypes DEF Goes, CallsTyped, TypeOK

LEMMA SaysTypes ==
    ASSUME TypeOK, NEW o \in Os, NEW op \in Ops,
           NEW r \in Records \union {Placeholder, NoRecord},
           NEW over \in BOOLEAN, NEW value \in BOOLEAN, Says(o, op, r, over, value)
    PROVE  answer' \in Answers
  BY DEF Says, Answers

LEMMA AtOnceTypes ==
    ASSUME TypeOK, NEW o \in Os, NEW op \in Ops,
           NEW r \in Records \union {Placeholder, NoRecord},
           NEW value \in BOOLEAN, AtOnce(o, op, r, value), built' = built
    PROVE  CallsTyped'
  <1>1. (r \in Records /\ record[r].finished) \in BOOLEAN
    OBVIOUS
  <1> QED  BY <1>1, SaysTypes, ZenonT(60) DEF AtOnce, CallsTyped, TypeOK

LEMMA ReturnsTypes ==
    ASSUME TypeOK, NEW o \in Os, NEW value \in BOOLEAN, Returns(o, value), built' = built
    PROVE  CallsTyped'
  <1>1. call[o].op \in Ops /\ call[o].over \in BOOLEAN
        /\ call[o].rec \in Records \union {Placeholder, NoRecord}
    BY DEF TypeOK, CallStates
  <1>2. answer' \in Answers
    BY <1>1, SaysTypes DEF Returns
  <1> QED  BY <1>2, CallTypes DEF Returns, CallsTyped, TypeOK

\* A record that is built is one of the thread's, and the others stay.
LEMMA BuildTypes ==
    ASSUME TypeOK, NEW o \in Os, NEW state \in RecordStates, Build(o, state)
    PROVE  /\ built' \in 0..MaxRecords /\ record' \in [Records -> RecordStates]
           /\ owner' \in [Records -> Os] /\ built + 1 \in Records /\ built + 1 \in 1..built'
           /\ registry \subseteq 1..built' /\ built' = built + 1
           /\ record'[built + 1] = state /\ owner'[built + 1] = o
           /\ \A r \in 1..built : r # built + 1 /\ record'[r] = record[r] /\ owner'[r] = owner[r]
           /\ \A r \in Records : r > built' => record'[r] = record[r]
  <1>1. built < MaxRecords /\ built' = built + 1
    BY DEF Build
  <1>2. registry \subseteq 1..(built + 1)
    BY <1>1, RecordNumbers DEF TypeOK
  <1> QED  BY <1>1, <1>2, RecordNumbers DEF Build, TypeOK

\* What a record may be built as is a record's state.
LEMMA BlankTypes ==
    ASSUME TypeOK, NEW o \in Os, NEW b \in BOOLEAN
    PROVE  /\ [Blank EXCEPT !.hasLoop = b] \in RecordStates
           /\ [Blank EXCEPT !.isMain = TRUE, !.nativeId = MainId, !.hasLoop = TRUE,
                            !.registered = TRUE] \in RecordStates
           /\ [Blank EXCEPT !.nativeId = id[o], !.hasLoop = TRUE, !.registered = TRUE]
                 \in RecordStates
  BY ThreadsAssumption DEF Blank, RecordStates, TypeOK


LEMMA TypeStarts ==
    ASSUME PlacesInv, NEW o \in Os
    PROVE  /\ Born(o) \/ Install(o) \/ Publish(o) \/ Started(o) => TypeOK'
           /\ \A new \in Os, b \in BOOLEAN : Start(o, new, b) => TypeOK'
  <1>0. TypeOK
    BY DEF PlacesInv
  <1>1. ASSUME Born(o) PROVE TypeOK'
    BY <1>0, <1>1 DEF Born, Spawn, FreshIds, recordVars, TypeOK
  <1>2. ASSUME Install(o) PROVE TypeOK'
    <2>1. call[o].rec \in 1..built /\ call[o].rec \in Records /\ built' = built
      BY <1>0, <1>2, RecordNumbers DEF Install, PlacesInv, CallFits
    <2>2. CallsTyped'
      BY <1>0, <1>2, <2>1, GoesTypes DEF Install, Points
    <2>3. record' \in [Records -> RecordStates]
      BY <1>0, <1>2, <2>1, SMTT(40) DEF Install, TypeOK, RecordStates
    <2>4. locals' \in [Os -> Locals]
      BY <1>0, <1>2, <2>1, ZenonT(60) DEF Install, TypeOK, Locals, Stages
    <2>5. StateTyped'
      BY <1>0, <1>2, <2>1, <2>3, <2>4 DEF Install, Register, StateTyped, TypeOK
    <2> QED  BY <2>2, <2>5 DEF TypeOK, StateTyped, CallsTyped
  <1>3. ASSUME Publish(o) PROVE TypeOK'
    <2>1. CallsTyped'
      BY <1>0, <1>3, CallTypes DEF Publish, CallsTyped, TypeOK
    <2>2. record' \in [Records -> RecordStates]
      BY <1>0, <1>3, ZenonT(60) DEF Publish, TypeOK, RecordStates
    <2>3. StateTyped'
      BY <1>0, <1>3, <2>2 DEF Publish, StateTyped, TypeOK, threadVars
    <2> QED  BY <2>1, <2>3 DEF TypeOK, StateTyped, CallsTyped
  <1>4. ASSUME Started(o) PROVE TypeOK'
    <2>1. CallsTyped'
      BY <1>0, <1>4, ReturnsTypes DEF Started, recordVars
    <2>2. StateTyped'
      BY <1>0, <1>4 DEF Started, StateTyped, TypeOK, threadVars, recordVars
    <2> QED  BY <2>1, <2>2 DEF TypeOK, StateTyped, CallsTyped
  <1>5. ASSUME NEW new \in Os, NEW b \in BOOLEAN, Start(o, new, b) PROVE TypeOK'
    <2> DEFINE state == [Blank EXCEPT !.hasLoop = b]
    <2>1. state \in RecordStates
      BY <1>0, BlankTypes
    <2>2. Build(new, state) /\ Spawn(new) /\ Calls(o)
      BY <1>5 DEF Start
    <2> HIDE DEF state
    <2>3. /\ Entered("start", "wait", built + 1) \in CallStates
          /\ Entered("start", "wait", built + 1).rec = built + 1
          /\ Entered("born", "begin", built + 1) \in CallStates
          /\ Entered("born", "begin", built + 1).rec = built + 1
      <3>1. built + 1 \in Records
        BY <1>0, <2>1, <2>2, BuildTypes
      <3>2. {"start", "born"} \subseteq Ops /\ {"wait", "begin"} \subseteq Points
        BY DEF Ops, Points
      <3> QED  BY <1>0, <3>1, <3>2, CallTypes
    <2>4. 1..built \subseteq 1..built' /\ built + 1 \in 1..built'
      <3>1. built' = built + 1 /\ built + 1 \in 1..built'
        BY <1>0, <2>1, <2>2, BuildTypes
      <3> QED  BY <1>0, <3>1 DEF TypeOK
    <2>5. CallsTyped'
      <3> DEFINE e == Entered("start", "wait", built + 1)
                 f == Entered("born", "begin", built + 1)
      <3>1. call' = [call EXCEPT ![o] = e, ![new] = f] /\ UNCHANGED answer
        BY <1>5 DEF Start
      <3> HIDE DEF e, f
      <3>2. e \in CallStates /\ f \in CallStates /\ e.rec = built + 1 /\ f.rec = built + 1
        BY <2>3 DEF e, f
      <3> QED  BY <1>0, <2>4, <3>1, <3>2 DEF CallsTyped, TypeOK
    <2>6. StateTyped'
      <3>1. life' \in [Os -> {"unborn", "alive", "dying", "dead"}]
            /\ id' \in [Os -> NativeIds \union {NoId}]
        BY <1>0, <2>2 DEF Spawn, FreshIds, TypeOK
      <3>2. calls' \in 0..MaxCalls
        BY <1>0, <2>2, ThreadsAssumption DEF Calls, TypeOK
      <3>3. UNCHANGED <<locals, holder, theMain, registry>>
        BY <1>5 DEF Start
      <3> QED  BY <1>0, <2>1, <2>2, <3>1, <3>2, <3>3, BuildTypes DEF StateTyped, TypeOK
    <2> QED  BY <2>5, <2>6 DEF TypeOK, StateTyped, CallsTyped
  <1> QED  BY <1>1, <1>2, <1>3, <1>4, <1>5

\* Building the main record, from any thread, and giving a thread a loop.
LEMMA BuildMainTypes ==
    ASSUME TypeOK, BuildMain
    PROVE  /\ built' \in 0..MaxRecords /\ record' \in [Records -> RecordStates]
           /\ owner' \in [Records -> Os] /\ built + 1 \in Records /\ built + 1 \in 1..built'
           /\ built' = built + 1 /\ theMain' = built + 1 /\ theMain' \in Records
           /\ registry' \subseteq 1..built' /\ registry' = registry \union {built + 1}
  <1> DEFINE state == [Blank EXCEPT !.isMain = TRUE, !.nativeId = MainId, !.hasLoop = TRUE,
                                    !.registered = TRUE]
  <1>1. state \in RecordStates /\ Main \in Os
    BY BlankTypes, ThreadsAssumption
  <1>2. Build(Main, state) /\ theMain' = built + 1 /\ registry' = registry \union {built + 1}
    BY DEF BuildMain, Register
  <1> HIDE DEF state
  <1>3. /\ built' \in 0..MaxRecords /\ record' \in [Records -> RecordStates]
        /\ owner' \in [Records -> Os] /\ built + 1 \in Records /\ built + 1 \in 1..built'
        /\ built' = built + 1 /\ registry \subseteq 1..built'
    BY <1>1, <1>2, BuildTypes
  <1> QED  BY <1>2, <1>3

LEMMA MakeLoopTypes ==
    ASSUME TypeOK, NEW o \in Os, MakeLoop(o)
    PROVE  locals' \in [Os -> Locals]
  BY ZenonT(60) DEF MakeLoop, TypeOK, Locals, Stages

LEMMA CallsCounted ==
    ASSUME TypeOK, NEW o \in Os, Calls(o)
    PROVE  calls' \in 0..MaxCalls
  BY ThreadsAssumption DEF Calls, TypeOK

LEMMA TypeCurrent ==
    ASSUME PlacesInv, NEW o \in Os, Current(o) \/ CurrentInstalled(o)
    PROVE  TypeOK'
  <1>0. TypeOK
    BY DEF PlacesInv
  <1> USE DEF recordVars
  <1>1. ASSUME AskMain(o) PROVE TypeOK'
    <2>1. 1..built \subseteq 1..built'
      BY <1>0, <1>1, BuildMainTypes DEF AskMain, TypeOK
    <2>2. CallsTyped'
      BY <1>0, <1>1, <2>1 DEF AskMain, CallsTyped, TypeOK
    <2>3. StateTyped'
      BY <1>0, <1>1, BuildMainTypes, CallsCounted DEF AskMain, StateTyped, TypeOK
    <2> QED  BY <2>2, <2>3 DEF TypeOK, StateTyped, CallsTyped
  <1>2. ASSUME CurrentTornDown(o) \/ CurrentKnown(o) PROVE TypeOK'
    <2>1. CallsTyped'
      BY <1>0, <1>2, AtOnceTypes DEF CurrentTornDown, CurrentKnown, Ops, TypeOK
    <2>2. StateTyped'
      BY <1>0, <1>2, CallsCounted DEF CurrentTornDown, CurrentKnown, StateTyped, TypeOK
    <2> QED  BY <2>1, <2>2 DEF TypeOK, StateTyped, CallsTyped
  <1>3. ASSUME CurrentMain(o), theMain # NoRecord PROVE TypeOK'
    <2>1. /\ Enter(o, "current", "begin", theMain)
          /\ UNCHANGED <<life, id, holder, locals, built, record, owner, theMain, registry>>
      BY <1>3 DEF CurrentMain
    <2>2. theMain \in 1..built /\ theMain \in Records
      BY <1>0, <1>3, RecordNumbers DEF PlacesInv, RecordsApart
    <2>3. CallsTyped'
      BY <1>0, <2>1, <2>2, EnterTypes DEF Ops, Points
    <2>4. StateTyped'
      BY <1>0, <1>3, <2>1, CallsCounted DEF CurrentMain, StateTyped, TypeOK
    <2> QED  BY <2>3, <2>4 DEF TypeOK, StateTyped, CallsTyped
  <1>4. ASSUME CurrentMain(o), theMain = NoRecord PROVE TypeOK'
    <2>1. /\ Enter(o, "current", "begin", built + 1) /\ BuildMain /\ MakeLoop(o)
          /\ UNCHANGED <<life, id, holder>>
      BY <1>4 DEF CurrentMain
    <2>2. CallsTyped'
      BY <1>0, <2>1, BuildMainTypes, EnterTypes DEF Ops, Points
    <2>3. StateTyped'
      BY <1>0, <1>4, <2>1, BuildMainTypes, MakeLoopTypes, CallsCounted
         DEF CurrentMain, StateTyped, TypeOK
    <2> QED  BY <2>2, <2>3 DEF TypeOK, StateTyped, CallsTyped
  <1>5. ASSUME Adopt(o) PROVE TypeOK'
    <2> DEFINE state == [Blank EXCEPT !.nativeId = id[o], !.hasLoop = TRUE, !.registered = TRUE]
    <2>1. /\ Enter(o, "current", "begin", built + 1) /\ MakeLoop(o) /\ Build(o, state)
          /\ registry' = registry \union {built + 1} /\ state \in RecordStates
          /\ UNCHANGED <<life, id, holder, theMain>> /\ Calls(o)
      BY <1>0, <1>5, BlankTypes DEF Adopt, Register
    <2> HIDE DEF state
    <2>2. CallsTyped'
      BY <1>0, <2>1, BuildTypes, EnterTypes DEF Ops, Points
    <2>3. StateTyped'
      BY <1>0, <2>1, BuildTypes, MakeLoopTypes, CallsCounted DEF StateTyped, TypeOK
    <2> QED  BY <2>2, <2>3 DEF TypeOK, StateTyped, CallsTyped
  <1>6. ASSUME CurrentInstalled(o) PROVE TypeOK'
    <2>1. CallsTyped'
      BY <1>0, <1>6, ReturnsTypes DEF CurrentInstalled
    <2>2. call[o].rec \in Records
      BY <1>0, <1>6, RecordNumbers DEF CurrentInstalled, PlacesInv, CallFits
    <2>3. locals' \in [Os -> Locals]
      BY <1>0, <1>6, ZenonT(60) DEF CurrentInstalled, TypeOK, Locals, Stages
    <2>4. StateTyped'
      BY <1>0, <1>6, <2>2, <2>3 DEF CurrentInstalled, StateTyped, TypeOK
    <2> QED  BY <2>1, <2>4 DEF TypeOK, StateTyped, CallsTyped
  <1>7. ASSUME CurrentLoop(o) PROVE TypeOK'
    BY <1>0, <1>7, MakeLoopTypes, CallsCounted DEF CurrentLoop, TypeOK
  <1> QED  BY <1>1, <1>2, <1>3, <1>4, <1>5, <1>6, <1>7 DEF Current


LEMMA TypeHandle ==
    ASSUME PlacesInv, NEW o \in Os
    PROVE  /\ \A r \in Reachable : Handle(o, r) => TypeOK'
           /\ PerformOnLoop(o) \/ Look(o) \/ LookTooLate(o) \/ Wake(o) => TypeOK'
  <1>0. TypeOK
    BY DEF PlacesInv
  <1> USE DEF recordVars, threadVars
  <1>1. \A r \in Reachable : r \in Records /\ r \in 1..built
    BY <1>0 DEF Reachable, PlacesInv, RecordsApart, Blank, Records, TypeOK
  <1>2. ASSUME NEW r \in Reachable, Perform(o, r) PROVE TypeOK'
    <2>1. AtOnce(o, "perform", r, FALSE) \/ Enter(o, "perform", "queue", r)
      BY <1>2 DEF Perform
    <2>2. CallsTyped'
      BY <1>0, <1>1, <1>2, <2>1, AtOnceTypes, EnterTypes DEF Perform, Ops, Points
    <2>3. StateTyped'
      BY <1>0, <1>2, CallsCounted DEF Perform, StateTyped, TypeOK
    <2> QED  BY <2>2, <2>3 DEF TypeOK, StateTyped, CallsTyped
  <1>3. ASSUME NEW r \in Reachable, Quit(o, r) PROVE TypeOK'
    <2>1. record' \in [Records -> RecordStates]
      BY <1>0, <1>1, <1>3, ZenonT(60) DEF Quit, TypeOK, RecordStates
    <2> QED  BY <1>0, <1>3, <2>1, CallsCounted DEF Quit, TypeOK
  <1>4. ASSUME NEW r \in Reachable, AskIsCurrent(o, r) PROVE TypeOK'
    <2>1. IsCurrent(o, r) \in BOOLEAN
      BY DEF IsCurrent
    <2>2. CallsTyped'
      BY <1>0, <1>1, <1>4, <2>1, AtOnceTypes DEF AskIsCurrent, Ops
    <2>3. StateTyped'
      BY <1>0, <1>4, CallsCounted DEF AskIsCurrent, StateTyped, TypeOK
    <2> QED  BY <2>2, <2>3 DEF TypeOK, StateTyped, CallsTyped
  <1>5. ASSUME NEW r \in Reachable, NEW op \in {"join", "join_for"}, Wait(o, op, r)
        PROVE  TypeOK'
    <2> DEFINE value == op = "join_for" /\ record[r].finished
    <2>1. AtOnce(o, op, r, value) \/ Enter(o, op, "look", r)
      BY <1>5 DEF Wait
    <2>2. value \in BOOLEAN /\ op \in Ops
      BY DEF Ops
    <2> HIDE DEF value
    <2>3. CallsTyped'
      BY <1>0, <1>1, <1>5, <2>1, <2>2, AtOnceTypes, EnterTypes DEF Wait, Points
    <2>4. StateTyped'
      BY <1>0, <1>5, CallsCounted DEF Wait, StateTyped, TypeOK
    <2> QED  BY <2>3, <2>4 DEF TypeOK, StateTyped, CallsTyped
  <1>6. ASSUME PerformOnLoop(o) \/ Look(o) \/ LookTooLate(o) \/ Wake(o) PROVE TypeOK'
    <2>1. (\E value \in BOOLEAN : Returns(o, value)) \/ \E at \in Points : Goes(o, at)
      BY <1>6 DEF PerformOnLoop, Look, LookTooLate, Wake, Points
    <2>2. StateTyped' /\ built' = built
      BY <1>0, <1>6 DEF PerformOnLoop, Look, LookTooLate, Wake, StateTyped, TypeOK
    <2>3. CallsTyped'
      BY <1>0, <2>1, <2>2, ReturnsTypes, GoesTypes
    <2> QED  BY <2>2, <2>3 DEF TypeOK, StateTyped, CallsTyped
  <1> QED  BY <1>2, <1>3, <1>4, <1>5, <1>6 DEF Handle

LEMMA TypeEnds ==
    ASSUME PlacesInv, NEW o \in Os
    PROVE  Die(o) \/ Destroys(o) \/ Finish(o) \/ NotifyDone(o) \/ TearDown(o) => TypeOK'
  <1>0. TypeOK
    BY DEF PlacesInv
  <1> USE DEF recordVars, threadVars
  <1>1. ASSUME Die(o) \/ Dead(o) PROVE TypeOK'
    BY <1>0, <1>1 DEF Die, Dead, TypeOK
  <1>2. ASSUME NEW object \in {"loop", "own"}, DestroyOther(o, object) PROVE TypeOK'
    <2>1. locals' \in [Os -> Locals]
      BY <1>0, <1>2 DEF DestroyOther, TypeOK, Locals, Stages
    <2> QED  BY <1>0, <1>2, <2>1 DEF DestroyOther, TypeOK
  <1>3. ASSUME Leave(o) PROVE TypeOK'
    <2>1. holder[o] \in 1..built /\ holder[o] \in Records
      BY <1>0, <1>3, RecordNumbers DEF Leave, PlacesInv, ThreadFits
    <2>2. CallsTyped'
      BY <1>0, <1>3, <2>1, EnterTypes DEF Leave, Ops, Points
    <2>3. StateTyped'
      BY <1>0, <1>3 DEF Leave, StateTyped, TypeOK
    <2> QED  BY <2>2, <2>3 DEF TypeOK, StateTyped, CallsTyped
  <1>4. ASSUME Finish(o) PROVE TypeOK'
    <2>1. record' \in [Records -> RecordStates]
      BY <1>0, <1>4, ZenonT(60) DEF Finish, TypeOK, RecordStates
    <2>2. CallsTyped'
      BY <1>0, <1>4, GoesTypes DEF Finish, Points
    <2>3. StateTyped'
      BY <1>0, <1>4, <2>1 DEF Finish, StateTyped, TypeOK
    <2> QED  BY <2>2, <2>3 DEF TypeOK, StateTyped, CallsTyped
  <1>5. ASSUME NotifyDone(o) PROVE TypeOK'
    <2>1. \A c \in Os : /\ Woken(c, holder[o]) \in CallStates
                        /\ Woken(c, holder[o]).rec = call[c].rec
      BY <1>0, CallTypes DEF Woken, Points, TypeOK
    <2>2. \A c \in Os : call'[c] \in CallStates /\ call'[c].rec = call[c].rec
      BY <1>0, <1>5, <2>1, CallTypes DEF NotifyDone, Points
    <2>3. call' \in [Os -> CallStates]
      BY <1>5, <2>2 DEF NotifyDone
    <2> QED  BY <1>0, <1>5, <2>2, <2>3 DEF NotifyDone, TypeOK
  <1>6. ASSUME TearDown(o) PROVE TypeOK'
    <2>1. locals' \in [Os -> Locals]
      BY <1>0, <1>6 DEF TearDown, TypeOK, Locals, Stages
    <2>2. CallsTyped'
      BY <1>0, <1>6, CallTypes DEF TearDown, CallsTyped, TypeOK
    <2>3. StateTyped'
      BY <1>0, <1>6, <2>1 DEF TearDown, StateTyped, TypeOK
    <2> QED  BY <2>2, <2>3 DEF TypeOK, StateTyped, CallsTyped
  <1> QED  BY <1>1, <1>2, <1>3, <1>4, <1>5, <1>6 DEF Destroys


\* Every step of a thread keeps the types.
LEMMA TypeStep == ASSUME PlacesInv, [Next]_vars PROVE TypeOK'
  <1>1. CASE UNCHANGED vars
    BY <1>1 DEF vars, PlacesInv, TypeOK
  <1>2. ASSUME NEW o \in Os, Library(o) \/ Program(o) \/ Timing(o) \/ Destroys(o)
        PROVE  TypeOK'
    BY <1>2, TypeStarts, TypeCurrent, TypeHandle, TypeEnds
       DEF Library, Program, Timing
  <1> QED  BY <1>1, <1>2 DEF Next

-----------------------------------------------------------------------------
(* Calls under way.                                                        *)

\* A record that can be had is one that was built.
LEMMA ReachableBuilt ==
    ASSUME PlacesInv, NEW r \in Reachable
    PROVE  r \in 1..built /\ r \in Records /\ record[r].registered
  BY DEF PlacesInv, RecordsApart, Reachable, Blank, Records, TypeOK

\* A call stays as it fits while its thread and its record do.
LEMMA CallStays ==
    ASSUME PlacesInv, NEW p \in Os, call'[p] = call[p], life'[p] = life[p],
           locals'[p].thread = locals[p].thread, built' \in {built, built + 1},
           \A r \in 1..built : /\ owner'[r] = owner[r]
                               /\ record'[r].registered = record[r].registered
    PROVE  CallFits(p)'
  <1>1. CallFits(p) /\ built \in Nat
    BY DEF PlacesInv, TypeOK
  <1>2. call[p].op # "none" => call[p].rec \in 1..built /\ call[p].rec \in 1..built'
    BY <1>1 DEF CallFits
  <1> QED  BY <1>1, <1>2 DEF CallFits, Live

\* What is known of a record that was just built.
LEMMA BuildFits ==
    ASSUME PlacesInv, NEW o \in Os, NEW state \in RecordStates, Build(o, state)
    PROVE  /\ built' = built + 1 /\ built + 1 \in 1..built' /\ built + 1 \in Records
           /\ 1..built' = (1..built) \union {built + 1} /\ built + 1 \notin 1..built
           /\ record'[built + 1] = state /\ owner'[built + 1] = o
           /\ \A r \in 1..built : record'[r] = record[r] /\ owner'[r] = owner[r]
           /\ \A r \in Records : r > built' => record'[r] = record[r] /\ r > built
  <1>1. TypeOK /\ built \in Nat
    BY DEF PlacesInv, TypeOK
  <1>2. /\ built' = built + 1 /\ built + 1 \in 1..built' /\ built + 1 \in Records
        /\ record'[built + 1] = state /\ owner'[built + 1] = o
        /\ \A r \in 1..built : record'[r] = record[r] /\ owner'[r] = owner[r]
        /\ \A r \in Records : r > built' => record'[r] = record[r]
    BY <1>1, BuildTypes
  <1> QED  BY <1>1, <1>2 DEF Records

LEMMA CallStarts ==
    ASSUME PlacesInv, NEW o \in Os, NEW new \in Os, NEW b \in BOOLEAN, Start(o, new, b)
    PROVE  (\A p \in Os : CallFits(p))'
  <1> DEFINE state == [Blank EXCEPT !.hasLoop = b]
  <1>1. /\ Build(new, state) /\ state \in RecordStates /\ ~state.registered
        /\ life[new] = "unborn" /\ life' = [life EXCEPT ![new] = "alive"] /\ Live(o)
        /\ call' = [call EXCEPT ![o] = Entered("start", "wait", built + 1),
                                ![new] = Entered("born", "begin", built + 1)]
        /\ UNCHANGED locals
    BY BlankTypes DEF Start, Spawn, Calls, Blank, PlacesInv
  <1> HIDE DEF state
  <1>2. TypeOK /\ life \in [Os -> {"unborn", "alive", "dying", "dead"}] /\ call \in [Os -> CallStates]
    BY DEF PlacesInv, TypeOK
  <1>3. o # new
    BY <1>1 DEF Live
  <1>4. CallFits(o)'
    BY <1>1, <1>2, <1>3, BuildFits DEF CallFits, Live, Entered
  <1>5. CallFits(new)'
    BY <1>1, <1>2, <1>3, BuildFits DEF CallFits, Live, Entered
  <1>6. ASSUME NEW p \in Os, p # o, p # new PROVE CallFits(p)'
    BY <1>1, <1>2, <1>6, BuildFits, CallStays
  <1> QED  BY <1>4, <1>5, <1>6

\* What is known once the main record, or an adopted one, was built.
LEMMA MainBuilt ==
    ASSUME PlacesInv, BuildMain
    PROVE  /\ built' = built + 1 /\ built + 1 \in 1..built' /\ built + 1 \in Records
           /\ 1..built' = (1..built) \union {built + 1} /\ built + 1 \notin 1..built
           /\ record'[built + 1].registered /\ record'[built + 1].isMain
           /\ record'[built + 1].nativeId = MainId /\ record'[built + 1].finished = FALSE
           /\ owner'[built + 1] = Main
           /\ \A r \in 1..built : record'[r] = record[r] /\ owner'[r] = owner[r]
           /\ \A r \in Records : r > built' => record'[r] = record[r] /\ r > built
           /\ theMain' = built + 1 /\ registry' = registry \union {built + 1}
  <1> DEFINE state == [Blank EXCEPT !.isMain = TRUE, !.nativeId = MainId, !.hasLoop = TRUE,
                                    !.registered = TRUE]
  <1>1. /\ state \in RecordStates /\ Main \in Os
        /\ state.registered /\ state.isMain /\ state.nativeId = MainId /\ state.finished = FALSE
    BY BlankTypes, ThreadsAssumption DEF Blank, PlacesInv
  <1>2. Build(Main, state) /\ theMain' = built + 1 /\ registry' = registry \union {built + 1}
    BY DEF BuildMain, Register
  <1> HIDE DEF state
  <1> QED  BY <1>1, <1>2, BuildFits

LEMMA AdoptedBuilt ==
    ASSUME PlacesInv, NEW o \in Os, Adopt(o)
    PROVE  /\ built' = built + 1 /\ built + 1 \in 1..built' /\ built + 1 \in Records
           /\ 1..built' = (1..built) \union {built + 1} /\ built + 1 \notin 1..built
           /\ record'[built + 1].registered /\ ~record'[built + 1].isMain
           /\ record'[built + 1].nativeId = id[o] /\ record'[built + 1].finished = FALSE
           /\ owner'[built + 1] = o
           /\ \A r \in 1..built : record'[r] = record[r] /\ owner'[r] = owner[r]
           /\ \A r \in Records : r > built' => record'[r] = record[r] /\ r > built
           /\ theMain' = theMain /\ registry' = registry \union {built + 1}
  <1> DEFINE state == [Blank EXCEPT !.nativeId = id[o], !.hasLoop = TRUE, !.registered = TRUE]
  <1>1. /\ state \in RecordStates
        /\ state.registered /\ ~state.isMain /\ state.nativeId = id[o] /\ state.finished = FALSE
    BY BlankTypes DEF Blank, PlacesInv
  <1>2. Build(o, state) /\ theMain' = theMain /\ registry' = registry \union {built + 1}
    BY DEF Adopt, Register
  <1> HIDE DEF state
  <1> QED  BY <1>1, <1>2, BuildFits

\* A thread that makes its loop changes nothing else of its thread-local objects.
LEMMA LoopMade ==
    ASSUME PlacesInv, NEW o \in Os, MakeLoop(o)
    PROVE  \A p \in Os : locals'[p].thread = locals[p].thread
  BY DEF MakeLoop, PlacesInv, TypeOK, Locals

\* Whoever begins a call of a record leaves the others' calls as they were.
LEMMA CallBegins ==
    ASSUME PlacesInv, NEW o \in Os, NEW op, NEW at, NEW r, Enter(o, op, at, r)
    PROVE  /\ call'[o] = Entered(op, at, r)
           /\ \A p \in Os : p # o => call'[p] = call[p]
  BY DEF Enter, PlacesInv, TypeOK

\* A thread that installs its record is in a call that fits.
LEMMA CurrentBegins ==
    ASSUME NEW o \in Os, NEW r, call'[o] = Entered("current", "begin", r), Live(o),
           life' = life, r \in 1..built', locals'[o].thread = "unmade", owner'[r] = o,
           record'[r].registered
    PROVE  CallFits(o)'
  <1>1. /\ call'[o].op = "current" /\ call'[o].at = "begin" /\ call'[o].rec = r
    BY DEF Entered
  <1>2. Live(o)'
    BY DEF Live
  <1> QED  BY <1>1, <1>2 DEF CallFits

LEMMA CallCurrent ==
    ASSUME PlacesInv, NEW o \in Os, Current(o) \/ CurrentInstalled(o)
    PROVE  (\A p \in Os : CallFits(p))'
  <1>0. TypeOK /\ (\A p \in Os : CallFits(p) /\ ThreadFits(p)) /\ RecordsApart
    BY DEF PlacesInv
  <1>1. ASSUME AskMain(o) PROVE (\A p \in Os : CallFits(p))'
    <2>1. ASSUME NEW p \in Os PROVE CallFits(p)'
      BY <1>1, MainBuilt, CallStays DEF AskMain
    <2> QED  BY <2>1
  <1>2. ASSUME CurrentTornDown(o) \/ CurrentKnown(o) PROVE (\A p \in Os : CallFits(p))'
    <2>1. /\ life' = life /\ locals' = locals /\ call' = call
          /\ record' = record /\ owner' = owner /\ built' = built
      BY <1>2 DEF CurrentTornDown, CurrentKnown, AtOnce, recordVars
    <2>2. ASSUME NEW p \in Os PROVE CallFits(p)'
      BY <1>0, <2>1 DEF CallFits, Live
    <2> QED  BY <2>2
  <1>3. ASSUME CurrentMain(o), theMain # NoRecord PROVE (\A p \in Os : CallFits(p))'
    <2>1. /\ Enter(o, "current", "begin", theMain) /\ Live(o)
          /\ UNCHANGED <<life, locals, built, record, owner>>
          /\ ~TornDown(o) /\ holder[o] = NoRecord /\ o = Main
      BY <1>3 DEF CurrentMain, Calls, recordVars
    <2>2. /\ theMain \in 1..built /\ owner[theMain] = Main
          /\ record[theMain].isMain
      BY <1>0, <1>3 DEF PlacesInv, RecordFits, RecordsApart
    <2>3. locals[o].thread = "unmade" /\ call[o].op = "none"
      BY <1>0, <1>3, <2>1 DEF ThreadFits, TornDown, CallFits, TypeOK, Locals, Stages,
         CurrentMain, Calls
    <2>4. record[theMain].registered
      BY <1>0, <2>1, <2>2, <2>3 DEF PlacesInv, RecordFits
    <2>5. CallFits(o)'
      BY <2>1, <2>2, <2>3, <2>4, CallBegins, CurrentBegins
    <2>6. ASSUME NEW p \in Os, p # o PROVE CallFits(p)'
      BY <2>1, <2>6, CallBegins, CallStays
    <2> QED  BY <2>5, <2>6
  <1>4. ASSUME CurrentMain(o), theMain = NoRecord PROVE (\A p \in Os : CallFits(p))'
    <2>1. /\ Enter(o, "current", "begin", built + 1) /\ BuildMain /\ MakeLoop(o)
          /\ life' = life /\ Live(o) /\ ~TornDown(o) /\ holder[o] = NoRecord /\ o = Main
      BY <1>4 DEF CurrentMain, Calls
    <2>2. locals[o].thread = "unmade" /\ locals'[o].thread = "unmade"
      BY <1>0, <2>1, LoopMade DEF ThreadFits, TornDown, TypeOK, Locals, Stages
    <2>3. CallFits(o)'
      BY <2>1, <2>2, MainBuilt, CallBegins, CurrentBegins
    <2>4. ASSUME NEW p \in Os, p # o PROVE CallFits(p)'
      BY <2>1, <2>4, MainBuilt, LoopMade, CallBegins, CallStays
    <2> QED  BY <2>3, <2>4
  <1>5. ASSUME Adopt(o) PROVE (\A p \in Os : CallFits(p))'
    <2>1. /\ Enter(o, "current", "begin", built + 1) /\ MakeLoop(o)
          /\ life' = life /\ Live(o) /\ ~TornDown(o) /\ holder[o] = NoRecord
      BY <1>5 DEF Adopt, Calls
    <2>2. locals[o].thread = "unmade" /\ locals'[o].thread = "unmade"
      BY <1>0, <2>1, LoopMade DEF ThreadFits, TornDown, TypeOK, Locals, Stages
    <2>3. CallFits(o)'
      BY <1>5, <2>1, <2>2, AdoptedBuilt, CallBegins, CurrentBegins
    <2>4. ASSUME NEW p \in Os, p # o PROVE CallFits(p)'
      BY <1>5, <2>1, <2>4, AdoptedBuilt, LoopMade, CallBegins, CallStays
    <2> QED  BY <2>3, <2>4
  <1>6. ASSUME CurrentInstalled(o) PROVE (\A p \in Os : CallFits(p))'
    <2>1. /\ call' = [call EXCEPT ![o] = Idle] /\ UNCHANGED <<life, built, record, owner>>
          /\ \A p \in Os : p # o => locals'[p] = locals[p]
      BY <1>0, <1>6 DEF CurrentInstalled, Returns, recordVars, TypeOK
    <2>2. CallFits(o)'
      BY <1>0, <2>1 DEF CallFits, Idle, TypeOK
    <2>3. ASSUME NEW p \in Os, p # o PROVE CallFits(p)'
      BY <1>0, <2>1, <2>3, CallStays DEF TypeOK
    <2> QED  BY <2>2, <2>3
  <1>7. ASSUME CurrentLoop(o) PROVE (\A p \in Os : CallFits(p))'
    BY <1>7, LoopMade, CallStays DEF CurrentLoop, recordVars
  <1> QED  BY <1>1, <1>2, <1>3, <1>4, <1>5, <1>6, <1>7 DEF Current

\* A thread whose call has ended is in none.
LEMMA IdleFits ==
    ASSUME NEW o \in Os, call'[o] = Idle
    PROVE  CallFits(o)'
  BY DEF CallFits, Idle

\* A call that ends leaves the others' as they were, and one that goes on too.
LEMMA CallReturns ==
    ASSUME PlacesInv, NEW o \in Os, call' = [call EXCEPT ![o] = Idle]
    PROVE  CallFits(o)' /\ \A p \in Os : p # o => call'[p] = call[p]
  <1>1. call'[o] = Idle /\ \A p \in Os : p # o => call'[p] = call[p]
    BY DEF PlacesInv, TypeOK
  <1> QED  BY <1>1, IdleFits

LEMMA CallGoes ==
    ASSUME PlacesInv, NEW o \in Os, NEW at, Goes(o, at)
    PROVE  /\ call'[o].at = at /\ call'[o].op = call[o].op /\ call'[o].rec = call[o].rec
           /\ call'[o].over = call[o].over
           /\ \A p \in Os : p # o => call'[p] = call[p]
  BY DEF Goes, PlacesInv, TypeOK, CallStates

LEMMA CallBirths ==
    ASSUME PlacesInv, NEW o \in Os, Born(o) \/ Install(o) \/ Publish(o) \/ Started(o)
    PROVE  (\A p \in Os : CallFits(p))'
  <1>0. TypeOK /\ (\A p \in Os : CallFits(p) /\ ThreadFits(p)) /\ RecordsApart
    BY DEF PlacesInv
  <1> USE DEF recordVars, threadVars
  <1>1. ASSUME Born(o) PROVE (\A p \in Os : CallFits(p))'
    BY <1>0, <1>1 DEF Born, Spawn, CallFits, Live, TypeOK
  <1>2. ASSUME Install(o) PROVE (\A p \in Os : CallFits(p))'
    <2> DEFINE r == call[o].rec
    <2>1. /\ Goes(o, "wait") /\ UNCHANGED <<life, built, owner>> /\ r \in 1..built
          /\ call[o].op = "born" /\ owner[r] = o /\ life[o] = "alive"
      BY <1>0, <1>2 DEF Install, CallFits
    <2>2. /\ record'[r].registered
          /\ \A q \in 1..built : q # r => record'[q] = record[q]
      BY <1>0, <1>2, <2>1, RecordNumbers DEF Install, TypeOK, RecordStates
    <2>3. CallFits(o)'
      BY <2>1, <2>2, CallGoes DEF CallFits, Live
    <2>4. ASSUME NEW p \in Os, p # o PROVE CallFits(p)'
      <3>1. CallFits(p) /\ call'[p] = call[p] /\ locals'[p] = locals[p]
        BY <1>0, <1>2, <2>1, <2>4, CallGoes DEF Install, TypeOK
      <3>2. owner[call[p].rec] = p => call[p].rec # r
        BY <2>1, <2>4
      <3> QED  BY <2>1, <2>2, <3>1, <3>2 DEF CallFits, Live
    <2> QED  BY <2>3, <2>4
  <1>3. ASSUME Publish(o) PROVE (\A p \in Os : CallFits(p))'
    <2>1. /\ call' = [call EXCEPT ![o] = Idle] /\ UNCHANGED <<life, locals, built, owner>>
          /\ \A q \in 1..built : record'[q].registered = record[q].registered
      BY <1>0, <1>3, RecordNumbers DEF Publish, TypeOK, RecordStates
    <2> QED  BY <2>1, CallReturns, CallStays
  <1>4. ASSUME Started(o) PROVE (\A p \in Os : CallFits(p))'
    BY <1>4, CallReturns, CallStays DEF Started, Returns
  <1> QED  BY <1>1, <1>2, <1>3, <1>4

LEMMA CallHandle ==
    ASSUME PlacesInv, NEW o \in Os
    PROVE  /\ \A r \in Reachable : Handle(o, r) => (\A p \in Os : CallFits(p))'
           /\ PerformOnLoop(o) \/ Look(o) \/ LookTooLate(o) \/ Wake(o)
                => (\A p \in Os : CallFits(p))'
  <1>0. TypeOK /\ (\A p \in Os : CallFits(p) /\ ThreadFits(p)) /\ RecordsApart
    BY DEF PlacesInv
  <1> USE DEF recordVars, threadVars
  <1>1. ASSUME NEW op, NEW at, NEW r \in Reachable, Enter(o, op, at, r), Live(o),
               \/ op = "perform" /\ at = "queue" /\ ~record[r].finished
               \/ op \in {"join", "join_for"} /\ at = "look",
               UNCHANGED <<life, locals, built, record, owner>>
        PROVE  (\A p \in Os : CallFits(p))'
    <2>1. call'[o] = Entered(op, at, r) /\ r \in 1..built /\ record[r].registered
      BY <1>1, CallBegins, ReachableBuilt
    <2>2. CallFits(o)'
      BY <1>1, <2>1 DEF Entered, CallFits, Live
    <2>3. ASSUME NEW p \in Os, p # o PROVE CallFits(p)'
      BY <1>1, <2>3, CallBegins, CallStays
    <2> QED  BY <2>2, <2>3
  <1>2. ASSUME UNCHANGED <<life, locals, built, record, owner, call>>
        PROVE  (\A p \in Os : CallFits(p))'
    BY <1>2, CallStays
  <1>3. ASSUME NEW r \in Reachable, Perform(o, r) PROVE (\A p \in Os : CallFits(p))'
    BY <1>1, <1>2, <1>3 DEF Perform, Calls, AtOnce
  <1>4. ASSUME NEW r \in Reachable, Quit(o, r) PROVE (\A p \in Os : CallFits(p))'
    <2>1. \A q \in 1..built : record'[q].registered = record[q].registered
      BY <1>0, <1>4, RecordNumbers DEF Quit, TypeOK, RecordStates
    <2> QED  BY <1>4, <2>1, CallStays DEF Quit
  <1>5. ASSUME NEW r \in Reachable, AskIsCurrent(o, r) PROVE (\A p \in Os : CallFits(p))'
    BY <1>2, <1>5 DEF AskIsCurrent, AtOnce
  <1>6. ASSUME NEW r \in Reachable, NEW op \in {"join", "join_for"}, Wait(o, op, r)
        PROVE  (\A p \in Os : CallFits(p))'
    BY <1>1, <1>2, <1>6 DEF Wait, Calls, AtOnce
  <1>7. ASSUME NEW value, Returns(o, value), UNCHANGED <<life, locals, built, record, owner>>
        PROVE  (\A p \in Os : CallFits(p))'
    BY <1>7, CallReturns, CallStays DEF Returns
  <1>8. ASSUME NEW at \in {"look", "asleep"}, Goes(o, at), call[o].op \in {"join", "join_for"},
               UNCHANGED <<life, locals, built, record, owner>>
        PROVE  (\A p \in Os : CallFits(p))'
    <2>1. CallFits(o)'
      BY <1>0, <1>8, CallGoes DEF CallFits, Live
    <2>2. ASSUME NEW p \in Os, p # o PROVE CallFits(p)'
      BY <1>8, <2>2, CallGoes, CallStays
    <2> QED  BY <2>1, <2>2
  <1>9. ASSUME Wake(o) PROVE call[o].op \in {"join", "join_for"}
    BY <1>0, <1>9 DEF Wake, CallFits, TypeOK, CallStates, Ops
  <1>10. ASSUME PerformOnLoop(o) \/ Look(o) \/ LookTooLate(o) \/ Wake(o)
         PROVE  (\A p \in Os : CallFits(p))'
    BY <1>7, <1>8, <1>9, <1>10 DEF PerformOnLoop, Look, LookTooLate, Wake
  <1> QED  BY <1>3, <1>4, <1>5, <1>6, <1>10 DEF Handle

LEMMA CallEnds ==
    ASSUME PlacesInv, NEW o \in Os
    PROVE  Die(o) \/ Destroys(o) \/ Finish(o) \/ NotifyDone(o) \/ TearDown(o)
             => (\A p \in Os : CallFits(p))'
  <1>0. TypeOK /\ (\A p \in Os : CallFits(p) /\ ThreadFits(p)) /\ RecordsApart
    BY DEF PlacesInv
  <1> USE DEF recordVars, threadVars
  <1>1. ASSUME Die(o) \/ Dead(o) PROVE (\A p \in Os : CallFits(p))'
    BY <1>0, <1>1 DEF Die, Dead, CallFits, Live, TypeOK
  <1>2. ASSUME NEW object \in {"loop", "own"}, DestroyOther(o, object)
        PROVE  (\A p \in Os : CallFits(p))'
    <2>1. \A p \in Os : locals'[p].thread = locals[p].thread
      BY <1>0, <1>2 DEF DestroyOther, TypeOK, Locals
    <2> QED  BY <1>2, <2>1, CallStays DEF DestroyOther
  <1>3. ASSUME Leave(o) PROVE (\A p \in Os : CallFits(p))'
    <2>1. /\ Enter(o, "end", "finish", holder[o]) /\ holder[o] \in 1..built
          /\ UNCHANGED <<life, locals, built, record, owner>>
          /\ life[o] = "dying" /\ locals[o].thread = "made"
      BY <1>0, <1>3 DEF Leave, ThreadFits
    <2>2. call'[o] = Entered("end", "finish", holder[o])
      BY <2>1, CallBegins
    <2>3. call'[o].op = "end" /\ call'[o].at = "finish" /\ call'[o].rec = holder[o]
      BY <2>2 DEF Entered
    <2>4. CallFits(o)'
      BY <2>1, <2>3 DEF CallFits, Live
    <2>5. ASSUME NEW p \in Os, p # o PROVE CallFits(p)'
      BY <2>1, <2>5, CallBegins, CallStays
    <2> QED  BY <2>4, <2>5
  <1>4. ASSUME Finish(o) PROVE (\A p \in Os : CallFits(p))'
    <2>1. \A q \in 1..built : record'[q].registered = record[q].registered
      BY <1>0, <1>4, RecordNumbers DEF Finish, TypeOK, RecordStates
    <2>2. /\ Goes(o, "notify") /\ call[o].op = "end"
          /\ UNCHANGED <<life, locals, built, owner>>
      BY <1>4 DEF Finish
    <2>3. CallFits(o)'
      BY <1>0, <2>2, CallGoes DEF CallFits, Live
    <2>4. ASSUME NEW p \in Os, p # o PROVE CallFits(p)'
      BY <2>1, <2>2, <2>4, CallGoes, CallStays
    <2> QED  BY <2>3, <2>4
  <1>5. ASSUME NotifyDone(o) PROVE (\A p \in Os : CallFits(p))'
    <2>1. UNCHANGED <<life, locals, built, record, owner>> /\ call[o].op = "end"
      BY <1>5 DEF NotifyDone
    <2>2. ASSUME NEW p \in Os PROVE CallFits(p)'
      <3>1. /\ call'[p].op = call[p].op /\ call'[p].rec = call[p].rec
            /\ call'[p].over = call[p].over
            /\ \/ call'[p].at = call[p].at
               \/ p = o /\ call'[p].at = "torn"
               \/ call[p].at = "asleep" /\ call'[p].at = "look"
          BY <1>0, <1>5 DEF NotifyDone, Woken, TypeOK, CallStates
      <3>2. CallFits(p) /\ call[p].op \in Ops
        BY <1>0 DEF TypeOK, CallStates
      <3> QED  BY <2>1, <3>1, <3>2 DEF CallFits, Live, Ops
    <2> QED  BY <2>2
  <1>6. ASSUME TearDown(o) PROVE (\A p \in Os : CallFits(p))'
    <2>1. /\ call' = [call EXCEPT ![o] = Idle] /\ UNCHANGED <<life, built, record, owner>>
          /\ \A p \in Os : p # o => locals'[p] = locals[p]
      BY <1>0, <1>6 DEF TearDown, TypeOK
    <2> QED  BY <2>1, CallReturns, CallStays
  <1> QED  BY <1>1, <1>2, <1>3, <1>4, <1>5, <1>6 DEF Destroys

LEMMA CallStep ==
    ASSUME PlacesInv, [Next]_vars
    PROVE  (\A p \in Os : CallFits(p))'
  <1>1. CASE UNCHANGED vars
    BY <1>1, CallStays DEF vars
  <1>2. ASSUME NEW o \in Os, Library(o) \/ Program(o) \/ Timing(o) \/ Destroys(o)
        PROVE  (\A p \in Os : CallFits(p))'
    BY <1>2, CallBirths, CallStarts, CallCurrent, CallHandle, CallEnds
       DEF Library, Program, Timing
  <1> QED  BY <1>1, <1>2 DEF Next

-----------------------------------------------------------------------------
(* Threads, their ids and their thread-local objects.                      *)

\* A thread's holder and objects fit while they, its life and its id stay.
LEMMA ThreadStays ==
    ASSUME PlacesInv, NEW p \in Os, holder'[p] = holder[p], life'[p] = life[p],
           id'[p] = id[p], locals'[p].thread = locals[p].thread,
           built' \in {built, built + 1}, \A r \in 1..built : owner'[r] = owner[r]
    PROVE  ThreadFits(p)'
  <1>1. ThreadFits(p) /\ built \in Nat
    BY DEF PlacesInv, TypeOK
  <1>2. holder[p] # NoRecord => holder[p] \in 1..built /\ holder[p] \in 1..built'
    BY <1>1 DEF ThreadFits
  <1> QED  BY <1>1, <1>2 DEF ThreadFits, Live

\* A thread that starts has an id that no other has.
LEMMA SpawnFits ==
    ASSUME PlacesInv, NEW o \in Os, Spawn(o),
           UNCHANGED <<locals, holder>>, built' \in {built, built + 1},
           \A r \in 1..built : owner'[r] = owner[r]
    PROVE  (\A p \in Os : ThreadFits(p))' /\ IdsApart'
  <1>0. TypeOK /\ (\A p \in Os : ThreadFits(p)) /\ IdsApart
    BY DEF PlacesInv
  <1>1. life[o] = "unborn" /\ life'[o] = "alive" /\ \A p \in Os : p # o => life'[p] = life[p]
    BY <1>0 DEF Spawn, TypeOK
  <1>2. PICK i \in FreshIds : id' = [id EXCEPT ![o] = i]
    BY DEF Spawn
  <1>3. i \in NativeIds /\ \A p \in Os : id[p] # i
    BY <1>2 DEF FreshIds
  <1>4. id'[o] = i /\ \A p \in Os : p # o => id'[p] = id[p]
    BY <1>0, <1>2 DEF TypeOK
  <1>5. ThreadFits(o)'
    <2>1. ThreadFits(o)
      BY <1>0
    <2>2. holder'[o] = NoRecord /\ locals'[o].thread = "unmade"
      BY <1>1, <2>1 DEF ThreadFits
    <2> QED  BY <1>1, <1>3, <1>4, <2>2, ThreadsAssumption DEF ThreadFits, Live
  <1>6. ASSUME NEW p \in Os, p # o PROVE ThreadFits(p)'
    BY <1>1, <1>4, <1>6, ThreadStays
  <1>7. IdsApart'
    BY <1>0, <1>1, <1>3, <1>4, ThreadsAssumption DEF IdsApart
  <1> QED  BY <1>5, <1>6, <1>7

LEMMA ThreadStep ==
    ASSUME PlacesInv, [Next]_vars
    PROVE  (\A p \in Os : ThreadFits(p))' /\ IdsApart'
  <1>0. TypeOK /\ (\A p \in Os : CallFits(p) /\ ThreadFits(p)) /\ IdsApart /\ RecordsApart
    BY DEF PlacesInv
  <1> USE DEF recordVars, threadVars
  <1>1. ASSUME UNCHANGED <<life, id, holder>>, built' \in {built, built + 1},
               \A p \in Os : locals'[p].thread = locals[p].thread,
               \A r \in 1..built : owner'[r] = owner[r]
        PROVE  (\A p \in Os : ThreadFits(p))' /\ IdsApart'
    BY <1>0, <1>1, ThreadStays DEF IdsApart
  <1>2. CASE UNCHANGED vars
    BY <1>1, <1>2 DEF vars
  <1>3. ASSUME NEW o \in Os, Born(o) PROVE (\A p \in Os : ThreadFits(p))' /\ IdsApart'
    BY <1>3, SpawnFits DEF Born
  <1>4. ASSUME NEW o \in Os, NEW new \in Os, NEW b \in BOOLEAN, Start(o, new, b)
        PROVE  (\A p \in Os : ThreadFits(p))' /\ IdsApart'
    <2> DEFINE state == [Blank EXCEPT !.hasLoop = b]
    <2>1. Build(new, state) /\ state \in RecordStates
      BY <1>0, <1>4, BlankTypes DEF Start
    <2> HIDE DEF state
    <2>2. built' = built + 1 /\ \A r \in 1..built : owner'[r] = owner[r]
      BY <2>1, BuildFits
    <2> QED  BY <1>4, <2>2, SpawnFits DEF Start
  <1>5. ASSUME NEW o \in Os, Install(o) PROVE (\A p \in Os : ThreadFits(p))' /\ IdsApart'
    <2> DEFINE r == call[o].rec
    <2>1. /\ r \in 1..built /\ owner[r] = o /\ life[o] = "alive"
          /\ holder' = [holder EXCEPT ![o] = r] /\ UNCHANGED <<life, id, built, owner>>
      BY <1>0, <1>5 DEF Install, CallFits
    <2>2. locals'[o].thread = "made" /\ \A p \in Os : p # o => locals'[p] = locals[p]
      BY <1>0, <1>5 DEF Install, TypeOK, Locals
    <2>3. r # NoRecord /\ holder'[o] = r
      BY <1>0, <2>1, RecordNumbers DEF TypeOK
    <2>4. ThreadFits(o)'
      BY <1>0, <2>1, <2>2, <2>3 DEF ThreadFits, Live
    <2>5. ASSUME NEW p \in Os, p # o PROVE ThreadFits(p)'
      BY <1>0, <2>1, <2>2, <2>5, ThreadStays DEF TypeOK
    <2> QED  BY <1>0, <2>1, <2>4, <2>5 DEF IdsApart
  <1>6. ASSUME NEW o \in Os,
               \/ Publish(o) \/ Started(o) \/ PerformOnLoop(o) \/ Look(o) \/ LookTooLate(o)
               \/ Wake(o) \/ Leave(o) \/ Finish(o) \/ NotifyDone(o)
               \/ CurrentTornDown(o) \/ CurrentKnown(o)
               \/ \E r \in Reachable : Handle(o, r)
        PROVE  (\A p \in Os : ThreadFits(p))' /\ IdsApart'
    <2>1. UNCHANGED <<life, id, holder, locals, built, owner>>
      BY <1>6 DEF Publish, Started, PerformOnLoop, Look, LookTooLate, Wake, Leave, Finish,
         NotifyDone, CurrentTornDown, CurrentKnown, Handle, Perform, Quit, AskIsCurrent, Wait
    <2> QED  BY <1>1, <2>1
  <1>7. ASSUME NEW o \in Os, AskMain(o) \/ CurrentMain(o) \/ Adopt(o) \/ CurrentLoop(o)
        PROVE  (\A p \in Os : ThreadFits(p))' /\ IdsApart'
    <2>1. UNCHANGED <<life, id, holder>> /\ (UNCHANGED locals \/ MakeLoop(o))
      BY <1>7 DEF AskMain, CurrentMain, Adopt, CurrentLoop
    <2>2. BuildMain \/ Adopt(o) \/ UNCHANGED <<built, owner>>
      BY <1>7 DEF AskMain, CurrentMain, CurrentLoop
    <2>3. built' \in {built, built + 1} /\ \A r \in 1..built : owner'[r] = owner[r]
      BY <2>2, MainBuilt, AdoptedBuilt
    <2> QED  BY <1>1, <2>1, <2>3, LoopMade
  <1>8. ASSUME NEW o \in Os, CurrentInstalled(o)
        PROVE  (\A p \in Os : ThreadFits(p))' /\ IdsApart'
    <2> DEFINE r == call[o].rec
    <2>1. /\ r \in 1..built /\ owner[r] = o /\ Live(o) /\ locals[o].thread = "unmade"
          /\ holder' = [holder EXCEPT ![o] = r] /\ UNCHANGED <<life, id, built, owner>>
      BY <1>0, <1>8 DEF CurrentInstalled, CallFits
    <2>2. locals'[o].thread = "made" /\ \A p \in Os : p # o => locals'[p] = locals[p]
      BY <1>0, <1>8, <2>1 DEF CurrentInstalled, TypeOK, Locals
    <2>3. r # NoRecord /\ holder'[o] = r
      BY <1>0, <2>1, RecordNumbers DEF TypeOK
    <2>4. ThreadFits(o)'
      BY <1>0, <2>1, <2>2, <2>3 DEF ThreadFits, Live
    <2>5. ASSUME NEW p \in Os, p # o PROVE ThreadFits(p)'
      BY <1>0, <2>1, <2>2, <2>5, ThreadStays DEF TypeOK
    <2> QED  BY <1>0, <2>1, <2>4, <2>5 DEF IdsApart
  <1>9. ASSUME NEW o \in Os, TearDown(o) PROVE (\A p \in Os : ThreadFits(p))' /\ IdsApart'
    <2>1. /\ holder' = [holder EXCEPT ![o] = NoRecord] /\ life[o] = "dying"
          /\ UNCHANGED <<life, id, built, owner>>
      BY <1>0, <1>9 DEF TearDown, CallFits
    <2>2. locals'[o].thread = "gone" /\ \A p \in Os : p # o => locals'[p] = locals[p]
      BY <1>0, <1>9 DEF TearDown, TypeOK, Locals
    <2>3. ThreadFits(o)'
      BY <1>0, <2>1, <2>2 DEF ThreadFits, Live, TypeOK
    <2>4. ASSUME NEW p \in Os, p # o PROVE ThreadFits(p)'
      BY <1>0, <2>1, <2>2, <2>4, ThreadStays DEF TypeOK
    <2> QED  BY <1>0, <2>1, <2>3, <2>4 DEF IdsApart
  <1>10. ASSUME NEW o \in Os, NEW object \in {"loop", "own"}, DestroyOther(o, object)
         PROVE  (\A p \in Os : ThreadFits(p))' /\ IdsApart'
    <2>1. \A p \in Os : locals'[p].thread = locals[p].thread
      BY <1>0, <1>10 DEF DestroyOther, TypeOK, Locals
    <2> QED  BY <1>1, <1>10, <2>1 DEF DestroyOther
  <1>11. ASSUME NEW o \in Os, Die(o) PROVE (\A p \in Os : ThreadFits(p))' /\ IdsApart'
    BY <1>0, <1>11 DEF Die, ThreadFits, IdsApart, Live, TypeOK
  <1>12. ASSUME NEW o \in Os, Dead(o) PROVE (\A p \in Os : ThreadFits(p))' /\ IdsApart'
    <2>1. locals[o].thread # "made"
      BY <1>0, <1>12 DEF Dead, TypeOK, Locals
    <2> QED  BY <1>0, <1>12, <2>1 DEF Dead, ThreadFits, IdsApart, Live, TypeOK
  <1> QED
    BY <1>2, <1>3, <1>4, <1>5, <1>6, <1>7, <1>8, <1>9, <1>10, <1>11, <1>12
       DEF Next, Library, Program, Timing, Destroys, Current

-----------------------------------------------------------------------------
(* Records, from their making to their end.                                *)

\* A record stays as it fits while it, its thread and its place in the registry do.
LEMMA RecordStays ==
    ASSUME PlacesInv, NEW r \in 1..built, record'[r] = record[r], owner'[r] = owner[r],
           (r = theMain') <=> (r = theMain), (r \in registry') <=> (r \in registry),
           life'[owner[r]] = life[owner[r]], id'[owner[r]] = id[owner[r]],
           holder'[owner[r]] = holder[owner[r]],
           locals'[owner[r]].thread = locals[owner[r]].thread,
           \/ /\ call'[owner[r]].op = call[owner[r]].op
              /\ call'[owner[r]].at = call[owner[r]].at
              /\ call'[owner[r]].rec = call[owner[r]].rec
           \/ /\ call[owner[r]].op \notin {"born", "current", "end"}
              /\ call'[owner[r]].op \notin {"born", "current", "end"}
    PROVE  RecordFits(r)'
  <1>1. RecordFits(r)
    BY DEF PlacesInv
  <1> QED  BY <1>1 DEF RecordFits, Live

\* A thread without a holder, that was neither torn down nor is in a call, has no record,
\* but the main one the main thread's.
LEMMA Recordless ==
    ASSUME PlacesInv, NEW o \in Os, holder[o] = NoRecord, ~TornDown(o), call[o].at = "done",
           o # Main \/ theMain = NoRecord
    PROVE  \A r \in 1..built : owner[r] # o
  <1> SUFFICES ASSUME NEW r \in 1..built, owner[r] = o
              PROVE  FALSE
    OBVIOUS
  <1>1. RecordFits(r) /\ CallFits(o) /\ r \in Records
    BY RecordNumbers DEF PlacesInv
  <1>2. call[o].op = "none"
    BY <1>1 DEF CallFits
  <1>3. record[r].registered /\ holder[o] # r
    BY <1>1, <1>2, RecordNumbers DEF RecordFits
  <1>4. locals[o].thread = "unmade" /\ r = theMain
    BY <1>1, <1>2, <1>3 DEF RecordFits, TornDown
  <1>5. o = Main /\ r # NoRecord
    BY <1>1, <1>4, RecordNumbers DEF RecordFits
  <1> QED  BY <1>4, <1>5

\* Nor has one that was not born.
LEMMA UnbornRecordless ==
    ASSUME PlacesInv, NEW o \in Os, life[o] = "unborn"
    PROVE  \A r \in 1..built : owner[r] # o
  BY DEF PlacesInv, RecordFits

\* And before the main record is made, the main thread is in no call that has one.
LEMMA MainRecordless ==
    ASSUME PlacesInv, theMain = NoRecord
    PROVE  /\ \A r \in 1..built : owner[r] # Main
           /\ holder[Main] = NoRecord /\ locals[Main].thread = "unmade"
           /\ call[Main].op \notin {"born", "current", "end"}
  <1>0. TypeOK /\ ThreadFits(Main) /\ CallFits(Main) /\ Main \in Os
    BY ThreadsAssumption DEF PlacesInv
  <1>1. \A r \in 1..built : owner[r] # Main
    BY RecordNumbers, <1>0 DEF PlacesInv, RecordFits
  <1>2. holder[Main] = NoRecord
    BY <1>0, <1>1 DEF ThreadFits
  <1>3. locals[Main].thread = "unmade"
    BY DEF PlacesInv, RecordsApart
  <1> QED  BY <1>0, <1>1, <1>2, <1>3 DEF CallFits

\* Building a record of a thread that has none keeps the records apart.
LEMMA BuildApart ==
    ASSUME PlacesInv, NEW o \in Os, NEW state \in RecordStates, Build(o, state),
           \A r \in 1..built : owner[r] # o,
           \/ theMain' = theMain /\ locals'[Main].thread = locals[Main].thread
           \/ theMain' = built + 1
    PROVE  RecordsApart'
  <1>1. RecordsApart /\ Main \in Os /\ built + 1 # NoRecord
    BY ThreadsAssumption, BuildFits, RecordNumbers DEF PlacesInv
  <1>2. (\A r, s \in 1..built : owner[r] = owner[s] => r = s)'
    BY <1>1, BuildFits DEF RecordsApart
  <1>3. (\A r \in Records : r > built => record[r] = Blank)'
    BY <1>1, BuildFits DEF RecordsApart
  <1>4. 1..built \subseteq 1..built' /\ built + 1 \in 1..built'
    BY BuildFits
  <1> QED  BY <1>1, <1>2, <1>3, <1>4 DEF RecordsApart

\* What changes only built records, and the main thread's holder no sooner than it
\* has its record, keeps them apart.
LEMMA ApartStays ==
    ASSUME PlacesInv, UNCHANGED <<built, owner, theMain>>,
           \A r \in Records : r > built => record'[r] = record[r],
           theMain = NoRecord => locals'[Main].thread = locals[Main].thread
    PROVE  RecordsApart'
  BY DEF PlacesInv, RecordsApart

LEMMA ApartStep ==
    ASSUME PlacesInv, [Next]_vars
    PROVE  RecordsApart'
  <1>0. TypeOK /\ (\A p \in Os : CallFits(p) /\ ThreadFits(p)) /\ Main \in Os
    BY ThreadsAssumption DEF PlacesInv
  <1> USE DEF recordVars, threadVars
  <1>1. CASE UNCHANGED vars
    BY <1>1, ApartStays DEF vars
  <1>2. ASSUME NEW o \in Os, NEW new \in Os, NEW b \in BOOLEAN, Start(o, new, b)
        PROVE  RecordsApart'
    <2> DEFINE state == [Blank EXCEPT !.hasLoop = b]
    <2>1. /\ Build(new, state) /\ state \in RecordStates /\ life[new] = "unborn"
          /\ UNCHANGED <<theMain, locals>>
      BY <1>0, <1>2, BlankTypes DEF Start, Spawn
    <2> HIDE DEF state
    <2> QED  BY <2>1, UnbornRecordless, BuildApart
  <1>3. ASSUME NEW o \in Os,
               \/ Born(o) \/ Started(o) \/ PerformOnLoop(o) \/ Look(o) \/ LookTooLate(o)
               \/ Wake(o) \/ Leave(o) \/ NotifyDone(o) \/ Die(o) \/ Dead(o)
               \/ CurrentTornDown(o) \/ CurrentKnown(o)
               \/ CurrentMain(o) /\ theMain # NoRecord
               \/ \E r \in Reachable :
                    \/ Perform(o, r) \/ AskIsCurrent(o, r)
                    \/ \E op \in {"join", "join_for"} : Wait(o, op, r)
        PROVE  RecordsApart'
    <2>1. UNCHANGED <<locals, built, record, owner, theMain>>
      BY <1>3 DEF Born, Started, PerformOnLoop, Look, LookTooLate, Wake, Leave, NotifyDone,
         Die, Dead, CurrentTornDown, CurrentKnown, CurrentMain, Perform, AskIsCurrent, Wait
    <2> QED  BY <2>1, ApartStays
  <1>4. ASSUME NEW o \in Os, Install(o) \/ CurrentInstalled(o)
        PROVE  RecordsApart'
    <2>1. call[o].rec \in 1..built /\ call[o].op \in {"born", "current"}
          /\ UNCHANGED <<built, owner, theMain>>
      BY <1>0, <1>4 DEF Install, CurrentInstalled, CallFits
    <2>2. \A r \in Records : r > built => record'[r] = record[r]
      <3>1. \A r \in Records : r # call[o].rec => record'[r] = record[r]
        BY <1>0, <1>4 DEF Install, CurrentInstalled, TypeOK
      <3>2. \A r \in Records : r > built => r # call[o].rec
        BY <1>0, <2>1 DEF Records, TypeOK
      <3> QED  BY <3>1, <3>2
    <2>3. theMain = NoRecord => o # Main
      BY <2>1, MainRecordless
    <2>4. o # Main => locals'[Main] = locals[Main]
      BY <1>0, <1>4 DEF Install, CurrentInstalled, TypeOK
    <2> QED  BY <2>1, <2>2, <2>3, <2>4, ApartStays
  <1>5. ASSUME NEW o \in Os, TearDown(o) PROVE RecordsApart'
    <2>1. UNCHANGED <<built, record, owner, theMain>> /\ call[o].op = "end"
      BY <1>5 DEF TearDown
    <2>2. theMain = NoRecord => o # Main
      BY <2>1, MainRecordless
    <2>3. o # Main => locals'[Main] = locals[Main]
      BY <1>0, <1>5 DEF TearDown, TypeOK
    <2> QED  BY <2>1, <2>2, <2>3, ApartStays
  <1>6. ASSUME NEW o \in Os, Publish(o) \/ Finish(o) \/ \E r \in Reachable : Quit(o, r)
        PROVE  RecordsApart'
    <2>1. UNCHANGED <<locals, built, owner, theMain>>
      BY <1>6 DEF Publish, Finish, Quit
    <2>2. PICK r \in 1..built : \A q \in Records : q # r => record'[q] = record[q]
      <3>1. CASE Publish(o)
        BY <1>0, <3>1 DEF Publish, CallFits, TypeOK
      <3>2. CASE Finish(o)
        BY <1>0, <3>2 DEF Finish, CallFits, ThreadFits, TypeOK
      <3>3. CASE \E q \in Reachable : Quit(o, q)
        BY <1>0, <3>3, ReachableBuilt DEF Quit, TypeOK
      <3> QED  BY <1>6, <3>1, <3>2, <3>3
    <2>3. \A q \in Records : q > built => q # r
      BY <1>0 DEF Records, TypeOK
    <2> QED  BY <2>1, <2>2, <2>3, ApartStays
  <1>7. ASSUME NEW o \in Os, NEW object \in {"loop", "own"},
               DestroyOther(o, object) \/ CurrentLoop(o)
        PROVE  RecordsApart'
    <2>1. \A p \in Os : locals'[p].thread = locals[p].thread
      BY <1>0, <1>7, LoopMade DEF DestroyOther, CurrentLoop, TypeOK, Locals
    <2> QED  BY <1>0, <1>7, <2>1, ApartStays DEF DestroyOther, CurrentLoop
  <1>8. ASSUME BuildMain, theMain = NoRecord PROVE RecordsApart'
    <2> DEFINE state == [Blank EXCEPT !.isMain = TRUE, !.nativeId = MainId, !.hasLoop = TRUE,
                                      !.registered = TRUE]
    <2>1. Build(Main, state) /\ state \in RecordStates /\ theMain' = built + 1
      BY <1>0, <1>8, BlankTypes DEF BuildMain
    <2> HIDE DEF state
    <2> QED  BY <1>0, <1>8, <2>1, MainRecordless, BuildApart
  <1>9. ASSUME NEW o \in Os, AskMain(o) \/ CurrentMain(o) PROVE RecordsApart'
    BY <1>3, <1>8, <1>9 DEF AskMain, CurrentMain
  <1>10. ASSUME NEW o \in Os, Adopt(o) PROVE RecordsApart'
    <2> DEFINE state == [Blank EXCEPT !.nativeId = id[o], !.hasLoop = TRUE, !.registered = TRUE]
    <2>1. /\ Build(o, state) /\ state \in RecordStates /\ MakeLoop(o) /\ theMain' = theMain
          /\ ~TornDown(o) /\ holder[o] = NoRecord /\ o # Main /\ call[o].at = "done"
      BY <1>0, <1>10, BlankTypes DEF Adopt, Calls
    <2> HIDE DEF state
    <2> QED  BY <1>0, <2>1, Recordless, LoopMade, BuildApart
  <1> QED
    BY <1>1, <1>2, <1>3, <1>4, <1>5, <1>6, <1>7, <1>9, <1>10
       DEF Next, Library, Program, Timing, Destroys, Current, Handle

\* The main record fits once it is built, so does an adopted one, and that of a
\* thread being started.
LEMMA MainFits ==
    ASSUME PlacesInv, NEW r, r = built + 1, BuildMain, theMain = NoRecord,
           UNCHANGED <<life, id, holder>>, locals'[Main].thread = locals[Main].thread,
           \/ call' = call
           \/ call'[Main].op = "current" /\ call'[Main].rec = r
    PROVE  RecordFits(r)'
  <1>1. IdsApart /\ ThreadFits(Main) /\ MainId # NoId /\ built + 1 # NoRecord
    BY ThreadsAssumption, MainBuilt, RecordNumbers DEF PlacesInv
  <1>2. /\ life'[Main] # "unborn" /\ id'[Main] = MainId /\ holder'[Main] = NoRecord
        /\ locals'[Main].thread = "unmade" /\ call'[Main].op \notin {"born", "end"}
    BY <1>1, MainRecordless DEF IdsApart
  <1> QED  BY <1>1, <1>2, MainBuilt DEF RecordFits

LEMMA AdoptedFits ==
    ASSUME PlacesInv, NEW o \in Os, Adopt(o), NEW r, r = built + 1
    PROVE  RecordFits(r)'
  <1>1. /\ TypeOK /\ ThreadFits(o) /\ RecordsApart /\ built + 1 # NoRecord
    BY AdoptedBuilt, RecordNumbers DEF PlacesInv
  <1>2. /\ Live(o) /\ ~TornDown(o) /\ holder[o] = NoRecord /\ o # Main
        /\ UNCHANGED <<life, id, holder>> /\ MakeLoop(o)
        /\ Enter(o, "current", "begin", built + 1)
    BY DEF Adopt, Calls
  <1>3. id'[o] # NoId /\ life'[o] # "unborn" /\ locals'[o].thread = "unmade"
    BY <1>1, <1>2, LoopMade DEF ThreadFits, Live, TornDown, TypeOK, Locals, Stages
  <1>4. call'[o] = Entered("current", "begin", built + 1)
    BY <1>2, CallBegins
  <1>5. call'[o].op = "current" /\ call'[o].rec = built + 1
    BY <1>4 DEF Entered
  <1>6. theMain' # built + 1
    BY <1>1, AdoptedBuilt, ZenonT(60) DEF RecordsApart
  <1> QED  BY <1>2, <1>3, <1>5, <1>6, AdoptedBuilt DEF RecordFits

LEMMA StartedFits ==
    ASSUME PlacesInv, NEW o \in Os, NEW new \in Os, NEW b \in BOOLEAN, Start(o, new, b)
    PROVE  (\A r \in 1..built : RecordFits(r))'
  <1> DEFINE state == [Blank EXCEPT !.hasLoop = b]
  <1>1. /\ Build(new, state) /\ Spawn(new) /\ Calls(o)
        /\ call' = [call EXCEPT ![o] = Entered("start", "wait", built + 1),
                                ![new] = Entered("born", "begin", built + 1)]
        /\ UNCHANGED <<locals, holder, theMain, registry>>
    BY DEF Start
  <1>2. /\ state \in RecordStates /\ ~state.registered /\ ~state.isMain
        /\ ~state.published /\ ~state.finished
    BY BlankTypes DEF Blank, PlacesInv
  <1> HIDE DEF state
  <1>3. TypeOK /\ RecordsApart /\ CallFits(o) /\ ThreadFits(new) /\ new # Main
        /\ built + 1 # NoRecord
    BY <1>1, <1>2, BuildFits, RecordNumbers DEF PlacesInv, IdsApart, Spawn
  <1>4. /\ life[new] = "unborn" /\ life'[new] = "alive" /\ o # new /\ call[o].op = "none"
        /\ \A p \in Os : p # new => life'[p] = life[p] /\ id'[p] = id[p]
    BY <1>1, <1>3 DEF Spawn, Calls, Live, CallFits, TypeOK
  <1>5. /\ call'[o] = Entered("start", "wait", built + 1)
        /\ call'[new] = Entered("born", "begin", built + 1)
        /\ \A p \in Os : p # o /\ p # new => call'[p] = call[p]
    BY <1>1, <1>3, <1>4 DEF TypeOK
  <1>6. /\ call'[o].op = "start" /\ call'[new].op = "born" /\ call'[new].at = "begin"
        /\ call'[new].rec = built + 1
    BY <1>5 DEF Entered
  <1>7. ASSUME NEW r, r = built + 1 PROVE RecordFits(r)'
    <2>1. locals'[new].thread = "unmade" /\ theMain' # built + 1 /\ built + 1 \notin registry'
      BY <1>1, <1>2, <1>3, <1>4, BuildFits DEF ThreadFits, RecordsApart, TypeOK
    <2> QED  BY <1>1, <1>2, <1>3, <1>4, <1>6, <1>7, <2>1, BuildFits DEF RecordFits
  <1>8. ASSUME NEW r \in 1..built PROVE RecordFits(r)'
    <2>1. owner[r] \in Os /\ owner[r] # new
      BY <1>3, <1>4, UnbornRecordless, RecordNumbers DEF TypeOK
    <2>2. record'[r] = record[r] /\ owner'[r] = owner[r]
      BY <1>1, <1>2, BuildFits
    <2>3. \/ call'[owner[r]] = call[owner[r]]
          \/ call[owner[r]].op = "none" /\ call'[owner[r]].op = "start"
      BY <1>4, <1>5, <1>6, <2>1
    <2> QED  BY <1>1, <1>4, <2>1, <2>2, <2>3, RecordStays
  <1> QED  BY <1>1, <1>2, <1>7, <1>8, BuildFits

\* What changes one thread's call, or its thread-local objects, and its record alone leaves
\* the other threads' records as they were.
LEMMA OthersRecordsStay ==
    ASSUME PlacesInv, NEW o \in Os, UNCHANGED <<built, owner, theMain>>,
           \A r \in 1..built : owner[r] # o => /\ record'[r] = record[r]
                                               /\ (r \in registry') <=> (r \in registry),
           \A p \in Os : p # o => /\ life'[p] = life[p] /\ id'[p] = id[p]
                                  /\ holder'[p] = holder[p] /\ locals'[p] = locals[p]
                                  /\ call'[p].op = call[p].op /\ call'[p].rec = call[p].rec
                                  /\ \/ call'[p].at = call[p].at
                                     \/ call[p].op \notin {"born", "current", "end"}
    PROVE  \A r \in 1..built : owner[r] # o => RecordFits(r)'
  <1> SUFFICES ASSUME NEW r \in 1..built, owner[r] # o
              PROVE  RecordFits(r)'
    OBVIOUS
  <1>1. owner[r] \in Os
    BY RecordNumbers DEF PlacesInv, TypeOK
  <1> QED  BY <1>1, RecordStays

LEMMA RecordBirths ==
    ASSUME PlacesInv, NEW o \in Os, Born(o) \/ Install(o) \/ Publish(o) \/ Started(o)
    PROVE  (\A r \in 1..built : RecordFits(r))'
  <1>0. TypeOK /\ CallFits(o) /\ ThreadFits(o) /\ RecordsApart
        /\ (\A r \in 1..built : RecordFits(r) /\ r \in Records /\ owner[r] \in Os)
    BY RecordNumbers DEF PlacesInv, TypeOK
  <1> USE DEF recordVars, threadVars
  <1>1. ASSUME Born(o) PROVE (\A r \in 1..built : RecordFits(r))'
    <2>1. ASSUME NEW r \in 1..built PROVE RecordFits(r)'
      <3>1. owner[r] # o /\ life'[owner[r]] = life[owner[r]] /\ id'[owner[r]] = id[owner[r]]
        BY <1>0, <1>1, UnbornRecordless DEF Born, Spawn, TypeOK
      <3> QED  BY <1>1, <3>1, RecordStays DEF Born
    <2> QED  BY <1>1, <2>1 DEF Born
  <1>2. ASSUME Install(o) PROVE (\A r \in 1..built : RecordFits(r))'
    <2> DEFINE r == call[o].rec
    <2>1. /\ r \in 1..built /\ owner[r] = o /\ life[o] = "alive" /\ Goes(o, "wait")
          /\ call[o].op = "born" /\ ~record[r].registered
          /\ UNCHANGED <<life, id, built, owner, theMain>>
          /\ registry' = registry \union {r}
      BY <1>0, <1>2 DEF Install, CallFits, Register
    <2>2. /\ record' = [record EXCEPT ![r] = [@ EXCEPT !.nativeId = id[o], !.registered = TRUE]]
          /\ holder'[o] = r /\ locals'[o].thread = "made"
          /\ \A p \in Os : p # o => holder'[p] = holder[p] /\ locals'[p] = locals[p]
      BY <1>0, <1>2 DEF Install, TypeOK, Locals
    <2>3. /\ record'[r].nativeId = id[o] /\ record'[r].registered
          /\ record'[r].isMain = record[r].isMain /\ record'[r].finished = record[r].finished
          /\ \A q \in Records : q # r => record'[q] = record[q]
      BY <1>0, <2>1, <2>2 DEF TypeOK, RecordStates
    <2>4. call'[o].op = "born" /\ \A p \in Os : p # o => call'[p] = call[p]
      BY <2>1, CallGoes
    <2>5. ASSUME NEW q \in 1..built, owner[q] = o PROVE RecordFits(q)'
      <3>1. q = r /\ ~record[r].finished /\ id[o] # NoId
        BY <1>0, <2>1, <2>5 DEF RecordsApart, RecordFits, ThreadFits, Live
      <3> QED  BY <1>0, <2>1, <2>2, <2>3, <2>4, <3>1, SMTT(40) DEF RecordFits
    <2>6. \A q \in 1..built : owner[q] # o => RecordFits(q)'
      <3>1. \A q \in 1..built : owner[q] # o => q # r
        BY <2>1
      <3> QED  BY <1>0, <2>1, <2>2, <2>3, <2>4, <3>1, OthersRecordsStay
    <2> QED  BY <2>1, <2>5, <2>6
  <1>3. ASSUME Publish(o) PROVE (\A r \in 1..built : RecordFits(r))'
    <2> DEFINE r == call[o].rec
    <2>1. /\ r \in 1..built /\ owner[r] = o /\ record[r].registered /\ call[o].op = "born"
          /\ call' = [call EXCEPT ![o] = Idle] /\ record' = [record EXCEPT ![r].published = TRUE]
          /\ UNCHANGED <<life, id, locals, holder, built, owner, theMain, registry>>
      BY <1>0, <1>3 DEF Publish, CallFits
    <2>2. /\ record'[r].nativeId = record[r].nativeId /\ record'[r].registered
          /\ record'[r].isMain = record[r].isMain /\ record'[r].finished = record[r].finished
          /\ \A q \in Records : q # r => record'[q] = record[q]
      BY <1>0, <2>1 DEF TypeOK, RecordStates
    <2>3. call'[o].op = "none" /\ \A p \in Os : p # o => call'[p] = call[p]
      BY <1>0, <2>1 DEF TypeOK, Idle
    <2>4. ASSUME NEW q \in 1..built, owner[q] = o PROVE RecordFits(q)'
      <3>1. q = r
        BY <1>0, <2>1, <2>4 DEF RecordsApart
      <3> QED  BY <1>0, <2>1, <2>2, <2>3, <3>1 DEF RecordFits, Live
    <2>5. \A q \in 1..built : owner[q] # o => RecordFits(q)'
      <3>1. \A q \in 1..built : owner[q] # o => q # r
        BY <2>1
      <3> QED  BY <1>0, <2>1, <2>2, <2>3, <3>1, OthersRecordsStay
    <2> QED  BY <2>1, <2>4, <2>5
  <1>4. ASSUME Started(o) PROVE (\A r \in 1..built : RecordFits(r))'
    <2>1. /\ call[o].op = "start" /\ call'[o].op = "none"
          /\ \A p \in Os : p # o => call'[p] = call[p]
      BY <1>0, <1>4 DEF Started, Returns, Idle, TypeOK
    <2>2. ASSUME NEW r \in 1..built PROVE RecordFits(r)'
      <3>1. \/ call'[owner[r]] = call[owner[r]]
            \/ call[owner[r]].op = "start" /\ call'[owner[r]].op = "none"
        BY <1>0, <2>1
      <3> QED  BY <1>4, <3>1, RecordStays DEF Started
    <2> QED  BY <1>4, <2>2 DEF Started
  <1> QED  BY <1>1, <1>2, <1>3, <1>4

LEMMA RecordCurrent ==
    ASSUME PlacesInv, NEW o \in Os, Current(o) \/ CurrentInstalled(o)
    PROVE  (\A r \in 1..built : RecordFits(r))'
  <1>0. /\ TypeOK /\ CallFits(o) /\ ThreadFits(o) /\ RecordsApart /\ Main \in Os
        /\ \A r \in 1..built : /\ RecordFits(r) /\ r \in Records /\ r # NoRecord
                               /\ owner[r] \in Os
    BY ThreadsAssumption, RecordNumbers DEF PlacesInv, TypeOK
  <1> USE DEF recordVars, threadVars
  <1>1. ASSUME BuildMain, theMain = NoRecord, UNCHANGED <<life, id, holder>>,
               \A p \in Os : locals'[p].thread = locals[p].thread,
               \/ call' = call
               \/ /\ call'[Main].op = "current" /\ call'[Main].rec = built + 1
                  /\ \A p \in Os : p # Main => call'[p] = call[p]
        PROVE  (\A r \in 1..built : RecordFits(r))'
    <2>1. ASSUME NEW r, r = built + 1 PROVE RecordFits(r)'
      BY <1>0, <1>1, <2>1, MainFits
    <2>2. ASSUME NEW r \in 1..built PROVE RecordFits(r)'
      <3>1. owner[r] # Main
        BY <1>1, MainRecordless
      <3>2. /\ record'[r] = record[r] /\ owner'[r] = owner[r] /\ r # theMain /\ r # theMain'
            /\ (r \in registry') <=> (r \in registry)
        BY <1>0, <1>1, MainBuilt
      <3> QED  BY <1>0, <1>1, <3>1, <3>2, RecordStays
    <2>3. 1..built' = (1..built) \union {built + 1}
      BY <1>1, MainBuilt
    <2> QED  BY <2>1, <2>2, <2>3
  <1>2. ASSUME AskMain(o) PROVE (\A r \in 1..built : RecordFits(r))'
    BY <1>1, <1>2 DEF AskMain
  <1>3. ASSUME CurrentMain(o), theMain = NoRecord PROVE (\A r \in 1..built : RecordFits(r))'
    <2>1. /\ Enter(o, "current", "begin", built + 1) /\ BuildMain /\ MakeLoop(o)
          /\ UNCHANGED <<life, id, holder>> /\ o = Main
      BY <1>3 DEF CurrentMain
    <2>2. call'[o] = Entered("current", "begin", built + 1)
          /\ \A p \in Os : p # o => call'[p] = call[p]
      BY <2>1, CallBegins
    <2>3. call'[o].op = "current" /\ call'[o].rec = built + 1
      BY <2>2 DEF Entered
    <2>4. \A p \in Os : locals'[p].thread = locals[p].thread
      BY <2>1, LoopMade
    <2> QED  BY <1>1, <1>3, <2>1, <2>2, <2>3, <2>4
  <1>4. ASSUME CurrentMain(o), theMain # NoRecord PROVE (\A r \in 1..built : RecordFits(r))'
    <2>1. /\ Enter(o, "current", "begin", theMain) /\ call[o].op = "none" /\ o = Main
          /\ UNCHANGED <<life, id, locals, holder, built, record, owner, theMain, registry>>
      BY <1>0, <1>4 DEF CurrentMain, Calls, CallFits
    <2>2. call'[o] = Entered("current", "begin", theMain)
          /\ \A p \in Os : p # o => call'[p] = call[p]
      BY <2>1, CallBegins
    <2>3. call'[o].op = "current" /\ call'[o].rec = theMain
      BY <2>2 DEF Entered
    <2>4. ASSUME NEW r \in 1..built, owner[r] = o PROVE RecordFits(r)'
      <3>1. r = theMain
        BY <1>0, <2>1, <2>4 DEF RecordFits
      <3> QED  BY <1>0, <2>1, <2>3, <2>4, <3>1 DEF RecordFits, Live
    <2>5. \A r \in 1..built : owner[r] # o => RecordFits(r)'
      BY <2>1, <2>2, OthersRecordsStay
    <2> QED  BY <2>1, <2>4, <2>5
  <1>5. ASSUME Adopt(o) PROVE (\A r \in 1..built : RecordFits(r))'
    <2>1. /\ Enter(o, "current", "begin", built + 1) /\ MakeLoop(o)
          /\ UNCHANGED <<life, id, holder, theMain>>
          /\ ~TornDown(o) /\ holder[o] = NoRecord /\ o # Main /\ call[o].at = "done"
      BY <1>5 DEF Adopt, Calls
    <2>2. ASSUME NEW r, r = built + 1 PROVE RecordFits(r)'
      BY <1>5, <2>2, AdoptedFits
    <2>3. ASSUME NEW r \in 1..built PROVE RecordFits(r)'
      <3>1. owner[r] # o
        BY <2>1, Recordless
      <3>2. call'[owner[r]] = call[owner[r]] /\ locals'[owner[r]].thread = locals[owner[r]].thread
        BY <1>0, <2>1, <3>1, CallBegins, LoopMade
      <3>3. /\ record'[r] = record[r] /\ owner'[r] = owner[r]
            /\ (r \in registry') <=> (r \in registry)
        BY <1>5, AdoptedBuilt
      <3> QED  BY <2>1, <3>2, <3>3, RecordStays
    <2>4. 1..built' = (1..built) \union {built + 1}
      BY <1>5, AdoptedBuilt
    <2> QED  BY <2>2, <2>3, <2>4
  <1>6. ASSUME CurrentTornDown(o) \/ CurrentKnown(o) \/ CurrentLoop(o)
        PROVE  (\A r \in 1..built : RecordFits(r))'
    <2>1. \A p \in Os : locals'[p].thread = locals[p].thread
      BY <1>6, LoopMade DEF CurrentTornDown, CurrentKnown, CurrentLoop
    <2>2. UNCHANGED <<life, id, holder, built, record, owner, theMain, registry, call>>
      BY <1>6 DEF CurrentTornDown, CurrentKnown, CurrentLoop, AtOnce
    <2>3. \A r \in 1..built : RecordFits(r)'
      BY <1>0, <2>1, <2>2, RecordStays
    <2> QED  BY <2>2, <2>3
  <1>7. ASSUME CurrentInstalled(o) PROVE (\A r \in 1..built : RecordFits(r))'
    <2> DEFINE c == call[o].rec
    <2>1. /\ c \in 1..built /\ owner[c] = o /\ locals[o].thread = "unmade" /\ call[o].op = "current"
          /\ UNCHANGED <<life, id, built, record, owner, theMain, registry>>
          /\ holder' = [holder EXCEPT ![o] = c] /\ call' = [call EXCEPT ![o] = Idle]
      BY <1>0, <1>7 DEF CurrentInstalled, CallFits, Returns
    <2>2. /\ holder'[o] = c /\ call'[o].op = "none" /\ locals'[o].thread = "made"
          /\ \A p \in Os : p # o => /\ holder'[p] = holder[p] /\ locals'[p] = locals[p]
                                    /\ call'[p] = call[p]
      BY <1>0, <1>7, <2>1 DEF CurrentInstalled, TypeOK, Locals, Idle
    <2>3. ASSUME NEW r \in 1..built, owner[r] = o PROVE RecordFits(r)'
      <3>1. r = c
        BY <1>0, <2>1, <2>3 DEF RecordsApart
      <3> QED  BY <1>0, <2>1, <2>2, <2>3, <3>1 DEF RecordFits, Live
    <2>4. \A r \in 1..built : owner[r] # o => RecordFits(r)'
      BY <2>1, <2>2, OthersRecordsStay
    <2> QED  BY <2>1, <2>3, <2>4
  <1> QED  BY <1>2, <1>3, <1>4, <1>5, <1>6, <1>7 DEF Current


LEMMA RecordHandle ==
    ASSUME PlacesInv, NEW o \in Os
    PROVE  /\ \A r \in Reachable : Handle(o, r) => (\A q \in 1..built : RecordFits(q))'
           /\ PerformOnLoop(o) \/ Look(o) \/ LookTooLate(o) \/ Wake(o)
                => (\A q \in 1..built : RecordFits(q))'
  <1>0. /\ TypeOK /\ CallFits(o)
        /\ \A q \in 1..built : RecordFits(q) /\ q \in Records /\ owner[q] \in Os
    BY RecordNumbers DEF PlacesInv, TypeOK
  <1> USE DEF recordVars, threadVars
  \* None of these calls is one of a thread that is being made or ends.
  <1>1. ASSUME UNCHANGED <<life, id, locals, holder, built, record, owner, theMain, registry>>,
               \A p \in Os : p # o => call'[p] = call[p],
               \/ call'[o] = call[o]
               \/ /\ call[o].op \notin {"born", "current", "end"}
                  /\ call'[o].op \notin {"born", "current", "end"}
        PROVE  (\A q \in 1..built : RecordFits(q))'
    <2>1. ASSUME NEW q \in 1..built PROVE RecordFits(q)'
      <3>1. \/ call'[owner[q]] = call[owner[q]]
            \/ /\ call[owner[q]].op \notin {"born", "current", "end"}
               /\ call'[owner[q]].op \notin {"born", "current", "end"}
        BY <1>0, <1>1
      <3> QED  BY <1>1, <3>1, RecordStays
    <2> QED  BY <1>1, <2>1
  <1>2. ASSUME NEW op \in {"perform", "join", "join_for"}, NEW at, NEW r, Enter(o, op, at, r),
               call[o].at = "done",
               UNCHANGED <<life, id, locals, holder, built, record, owner, theMain, registry>>
        PROVE  (\A q \in 1..built : RecordFits(q))'
    <2>1. call'[o] = Entered(op, at, r) /\ \A p \in Os : p # o => call'[p] = call[p]
      BY <1>2, CallBegins
    <2>2. call'[o].op = op /\ call[o].op = "none"
      BY <1>0, <1>2, <2>1 DEF Entered, CallFits
    <2> QED  BY <1>1, <1>2, <2>1, <2>2
  <1>3. ASSUME NEW r \in Reachable, Perform(o, r) PROVE (\A q \in 1..built : RecordFits(q))'
    BY <1>1, <1>2, <1>3 DEF Perform, AtOnce, Calls
  <1>4. ASSUME NEW r \in Reachable, NEW op \in {"join", "join_for"}, Wait(o, op, r)
        PROVE  (\A q \in 1..built : RecordFits(q))'
    BY <1>1, <1>2, <1>4 DEF Wait, AtOnce, Calls
  <1>5. ASSUME NEW r \in Reachable, AskIsCurrent(o, r)
        PROVE  (\A q \in 1..built : RecordFits(q))'
    BY <1>1, <1>5 DEF AskIsCurrent, AtOnce
  <1>6. ASSUME NEW r \in Reachable, Quit(o, r) PROVE (\A q \in 1..built : RecordFits(q))'
    <2>1. UNCHANGED <<life, id, locals, holder, built, owner, theMain, registry, call>>
      BY <1>6 DEF Quit
    <2>2. ASSUME NEW q \in 1..built
          PROVE  /\ record'[q].nativeId = record[q].nativeId
                 /\ record'[q].registered = record[q].registered
                 /\ record'[q].isMain = record[q].isMain
                 /\ record'[q].published = record[q].published
                 /\ record'[q].finished = record[q].finished
      BY <1>0, <1>6 DEF Quit, TypeOK, RecordStates
    <2>3. ASSUME NEW q \in 1..built PROVE RecordFits(q)'
      BY <1>0, <2>1, <2>2 DEF RecordFits, Live
    <2> QED  BY <2>1, <2>3
  <1>7. ASSUME NEW value, Returns(o, value),
               call[o].op \in {"perform", "join", "join_for"},
               UNCHANGED <<life, id, locals, holder, built, record, owner, theMain, registry>>
        PROVE  (\A q \in 1..built : RecordFits(q))'
    <2>1. call'[o].op = "none" /\ \A p \in Os : p # o => call'[p] = call[p]
      BY <1>0, <1>7 DEF Returns, Idle, TypeOK
    <2> QED  BY <1>1, <1>7, <2>1
  <1>8. ASSUME NEW at, Goes(o, at), call[o].op \in {"join", "join_for"},
               UNCHANGED <<life, id, locals, holder, built, record, owner, theMain, registry>>
        PROVE  (\A q \in 1..built : RecordFits(q))'
    BY <1>1, <1>8, CallGoes
  <1>9. ASSUME Wake(o) PROVE call[o].op \in {"join", "join_for"}
    BY <1>0, <1>9 DEF Wake, CallFits, TypeOK, CallStates, Ops
  <1>10. ASSUME PerformOnLoop(o) \/ Look(o) \/ LookTooLate(o) \/ Wake(o)
         PROVE  (\A q \in 1..built : RecordFits(q))'
    BY <1>7, <1>8, <1>9, <1>10 DEF PerformOnLoop, Look, LookTooLate, Wake
  <1> QED  BY <1>3, <1>4, <1>5, <1>6, <1>10 DEF Handle

LEMMA RecordEnds ==
    ASSUME PlacesInv, NEW o \in Os
    PROVE  Die(o) \/ Destroys(o) \/ Finish(o) \/ NotifyDone(o) \/ TearDown(o)
             => (\A r \in 1..built : RecordFits(r))'
  <1>0. /\ TypeOK /\ (\A p \in Os : CallFits(p)) /\ ThreadFits(o) /\ RecordsApart
        /\ \A r \in 1..built : RecordFits(r) /\ r \in Records /\ owner[r] \in Os
    BY RecordNumbers DEF PlacesInv, TypeOK
  <1> USE DEF recordVars, threadVars
  <1>1. ASSUME Die(o) \/ Dead(o) PROVE (\A r \in 1..built : RecordFits(r))'
    <2>1. /\ UNCHANGED <<locals, holder, built, record, owner, theMain, registry, call>>
          /\ life'[o] # "unborn" /\ (Live(o)' => Live(o) /\ id'[o] = id[o])
          /\ \A p \in Os : p # o => life'[p] = life[p] /\ id'[p] = id[p]
      BY <1>0, <1>1 DEF Die, Dead, Live, TypeOK
    <2>2. ASSUME NEW r \in 1..built, owner[r] = o PROVE RecordFits(r)'
      BY <1>0, <2>1, <2>2 DEF RecordFits, Live
    <2>3. \A r \in 1..built : owner[r] # o => RecordFits(r)'
      BY <2>1, OthersRecordsStay
    <2> QED  BY <2>1, <2>2, <2>3
  <1>2. ASSUME NEW object \in {"loop", "own"}, DestroyOther(o, object)
        PROVE  (\A r \in 1..built : RecordFits(r))'
    <2>1. \A p \in Os : locals'[p].thread = locals[p].thread
      BY <1>0, <1>2 DEF DestroyOther, TypeOK, Locals
    <2>2. ASSUME NEW r \in 1..built PROVE RecordFits(r)'
      BY <1>0, <1>2, <2>1, RecordStays DEF DestroyOther
    <2> QED  BY <1>2, <2>2 DEF DestroyOther
  <1>3. ASSUME Leave(o) PROVE (\A r \in 1..built : RecordFits(r))'
    <2> DEFINE h == holder[o]
    <2>1. /\ Enter(o, "end", "finish", h) /\ h \in 1..built /\ owner[h] = o
          /\ call[o].op = "none" /\ registry' = registry \ {h} /\ locals[o].thread = "made"
          /\ UNCHANGED <<life, id, locals, holder, built, record, owner, theMain>>
      BY <1>0, <1>3 DEF Leave, ThreadFits, CallFits
    <2>2. call'[o] = Entered("end", "finish", h) /\ \A p \in Os : p # o => call'[p] = call[p]
      BY <2>1, CallBegins
    <2>3. call'[o].op = "end" /\ call'[o].at = "finish"
      BY <2>2 DEF Entered
    <2>4. ASSUME NEW r \in 1..built, owner[r] = o PROVE RecordFits(r)'
      <3>1. r = h
        BY <1>0, <2>1, <2>4 DEF RecordsApart
      <3> QED  BY <1>0, <2>1, <2>3, <3>1 DEF RecordFits, Live
    <2>5. \A r \in 1..built : owner[r] # o => RecordFits(r)'
      <3>1. \A r \in 1..built : owner[r] # o => r # h
        BY <2>1
      <3> QED  BY <2>1, <2>2, <3>1, OthersRecordsStay
    <2> QED  BY <2>1, <2>4, <2>5
  <1>4. ASSUME Finish(o) PROVE (\A r \in 1..built : RecordFits(r))'
    <2> DEFINE h == holder[o]
    <2>1. /\ h \in 1..built /\ owner[h] = o /\ call[o].op = "end" /\ locals[o].thread = "made"
          /\ record' = [record EXCEPT ![h].finished = TRUE] /\ Goes(o, "notify")
          /\ UNCHANGED <<life, id, locals, holder, built, owner, theMain, registry>>
      BY <1>0, <1>4 DEF Finish, ThreadFits, CallFits
    <2>2. /\ record'[h].nativeId = record[h].nativeId
          /\ record'[h].registered = record[h].registered
          /\ record'[h].isMain = record[h].isMain /\ record'[h].finished
          /\ \A q \in Records : q # h => record'[q] = record[q]
      BY <1>0, <2>1 DEF TypeOK, RecordStates
    <2>3. /\ call'[o].op = "end" /\ call'[o].at = "notify"
          /\ \A p \in Os : p # o => call'[p] = call[p]
      BY <2>1, CallGoes
    <2>4. ASSUME NEW r \in 1..built, owner[r] = o PROVE RecordFits(r)'
      <3>1. r = h
        BY <1>0, <2>1, <2>4 DEF RecordsApart
      <3> QED  BY <1>0, <2>1, <2>2, <2>3, <3>1 DEF RecordFits, Live
    <2>5. \A r \in 1..built : owner[r] # o => RecordFits(r)'
      <3>1. \A r \in 1..built : owner[r] # o => r # h
        BY <2>1
      <3> QED  BY <1>0, <2>1, <2>2, <2>3, <3>1, OthersRecordsStay
    <2> QED  BY <2>1, <2>4, <2>5
  <1>5. ASSUME NotifyDone(o) PROVE (\A r \in 1..built : RecordFits(r))'
    <2>1. /\ UNCHANGED <<life, id, locals, holder, built, record, owner, theMain, registry>>
          /\ call[o].op = "end" /\ call[o].at = "notify"
      BY <1>5 DEF NotifyDone
    <2>2. \A p \in Os :
            /\ call'[p].op = call[p].op /\ call'[p].rec = call[p].rec
            /\ \/ call'[p].at = call[p].at
               \/ p = o /\ call'[p].at = "torn"
               \/ call[p].at = "asleep"
      BY <1>0, <1>5 DEF NotifyDone, Woken, TypeOK, CallStates
    <2>3. \A p \in Os : call[p].at = "asleep" => call[p].op \notin {"born", "current", "end"}
      BY <1>0 DEF CallFits
    <2>4. ASSUME NEW r \in 1..built, owner[r] = o PROVE RecordFits(r)'
      BY <1>0, <2>1, <2>2, <2>4 DEF RecordFits, Live
    <2>5. \A r \in 1..built : owner[r] # o => RecordFits(r)'
      BY <2>1, <2>2, <2>3, OthersRecordsStay
    <2> QED  BY <2>1, <2>4, <2>5
  <1>6. ASSUME TearDown(o) PROVE (\A r \in 1..built : RecordFits(r))'
    <2> DEFINE h == holder[o]
    <2>1. /\ h \in 1..built /\ owner[h] = o /\ call[o].op = "end" /\ call[o].at = "torn"
          /\ UNCHANGED <<life, id, built, record, owner, theMain, registry>>
      BY <1>0, <1>6 DEF TearDown, ThreadFits, CallFits
    <2>2. /\ locals'[o].thread = "gone" /\ holder'[o] = NoRecord /\ call'[o].op = "none"
          /\ \A p \in Os : p # o => /\ holder'[p] = holder[p] /\ locals'[p] = locals[p]
                                    /\ call'[p] = call[p]
      BY <1>0, <1>6 DEF TearDown, TypeOK, Locals, Idle
    <2>3. ASSUME NEW r \in 1..built, owner[r] = o PROVE RecordFits(r)'
      <3>1. r = h
        BY <1>0, <2>1, <2>3 DEF RecordsApart
      <3> QED  BY <1>0, <2>1, <2>2, <3>1 DEF RecordFits, Live
    <2>4. \A r \in 1..built : owner[r] # o => RecordFits(r)'
      BY <2>1, <2>2, OthersRecordsStay
    <2> QED  BY <2>1, <2>3, <2>4
  <1> QED  BY <1>1, <1>2, <1>3, <1>4, <1>5, <1>6 DEF Destroys

LEMMA RecordStep ==
    ASSUME PlacesInv, [Next]_vars
    PROVE  (\A r \in 1..built : RecordFits(r))'
  <1>1. CASE UNCHANGED vars
    <2>1. ASSUME NEW r \in 1..built PROVE RecordFits(r)'
      BY <1>1, RecordStays DEF vars
    <2> QED  BY <1>1, <2>1 DEF vars
  <1>2. ASSUME NEW o \in Os, Library(o) \/ Program(o) \/ Timing(o) \/ Destroys(o)
        PROVE  (\A r \in 1..built : RecordFits(r))'
    BY <1>2, RecordBirths, StartedFits, RecordCurrent, RecordHandle, RecordEnds
       DEF Library, Program, Timing
  <1> QED  BY <1>1, <1>2 DEF Next

-----------------------------------------------------------------------------
(* What calls answer.                                                      *)

\* An answer stays right: a record keeps its thread, and stays registered and finished.
LEMMA AnswerStays ==
    ASSUME PlacesInv, answer' = answer, built' \in {built, built + 1},
           \A r \in 1..built : /\ owner'[r] = owner[r]
                               /\ record[r].registered => record'[r].registered
                               /\ record[r].finished => record'[r].finished
    PROVE  AnswerFits'
  <1>1. AnswerFits /\ built \in Nat
    BY DEF PlacesInv, TypeOK
  <1>2. answer.rec \in 1..built => answer.rec \in 1..built'
    BY <1>1
  <1>3. answer.op \in {"join", "join_for", "current"} /\ answer.rec # Placeholder
          => answer.rec \in 1..built
    BY <1>1 DEF AnswerFits
  <1>4. Placeholder \notin 1..built
    BY RecordNumbers DEF PlacesInv
  <1> QED  BY <1>1, <1>2, <1>3, <1>4 DEF AnswerFits, NoTaskForTheEnded

\* A thread that a record takes for its own is the record's, or the record's is gone
\* and has finished: a native id is given again only then.
LEMMA CurrentOrEnded ==
    ASSUME PlacesInv, NEW o \in Os, NEW r \in Reachable, Live(o), IsCurrent(o, r)
    PROVE  owner[r] = o \/ record[r].finished
  <1>1. /\ TypeOK /\ IdsApart /\ ThreadFits(o) /\ RecordFits(r) /\ record[r].registered
        /\ owner[r] \in Os /\ ThreadFits(owner[r])
    BY ReachableBuilt DEF PlacesInv, TypeOK
  <1>2. CASE record[r].isMain
    BY <1>1, <1>2 DEF IsCurrent, RecordFits
  <1>3. CASE ~record[r].isMain /\ Live(owner[r])
    <2>1. id[owner[r]] = id[o] /\ id[o] # NoId
      BY <1>1, <1>3 DEF IsCurrent, RecordFits, ThreadFits
    <2> QED  BY <1>1, <2>1 DEF IdsApart
  <1>4. CASE ~record[r].isMain /\ ~Live(owner[r])
    <2>1. life[owner[r]] = "dead"
      BY <1>1, <1>4 DEF RecordFits, Live, TypeOK
    <2>2. locals[owner[r]].thread # "made" /\ call[owner[r]].op = "none" /\ r # NoRecord
      BY <1>1, <1>4, <2>1, ReachableBuilt, RecordNumbers DEF PlacesInv, ThreadFits, CallFits
    <2>3. holder[owner[r]] # r
      BY <1>1, <2>2 DEF ThreadFits
    <2>4. locals[owner[r]].thread = "gone"
      BY <1>1, <1>4, <2>2, <2>3 DEF RecordFits
    <2> QED  BY <1>1, <2>4 DEF RecordFits
  <1> QED  BY <1>1, <1>2, <1>3, <1>4

\* A call that answers at once, or returns, answers of the record it is of.
LEMMA AtOnceSays ==
    ASSUME NEW o, NEW op, NEW r, NEW value, AtOnce(o, op, r, value)
    PROVE  /\ answer'.by = o /\ answer'.op = op /\ answer'.rec = r /\ answer'.value = value
           /\ answer'.over = (r \in Records /\ record[r].finished)
  BY DEF AtOnce, Says

LEMMA ReturnsSays ==
    ASSUME NEW o, NEW value, Returns(o, value)
    PROVE  /\ answer'.by = o /\ answer'.op = call[o].op /\ answer'.rec = call[o].rec
           /\ answer'.value = value /\ answer'.over = call[o].over
  BY DEF Returns, Says

LEMMA AnswerHandle ==
    ASSUME PlacesInv, NEW o \in Os
    PROVE  /\ \A r \in Reachable : Handle(o, r) => AnswerFits'
           /\ PerformOnLoop(o) \/ Look(o) \/ LookTooLate(o) \/ Wake(o) => AnswerFits'
  <1>0. TypeOK /\ CallFits(o)
    BY DEF PlacesInv
  <1> USE DEF recordVars, threadVars
  <1>1. ASSUME UNCHANGED <<built, record, owner, answer>> PROVE AnswerFits'
    BY <1>1, AnswerStays
  <1>2. ASSUME NEW r \in Reachable, Perform(o, r) PROVE AnswerFits'
    <2>1. CASE AtOnce(o, "perform", r, FALSE)
      <3>1. answer'.op = "perform" /\ ~answer'.value
        BY <2>1, AtOnceSays
      <3> QED  BY <3>1 DEF AnswerFits, NoTaskForTheEnded
    <2>2. CASE UNCHANGED <<built, record, owner, answer>>
      BY <1>1, <2>2
    <2> QED  BY <1>2, <2>1, <2>2 DEF Perform, Enter
  <1>3. ASSUME NEW r \in Reachable, Quit(o, r) PROVE AnswerFits'
    <2>1. \A q \in 1..built : /\ record'[q].registered = record[q].registered
                              /\ record'[q].finished = record[q].finished
      BY <1>0, <1>3, RecordNumbers DEF Quit, TypeOK, RecordStates
    <2> QED  BY <1>3, <2>1, AnswerStays DEF Quit
  <1>4. ASSUME NEW r \in Reachable, AskIsCurrent(o, r) PROVE AnswerFits'
    <2>1. answer'.op = "is_current"
      BY <1>4, AtOnceSays DEF AskIsCurrent
    <2> QED  BY <2>1 DEF AnswerFits, NoTaskForTheEnded
  <1>5. ASSUME NEW r \in Reachable, NEW op \in {"join", "join_for"}, Wait(o, op, r)
        PROVE  AnswerFits'
    <2>1. CASE IsCurrent(o, r)
      <3>1. /\ answer'.by = o /\ answer'.op = op /\ answer'.rec = r
            /\ answer'.value = (op = "join_for" /\ record[r].finished)
        BY <1>5, <2>1, AtOnceSays DEF Wait
      <3>2. record'[r] = record[r] /\ owner'[r] = owner[r] /\ built' = built
        BY <1>5 DEF Wait
      <3>3. owner[r] = o \/ record[r].finished
        BY <1>5, <2>1, CurrentOrEnded DEF Wait, Calls
      <3> QED  BY <3>1, <3>2, <3>3, ReachableBuilt DEF AnswerFits, NoTaskForTheEnded
    <2>2. CASE ~IsCurrent(o, r)
      BY <1>1, <1>5, <2>2 DEF Wait, Enter
    <2> QED  BY <2>1, <2>2
  <1>6. ASSUME PerformOnLoop(o) PROVE AnswerFits'
    <2>1. answer'.op = "perform" /\ answer'.over = call[o].over /\ ~call[o].over
      BY <1>0, <1>6, ReturnsSays DEF PerformOnLoop, CallFits
    <2> QED  BY <2>1 DEF AnswerFits, NoTaskForTheEnded
  <1>7. ASSUME Look(o) \/ LookTooLate(o) PROVE AnswerFits'
    <2> DEFINE r == call[o].rec
    <2>1. /\ call[o].op \in {"join", "join_for"} /\ r \in 1..built /\ record[r].registered
          /\ UNCHANGED <<built, record, owner>>
      BY <1>0, <1>7 DEF Look, LookTooLate, CallFits
    <2>2. CASE Returns(o, TRUE) /\ record[r].finished
      <3>1. /\ answer'.by = o /\ answer'.op = call[o].op /\ answer'.rec = r
        BY <2>2, ReturnsSays
      <3> QED  BY <2>1, <2>2, <3>1 DEF AnswerFits, NoTaskForTheEnded
    <2>3. CASE Returns(o, FALSE) /\ call[o].op = "join_for"
      <3>1. answer'.by = o /\ answer'.op = "join_for" /\ answer'.rec = r /\ ~answer'.value
        BY <2>3, ReturnsSays
      <3> QED  BY <2>1, <3>1 DEF AnswerFits, NoTaskForTheEnded
    <2>4. CASE UNCHANGED answer
      BY <1>1, <2>1, <2>4
    <2> QED  BY <1>7, <2>2, <2>3, <2>4 DEF Look, LookTooLate, Goes
  <1>8. ASSUME Wake(o) PROVE AnswerFits'
    BY <1>1, <1>8 DEF Wake, Goes
  <1> QED  BY <1>2, <1>3, <1>4, <1>5, <1>6, <1>7, <1>8 DEF Handle

LEMMA AnswerCurrent ==
    ASSUME PlacesInv, NEW o \in Os, Current(o) \/ CurrentInstalled(o)
    PROVE  AnswerFits'
  <1>0. TypeOK /\ CallFits(o) /\ ThreadFits(o)
    BY DEF PlacesInv
  <1> USE DEF recordVars
  <1>1. ASSUME CurrentTornDown(o) PROVE AnswerFits'
    <2>1. answer'.op = "current" /\ answer'.rec = Placeholder
      BY <1>1, AtOnceSays DEF CurrentTornDown
    <2> QED  BY <2>1 DEF AnswerFits, NoTaskForTheEnded
  <1>2. ASSUME CurrentKnown(o) PROVE AnswerFits'
    <2>1. answer'.op = "current" /\ answer'.rec = holder[o] /\ answer'.by = o
      BY <1>2, AtOnceSays DEF CurrentKnown
    <2>2. holder[o] \in 1..built /\ owner[holder[o]] = o /\ UNCHANGED <<built, owner>>
      BY <1>0, <1>2 DEF CurrentKnown, ThreadFits
    <2> QED  BY <2>1, <2>2 DEF AnswerFits, NoTaskForTheEnded
  <1>3. ASSUME CurrentInstalled(o) PROVE AnswerFits'
    <2>1. answer'.op = "current" /\ answer'.rec = call[o].rec /\ answer'.by = o
      BY <1>3, ReturnsSays DEF CurrentInstalled
    <2>2. call[o].rec \in 1..built /\ owner[call[o].rec] = o /\ UNCHANGED <<built, owner>>
      BY <1>0, <1>3 DEF CurrentInstalled, CallFits
    <2> QED  BY <2>1, <2>2 DEF AnswerFits, NoTaskForTheEnded
  <1>4. ASSUME AskMain(o) \/ CurrentMain(o) \/ Adopt(o) \/ CurrentLoop(o) PROVE AnswerFits'
    <2>1. answer' = answer
      BY <1>4 DEF AskMain, CurrentMain, Adopt, CurrentLoop, Enter
    <2>2. BuildMain \/ Adopt(o) \/ UNCHANGED <<built, record, owner>>
      BY <1>4 DEF AskMain, CurrentMain, CurrentLoop
    <2>3. built' \in {built, built + 1}
          /\ \A r \in 1..built : record'[r] = record[r] /\ owner'[r] = owner[r]
      BY <2>2, MainBuilt, AdoptedBuilt
    <2> QED  BY <2>1, <2>3, AnswerStays
  <1> QED  BY <1>1, <1>2, <1>3, <1>4 DEF Current

LEMMA AnswerStep ==
    ASSUME PlacesInv, [Next]_vars
    PROVE  AnswerFits'
  <1>0. TypeOK /\ (\A o \in Os : CallFits(o))
    BY DEF PlacesInv
  <1> USE DEF recordVars, threadVars
  <1>1. ASSUME UNCHANGED <<built, record, owner, answer>> PROVE AnswerFits'
    BY <1>1, AnswerStays
  <1>2. ASSUME NEW o \in Os,
               \/ Born(o) \/ Leave(o) \/ NotifyDone(o) \/ TearDown(o) \/ Die(o) \/ Dead(o)
               \/ \E object \in {"loop", "own"} : DestroyOther(o, object)
        PROVE  AnswerFits'
    BY <1>1, <1>2 DEF Born, Leave, Enter, NotifyDone, TearDown, Die, Dead, DestroyOther
  <1>3. ASSUME NEW o \in Os, NEW new \in Os, NEW b \in BOOLEAN, Start(o, new, b)
        PROVE  AnswerFits'
    <2> DEFINE state == [Blank EXCEPT !.hasLoop = b]
    <2>1. Build(new, state) /\ state \in RecordStates /\ answer' = answer
      BY <1>0, <1>3, BlankTypes DEF Start
    <2> HIDE DEF state
    <2> QED  BY <2>1, BuildFits, AnswerStays
  <1>4. ASSUME NEW o \in Os, Install(o) \/ Publish(o) \/ Finish(o) PROVE AnswerFits'
    <2>1. UNCHANGED <<built, owner, answer>>
      BY <1>4 DEF Install, Publish, Finish, Goes
    <2>2. \A r \in 1..built : /\ record[r].registered => record'[r].registered
                              /\ record[r].finished => record'[r].finished
      BY <1>0, <1>4, RecordNumbers, SMTT(40) DEF Install, Publish, Finish, TypeOK, RecordStates
    <2> QED  BY <2>1, <2>2, AnswerStays
  <1>5. ASSUME NEW o \in Os, Started(o) PROVE AnswerFits'
    <2>1. /\ answer'.op = "start" /\ answer'.rec = call[o].rec /\ call[o].rec \in 1..built
          /\ record[call[o].rec].published /\ UNCHANGED <<built, record>>
      BY <1>0, <1>5, ReturnsSays DEF Started, Ready, CallFits
    <2>2. record[call[o].rec].registered
      BY <2>1 DEF PlacesInv, RecordFits
    <2> QED  BY <2>1, <2>2 DEF AnswerFits, NoTaskForTheEnded
  <1>6. CASE UNCHANGED vars
    BY <1>1, <1>6 DEF vars
  <1>7. ASSUME NEW o \in Os, Library(o) \/ Program(o) \/ Timing(o) \/ Destroys(o)
        PROVE  AnswerFits'
    BY <1>2, <1>3, <1>4, <1>5, <1>7, AnswerCurrent, AnswerHandle
       DEF Library, Program, Timing, Destroys
  <1> QED  BY <1>6, <1>7 DEF Next

-----------------------------------------------------------------------------
(* The theorems.                                                           *)

LEMMA PlacesInit == Init => PlacesInv
  <1> SUFFICES ASSUME Init PROVE PlacesInv
    OBVIOUS
  <1> USE ThreadsAssumption DEF Init
  <1>1. Blank \in RecordStates /\ Idle \in CallStates /\ Idle.rec = NoRecord
    BY DEF Blank, RecordStates, Idle, CallStates, Ops, Points
  <1>2. TypeOK
    <2>1. built \in 0..MaxRecords /\ registry \subseteq 1..built /\ calls \in 0..MaxCalls
      OBVIOUS
    <2>2. locals \in [Os -> Locals]
      BY DEF Locals, Stages
    <2>3. answer \in Answers
      BY DEF Answers, Ops
    <2> QED  BY <1>1, <2>1, <2>2, <2>3 DEF TypeOK
  <1>3. \A o \in Os : CallFits(o) /\ ThreadFits(o)
    BY <1>1 DEF Idle, CallFits, ThreadFits, Live
  <1>4. IdsApart
    BY DEF IdsApart
  <1>5. 1..built = {}
    BY DEF Init
  <1>6. RecordsApart
    BY <1>5 DEF RecordsApart
  <1>7. AnswerFits
    BY DEF AnswerFits, NoTaskForTheEnded
  <1> QED  BY <1>2, <1>3, <1>4, <1>5, <1>6, <1>7 DEF PlacesInv

\* PlacesInv is inductive.
LEMMA PlacesStep == PlacesInv /\ [Next]_vars => PlacesInv'
  BY TypeStep, CallStep, ThreadStep, RecordStep, ApartStep, AnswerStep DEF PlacesInv

LEMMA PlacesAlways == Spec => []PlacesInv
  BY PlacesInit, PlacesStep, PTL DEF Spec

\* Threads, records, calls and answers are of the kinds thread.h and thread.cpp
\* declare, and nothing names a record before thread_data is built.
THEOREM ThreadsTypeCorrect == Spec => []TypeOK
  <1>1. PlacesInv => TypeOK
    BY DEF PlacesInv
  <1> QED  BY <1>1, PlacesAlways, PTL

\* all_threads() has the records of threads that are still there, one for each, and
\* no finished one, however threads start, are adopted, ask for themselves while
\* they are torn down, and end (register_self, deregister, ~current_holder).
THEOREM OnlyTheLivingAreListed == Spec => []RegistryIsOfTheLiving
  <1>1. ASSUME PlacesInv PROVE RegistryIsOfTheLiving
    <2> SUFFICES ASSUME NEW r \in registry
                PROVE  /\ ~record[r].finished
                       /\ \A s \in registry : owner[s] = owner[r] => s = r
                       /\ record[r].isMain \/ Live(owner[r])
      BY DEF RegistryIsOfTheLiving
    <2>1. /\ TypeOK /\ RecordsApart /\ r \in 1..built /\ r \in Records
          /\ RecordFits(r) /\ registry \subseteq 1..built /\ owner[r] \in Os
      BY <1>1, RecordNumbers DEF PlacesInv, TypeOK
    <2>2. record[r].registered /\ locals[owner[r]].thread # "gone" /\ call[owner[r]].op # "end"
      BY <2>1 DEF RecordFits
    <2>3. ~record[r].finished
      BY <2>1, <2>2 DEF RecordFits
    <2>4. \A s \in registry : owner[s] = owner[r] => s = r
      BY <2>1 DEF RecordsApart
    <2>5. ASSUME ~record[r].isMain, ~Live(owner[r]) PROVE FALSE
      <3>1. life[owner[r]] = "dead" /\ ThreadFits(owner[r]) /\ CallFits(owner[r]) /\ r # NoRecord
        BY <1>1, <2>1, <2>5, RecordNumbers DEF PlacesInv, RecordFits, Live, TypeOK
      <3>2. holder[owner[r]] # r /\ call[owner[r]].op # "current" /\ r # theMain
        BY <2>1, <2>5, <3>1 DEF ThreadFits, CallFits, RecordFits
      <3> QED  BY <2>1, <2>2, <3>2 DEF RecordFits
    <2> QED  BY <2>3, <2>4, <2>5
  <1> QED  BY <1>1, PlacesAlways, PTL

\* Whom join() or join_for() told that a thread ended was told the truth, of a thread
\* that is out of all_threads(), and a join() that gives up at once did so on the
\* caller's own thread, or on one that had ended and whose id was given again.
THEOREM WaitsAreAnsweredRight == Spec => []WaitsAnswerRight
  <1>1. ASSUME PlacesInv PROVE WaitsAnswerRight
    <2> DEFINE r == answer.rec
    <2> SUFFICES ASSUME answer.op \in {"join", "join_for"}
                PROVE  /\ answer.value => /\ r \notin registry /\ record[r].finished
                                          /\ life[owner[r]] # "alive"
                       /\ answer.op = "join" => record[r].finished \/ owner[r] = answer.by
      BY DEF WaitsAnswerRight
    <2>1. /\ TypeOK /\ AnswerFits /\ r \in 1..built /\ RecordFits(r) /\ record[r].registered
          /\ owner[r] \in Os /\ ThreadFits(owner[r]) /\ CallFits(owner[r])
      BY <1>1, RecordNumbers DEF PlacesInv, AnswerFits, TypeOK
    <2>2. ASSUME answer.value
          PROVE  r \notin registry /\ record[r].finished /\ life[owner[r]] # "alive"
      <3>1. record[r].finished
        BY <2>1, <2>2 DEF AnswerFits
      <3>2. locals[owner[r]].thread = "gone" \/ call[owner[r]].op = "end"
        BY <2>1, <3>1 DEF RecordFits
      <3> QED  BY <2>1, <3>1, <3>2 DEF RecordFits, ThreadFits, CallFits
    <2> QED  BY <2>1, <2>2 DEF AnswerFits
  <1> QED  BY <1>1, PlacesAlways, PTL

\* perform() never accepts a task for a thread it saw finished, current_thread() is
\* the one record of the thread that asks, and start() comes back with a record that
\* its thread has published.
THEOREM HandlesAreAnsweredRight == Spec => []HandlesAnswerRight
  <1>1. ASSUME PlacesInv PROVE HandlesAnswerRight
    <2> DEFINE r == answer.rec
    <2>1. TypeOK /\ AnswerFits /\ RecordsApart
      BY <1>1 DEF PlacesInv
    <2>2. CurrentIsOwn
      BY <2>1 DEF CurrentIsOwn, AnswerFits, RecordsApart
    <2>3. ASSUME answer.op = "start"
          PROVE  /\ record[r].registered /\ record[r].nativeId # NoId
                 /\ life[owner[r]] = "alive" => r \in registry
      <3>1. /\ r \in 1..built /\ RecordFits(r) /\ record[r].registered
            /\ owner[r] \in Os /\ ThreadFits(owner[r]) /\ CallFits(owner[r])
        BY <1>1, <2>1, <2>3, RecordNumbers DEF PlacesInv, AnswerFits, TypeOK
      <3>2. life[owner[r]] = "alive" => locals[owner[r]].thread # "gone"
                                        /\ call[owner[r]].op # "end"
        BY <3>1 DEF ThreadFits, CallFits
      <3> QED  BY <3>1, <3>2 DEF RecordFits
    <2>4. StartedIsReady
      BY <2>3 DEF StartedIsReady
    <2> QED  BY <2>1, <2>2, <2>4 DEF HandlesAnswerRight, AnswerFits
  <1> QED  BY <1>1, PlacesAlways, PTL

-----------------------------------------------------------------------------
(* The lifecycle.                                                          *)

\* The records that have finished, and what the last wait told.
Ended == {r \in Records : record[r].finished}
Told ==
    IF answer.op \in {"join", "join_for"} /\ answer.value
      THEN {<<answer.by, answer.rec>>} ELSE {}

\* No step of a thread that leaves the records' ends and the waits' answers alone tells
\* anything new.
LEMMA EndedStays ==
    ASSUME \A r \in Records : record'[r].finished = record[r].finished
    PROVE  Ended' = Ended
  BY DEF Ended

LEMMA ToldForgets ==
    ASSUME \/ answer' = answer
           \/ ~(answer'.op \in {"join", "join_for"} /\ answer'.value)
    PROVE  Told' \subseteq Told
  BY DEF Told

LEMMA LifeForgets ==
    ASSUME registry' = registry, \A r \in Records : record'[r].finished = record[r].finished,
           \/ answer' = answer
           \/ ~(answer'.op \in {"join", "join_for"} /\ answer'.value)
    PROVE  Lifecycle!Next
  BY EndedStays, ToldForgets DEF Ended, Told, Lifecycle!Next, Lifecycle!Forget

LEMMA LifeAppears ==
    ASSUME NEW r \in Records, r \notin registry, ~record[r].finished,
           registry' = registry \union {r}, answer' = answer,
           \A q \in Records : record'[q].finished = record[q].finished
    PROVE  Lifecycle!Next
  <1>1. Lifecycle!Appear(r)
    BY EndedStays, ToldForgets DEF Ended, Told, Lifecycle!Appear
  <1> QED  BY <1>1 DEF Lifecycle!Next

LEMMA LifeTells ==
    ASSUME NEW o \in Os, NEW r \in Records, record[r].finished, answer'.by = o,
           answer'.op \in {"join", "join_for"}, answer'.rec = r, answer'.value,
           UNCHANGED <<registry, record>>
    PROVE  Lifecycle!Next
  <1>1. Told' = {<<o, r>>} /\ Ended' = Ended
    BY DEF Told, Ended
  <1>2. Lifecycle!Tell(o, r)
    BY <1>1 DEF Ended, Told, Lifecycle!Tell
  <1> QED  BY <1>2 DEF Lifecycle!Next

LEMMA LifeStarts ==
    ASSUME PlacesInv, NEW o \in Os, Born(o) \/ Install(o) \/ Publish(o) \/ Started(o)
    PROVE  Lifecycle!Next
  <1>0. TypeOK /\ CallFits(o) /\ \A r \in 1..built : r \in Records /\ RecordFits(r)
    BY RecordNumbers DEF PlacesInv
  <1> USE DEF recordVars, threadVars
  <1>1. ASSUME Born(o) PROVE Lifecycle!Next
    BY <1>1, LifeForgets DEF Born
  <1>2. ASSUME Install(o) PROVE Lifecycle!Next
    <2> DEFINE r == call[o].rec
    <2>1. /\ r \in 1..built /\ ~record[r].registered /\ answer' = answer
          /\ registry' = registry \union {r}
      BY <1>0, <1>2 DEF Install, CallFits, Register, Goes
    <2>2. r \notin registry /\ ~record[r].finished /\ r \in Records
      BY <1>0, <2>1 DEF RecordFits
    <2>3. \A q \in Records : record'[q].finished = record[q].finished
      BY <1>0, <1>2 DEF Install, TypeOK, RecordStates
    <2> QED  BY <2>1, <2>2, <2>3, LifeAppears
  <1>3. ASSUME Publish(o) PROVE Lifecycle!Next
    <2>1. \A q \in Records : record'[q].finished = record[q].finished
      BY <1>0, <1>3 DEF Publish, TypeOK, RecordStates
    <2> QED  BY <1>3, <2>1, LifeForgets DEF Publish
  <1>4. ASSUME Started(o) PROVE Lifecycle!Next
    <2>1. answer'.op = "start"
      BY <1>4, ReturnsSays DEF Started
    <2> QED  BY <1>4, <2>1, LifeForgets DEF Started
  <1> QED  BY <1>1, <1>2, <1>3, <1>4

\* A record appears where it is built already registered.
LEMMA LifeBuilds ==
    ASSUME PlacesInv, BuildMain \/ \E o \in Os : Adopt(o), answer' = answer
    PROVE  Lifecycle!Next
  <1>1. /\ built + 1 \in Records /\ registry' = registry \union {built + 1}
        /\ record'[built + 1].finished = FALSE /\ built' = built + 1
        /\ \A r \in 1..built : record'[r] = record[r]
        /\ \A r \in Records : r > built' => record'[r] = record[r]
    BY MainBuilt, AdoptedBuilt
  <1>2. record[built + 1] = Blank /\ built \in Nat /\ registry \subseteq 1..built
    BY <1>1 DEF PlacesInv, RecordsApart, TypeOK, Records
  <1>3. ~record[built + 1].finished /\ built + 1 \notin registry
    BY <1>2 DEF Blank
  <1>4. \A r \in Records : record'[r].finished = record[r].finished
    <2>1. \A r \in Records : r \in 1..built \/ r = built + 1 \/ r > built'
      BY <1>1, <1>2 DEF Records
    <2>2. record[built + 1].finished = FALSE
      BY <1>2 DEF Blank
    <2> QED  BY <1>1, <2>1, <2>2
  <1> QED  BY <1>1, <1>3, <1>4, LifeAppears

LEMMA LifeEnds ==
    ASSUME PlacesInv, NEW o \in Os
    PROVE  Die(o) \/ Destroys(o) \/ Finish(o) \/ NotifyDone(o) \/ TearDown(o)
             => Lifecycle!Next
  <1>0. /\ TypeOK /\ CallFits(o) /\ ThreadFits(o)
        /\ \A r \in 1..built : r \in Records /\ RecordFits(r)
    BY RecordNumbers DEF PlacesInv
  <1> USE DEF recordVars, threadVars
  <1>1. ASSUME UNCHANGED <<record, registry, answer>> PROVE Lifecycle!Next
    BY <1>1, LifeForgets
  <1>2. ASSUME \/ Die(o) \/ Dead(o) \/ NotifyDone(o) \/ TearDown(o)
               \/ \E object \in {"loop", "own"} : DestroyOther(o, object)
        PROVE  Lifecycle!Next
    BY <1>1, <1>2 DEF Die, Dead, NotifyDone, TearDown, DestroyOther
  <1>3. ASSUME Leave(o) PROVE Lifecycle!Next
    <2> DEFINE h == holder[o]
    <2>1. /\ h \in 1..built /\ owner[h] = o /\ call[o].op = "none" /\ locals[o].thread = "made"
          /\ registry' = registry \ {h} /\ record' = record /\ answer' = answer
      BY <1>0, <1>3 DEF Leave, ThreadFits, CallFits, Enter
    <2>2. h \in registry
      BY <1>0, <2>1 DEF RecordFits
    <2>3. Lifecycle!Leave(h)
      BY <2>1, <2>2 DEF Lifecycle!Leave
    <2> QED  BY <1>0, <2>1, <2>3 DEF Lifecycle!Next
  <1>4. ASSUME Finish(o) PROVE Lifecycle!Next
    <2> DEFINE h == holder[o]
    <2>1. /\ h \in 1..built /\ owner[h] = o /\ call[o].op = "end" /\ call[o].at = "finish"
          /\ locals[o].thread = "made" /\ record' = [record EXCEPT ![h].finished = TRUE]
          /\ registry' = registry /\ answer' = answer
      BY <1>0, <1>4 DEF Finish, ThreadFits, CallFits, Goes
    <2>2. h \notin registry /\ ~record[h].finished
      BY <1>0, <2>1 DEF RecordFits
    <2>3. Ended' = Ended \union {h}
      <3>1. /\ h \in Records /\ record'[h].finished
            /\ \A q \in Records : q # h => record'[q] = record[q]
        BY <1>0, <2>1 DEF TypeOK, RecordStates
      <3>2. \A q : q \in Ended' <=> q \in Ended \/ q = h
        BY <3>1 DEF Ended
      <3> QED  BY <3>2
    <2>4. PICK r \in Records : r = h
      BY <1>0, <2>1
    <2>5. Lifecycle!End(r)
      BY <2>1, <2>2, <2>3, <2>4 DEF Ended, Lifecycle!End
    <2> QED  BY <2>5 DEF Lifecycle!Next
  <1> QED  BY <1>2, <1>3, <1>4 DEF Destroys

LEMMA LifeHandles ==
    ASSUME PlacesInv, NEW o \in Os
    PROVE  /\ \A r \in Reachable : Handle(o, r) => Lifecycle!Next
           /\ PerformOnLoop(o) \/ Look(o) \/ LookTooLate(o) \/ Wake(o) => Lifecycle!Next
  <1>0. TypeOK /\ CallFits(o) /\ \A r \in 1..built : r \in Records
    BY RecordNumbers DEF PlacesInv
  <1> USE DEF recordVars, threadVars
  <1>1. ASSUME UNCHANGED <<record, registry>>,
               \/ answer' = answer
               \/ ~(answer'.op \in {"join", "join_for"} /\ answer'.value)
        PROVE  Lifecycle!Next
    BY <1>1, LifeForgets
  <1>2. ASSUME NEW r \in Reachable, Perform(o, r) \/ AskIsCurrent(o, r) PROVE Lifecycle!Next
    <2>1. answer' = answer \/ answer'.op \in {"perform", "is_current"}
      BY <1>2, AtOnceSays DEF Perform, AskIsCurrent, Enter
    <2> QED  BY <1>1, <1>2, <2>1 DEF Perform, AskIsCurrent
  <1>3. ASSUME NEW r \in Reachable, Quit(o, r) PROVE Lifecycle!Next
    <2>1. \A q \in Records : record'[q].finished = record[q].finished
      BY <1>0, <1>3 DEF Quit, TypeOK, RecordStates
    <2> QED  BY <1>3, <2>1, LifeForgets DEF Quit
  <1>4. ASSUME NEW r \in Reachable, NEW op \in {"join", "join_for"}, Wait(o, op, r)
        PROVE  Lifecycle!Next
    <2>1. CASE IsCurrent(o, r)
      <3>1. /\ answer'.by = o /\ answer'.op = op /\ answer'.rec = r
            /\ answer'.value = (op = "join_for" /\ record[r].finished)
            /\ UNCHANGED <<record, registry>>
        BY <1>4, <2>1, AtOnceSays DEF Wait
      <3> QED  BY <1>1, <3>1, ReachableBuilt, LifeTells
    <2>2. CASE ~IsCurrent(o, r)
      BY <1>1, <1>4, <2>2 DEF Wait, Enter
    <2> QED  BY <2>1, <2>2
  <1>5. ASSUME Look(o) \/ LookTooLate(o) PROVE Lifecycle!Next
    <2> DEFINE r == call[o].rec
    <2>1. /\ call[o].op \in {"join", "join_for"} /\ r \in 1..built
          /\ UNCHANGED <<record, registry>>
      BY <1>0, <1>5 DEF Look, LookTooLate, CallFits
    <2>2. CASE Returns(o, TRUE) /\ record[r].finished
      <3>1. answer'.by = o /\ answer'.op = call[o].op /\ answer'.rec = r /\ answer'.value
        BY <2>2, ReturnsSays
      <3> QED  BY <1>0, <2>1, <2>2, <3>1, LifeTells
    <2>3. CASE Returns(o, FALSE)
      BY <1>1, <2>1, <2>3, ReturnsSays
    <2>4. CASE UNCHANGED answer
      BY <1>1, <2>1, <2>4
    <2> QED  BY <1>5, <2>2, <2>3, <2>4 DEF Look, LookTooLate, Goes
  <1>6. ASSUME PerformOnLoop(o) PROVE Lifecycle!Next
    <2>1. answer'.op = "perform"
      BY <1>6, ReturnsSays DEF PerformOnLoop
    <2> QED  BY <1>1, <1>6, <2>1 DEF PerformOnLoop
  <1>7. ASSUME Wake(o) PROVE Lifecycle!Next
    BY <1>1, <1>7 DEF Wake, Goes
  <1> QED  BY <1>2, <1>3, <1>4, <1>5, <1>6, <1>7 DEF Handle

LEMMA LifeCurrent ==
    ASSUME PlacesInv, NEW o \in Os, Current(o) \/ CurrentInstalled(o)
    PROVE  Lifecycle!Next
  <1> USE DEF recordVars
  <1>1. ASSUME CurrentTornDown(o) \/ CurrentKnown(o) PROVE Lifecycle!Next
    <2>1. answer'.op = "current"
      BY <1>1, AtOnceSays DEF CurrentTornDown, CurrentKnown
    <2> QED  BY <1>1, <2>1, LifeForgets DEF CurrentTornDown, CurrentKnown
  <1>2. ASSUME CurrentInstalled(o) PROVE Lifecycle!Next
    <2>1. answer'.op = "current"
      BY <1>2, ReturnsSays DEF CurrentInstalled
    <2> QED  BY <1>2, <2>1, LifeForgets DEF CurrentInstalled
  <1>3. ASSUME AskMain(o) \/ CurrentMain(o) \/ Adopt(o) \/ CurrentLoop(o) PROVE Lifecycle!Next
    <2>1. answer' = answer
      BY <1>3 DEF AskMain, CurrentMain, Adopt, CurrentLoop, Enter
    <2>2. BuildMain \/ Adopt(o) \/ UNCHANGED <<record, registry>>
      BY <1>3 DEF AskMain, CurrentMain, CurrentLoop
    <2> QED  BY <2>1, <2>2, LifeBuilds, LifeForgets
  <1> QED  BY <1>1, <1>2, <1>3 DEF Current

LEMMA LifeStep ==
    ASSUME PlacesInv, [Next]_vars
    PROVE  [Lifecycle!Next]_<<registry, Ended, Told>>
  <1>1. CASE UNCHANGED vars
    BY <1>1 DEF vars, Ended, Told
  <1>2. ASSUME NEW o \in Os, NEW new \in Os, NEW b \in BOOLEAN, Start(o, new, b)
        PROVE  Lifecycle!Next
    <2> DEFINE state == [Blank EXCEPT !.hasLoop = b]
    <2>1. /\ Build(new, state) /\ state \in RecordStates /\ state.finished = FALSE
          /\ UNCHANGED <<registry, answer>>
      BY <1>2, BlankTypes DEF Start, PlacesInv, Blank
    <2> HIDE DEF state
    <2>2. built \in Nat /\ built' = built + 1 /\ record[built + 1] = Blank
      BY <2>1, BuildFits DEF PlacesInv, RecordsApart, TypeOK
    <2>3. \A r \in Records : r \in 1..built \/ r = built + 1 \/ r > built'
      BY <2>2 DEF Records
    <2>4. record[built + 1].finished = FALSE
      BY <2>2 DEF Blank
    <2>5. \A r \in Records : record'[r].finished = record[r].finished
      BY <2>1, <2>3, <2>4, BuildFits
    <2> QED  BY <2>1, <2>5, LifeForgets
  <1>3. ASSUME NEW o \in Os, Library(o) \/ Program(o) \/ Timing(o) \/ Destroys(o)
        PROVE  Lifecycle!Next
    BY <1>2, <1>3, LifeStarts, LifeEnds, LifeHandles, LifeCurrent
       DEF Library, Program, Timing
  <1> QED  BY <1>1, <1>3 DEF Next

\* The registry, the records and their waits do what is promised of them: a record
\* appears once, leaves before it ends, and only then is a wait told so
\* (register_self, deregister, finish, join, join_for).
THEOREM ThreadsImplementLifecycle == Spec => ImplementsLifecycle
  <1>1. Init => Lifecycle!Init
    <2> SUFFICES ASSUME Init PROVE Lifecycle!Init
      OBVIOUS
    <2>1. Ended = {} /\ Told = {}
      BY DEF Init, Blank, Ended, Told
    <2> QED  BY <2>1 DEF Init, Ended, Told, Lifecycle!Init
  <1>2. PlacesInv /\ [Next]_vars => [Lifecycle!Next]_(Lifecycle!lifeVars)
    BY LifeStep DEF Ended, Told, Lifecycle!lifeVars
  <1> QED  BY <1>1, <1>2, PlacesAlways, PTL DEF Spec, ImplementsLifecycle, Lifecycle!Spec
=============================================================================
