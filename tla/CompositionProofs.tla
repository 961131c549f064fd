------------------------- MODULE CompositionProofs -------------------------
(***************************************************************************)
(* The two ways of running a backfill and a live process, proved from the  *)
(* proofs of the parts, which are instantiated here as TwoProcesses does   *)
(* the parts themselves: BP for Backfill, whose given up hours are also    *)
(* those that a live process jumped, and LP for Continuous.  In RunCommand *)
(* a step of either part keeps the invariant of the other, because the     *)
(* other is not running and the row it will load can be trusted.  In       *)
(* SharedCheckpoint both run, and no more than types, positions and counts *)
(* can be said of the row; what each pass has read is said without it.     *)
(***************************************************************************)
EXTENDS RunCommand, SharedCheckpoint, IngestLemmas

(* No rounds of the periodic loop here: its variables, and the one that dates *)
(* a call, stand still.                                                        *)
BP == INSTANCE BackfillProofs WITH
  Windows <- [start : Nat, end : Nat], swallowed <- swallowed \cup jumped,
  Period <- 0, wake <- 0, asked <- {}, reached <- TRUE, unbroken <- TRUE, called <- 0
LP == INSTANCE ContinuousProofs WITH
  curStart <- liveStart, cursor <- liveCursor, total <- liveTotal,
  reading <- liveReading, fetchTries <- liveTries, page <- livePage

-----------------------------------------------------------------------------
(* The instances have their own copies of the operators of FillTable and of   *)
(* the parts.  What the constants are assumed to be holds in each.            *)
LEMMA SameOperators ==
  /\ \A S : /\ BP!IsFiniteSet(S) = IsFiniteSet(S) /\ LP!IsFiniteSet(S) = IsFiniteSet(S)
           /\ BP!Cardinality(S) = Cardinality(S) /\ LP!Cardinality(S) = Cardinality(S)
  /\ BP!Hours = Hours /\ LP!Hours = Hours /\ L!Hours = Hours /\ B!Hours = Hours
BY DEF BP!IsFiniteSet, LP!IsFiniteSet, IsFiniteSet, BP!Cardinality, LP!Cardinality,
   Cardinality, BP!Hours, LP!Hours, L!Hours, B!Hours, Hours

LEMMA SameRows ==
  /\ BP!Batches = LP!Batches /\ BP!Checkpoint = LP!Checkpoint
  /\ BP!ResumeHour(ckpt') = LP!ResumeHour(ckpt')
  /\ BP!TimeAndCursorAgree(ckpt') <=> LP!TimeAndCursorAgree(ckpt')
<1>1. BP!Batches = LP!Batches
  BY SameOperators DEF BP!Batches, LP!Batches
<1>2. BP!Checkpoint = LP!Checkpoint
  BY DEF BP!Checkpoint, LP!Checkpoint, BP!Cursors, LP!Cursors
<1>3. BP!ResumeHour(ckpt') = LP!ResumeHour(ckpt')
  BY DEF BP!ResumeHour, LP!ResumeHour, BP!CursorHour, LP!CursorHour, BP!HourOf, LP!HourOf
<1>4. BP!TimeAndCursorAgree(ckpt') <=> LP!TimeAndCursorAgree(ckpt')
  BY DEF BP!TimeAndCursorAgree, LP!TimeAndCursorAgree, BP!CursorTime, LP!CursorTime,
     BP!CursorHour, LP!CursorHour, BP!HourStart, LP!HourStart
<1> QED BY <1>1, <1>2, <1>3, <1>4

LEMMA TableAssumptions ==
  /\ BP!TimeAssumption /\ BP!SourceAssumption /\ BP!NoneAssumption /\ BP!MinFillsAssumption
  /\ LP!TimeAssumption /\ LP!SourceAssumption /\ LP!NoneAssumption /\ LP!MinFillsAssumption
BY TimeAssumption, SourceAssumption, NoneAssumption, MinFillsAssumption, SameOperators
   DEF BP!TimeAssumption, BP!SourceAssumption, BP!NoneAssumption, BP!MinFillsAssumption,
   LP!TimeAssumption, LP!SourceAssumption, LP!NoneAssumption, LP!MinFillsAssumption,
   BP!HourOf, LP!HourOf, HourOf

LEMMA BackfillAssumed == BP!BackfillAssumption /\ BP!PeriodAssumption
<1>1. BP!BackfillAssumption
  BY PartsAssumption
  DEF B!BackfillAssumption, BP!BackfillAssumption, B!IsFiniteSet, BP!IsFiniteSet,
     B!Cardinality, BP!Cardinality,
     B!Batches, BP!Batches, B!Checkpoint, BP!Checkpoint, B!TimeAndCursorAgree,
     BP!TimeAndCursorAgree, B!IsFiniteSet, BP!IsFiniteSet, B!Cursors,
     BP!Cursors, B!CursorTime, BP!CursorTime, B!HourStart, BP!HourStart,
     B!CursorHour, BP!CursorHour
<1>2. BP!PeriodAssumption
  <2>1. InitNow \in Nat
    BY PartsAssumption DEF B!BackfillAssumption
  <2> QED BY <2>1 DEF BP!PeriodAssumption
<1> QED BY <1>1, <1>2

LEMMA ContinuousAssumed == LP!ContinuousAssumption
BY PartsAssumption
   DEF L!ContinuousAssumption, LP!ContinuousAssumption, L!IsFiniteSet, LP!IsFiniteSet,
     L!Cardinality, LP!Cardinality,
     L!Batches, LP!Batches, L!Checkpoint, LP!Checkpoint, L!TimeAndCursorAgree,
     LP!TimeAndCursorAgree, L!IsFiniteSet, LP!IsFiniteSet, L!Cursors,
     LP!Cursors, L!CursorTime, LP!CursorTime, L!HourStart, LP!HourStart,
     L!CursorHour, LP!CursorHour

(* Each step of a part is that step of the instance that is proved about. *)
LEMMA LiveStepProved == L!LiveStep => LP!LiveStep
BY DEF
     L!LiveStep, LP!LiveStep, L!LoopStep, LP!LoopStep, L!Start, LP!Start, L!StartAt,
     LP!StartAt, L!ConfigStarts, LP!ConfigStarts, L!FetchCall, LP!FetchCall,
     L!FetchReturn, LP!FetchReturn, L!FetchError, LP!FetchError, L!InsertOk,
     LP!InsertOk, L!InsertError, LP!InsertError, L!Save, LP!Save, L!RecentGaps,
     LP!RecentGaps, L!Refreshes, LP!Refreshes, L!BackTo, LP!BackTo, L!Min,
     LP!Min, L!ResumeHour, LP!ResumeHour, L!HourOf, LP!HourOf, L!StartTime,
     LP!StartTime, L!env, LP!env, L!HoursUntilNow, LP!HoursUntilNow,
     L!ReadPosition, LP!ReadPosition, L!db, LP!db, L!ghost, LP!ghost,
     L!HoursCovered, LP!HoursCovered, L!FetchFails, LP!FetchFails, L!Fault,
     LP!Fault, L!FetchPage, LP!FetchPage, L!IsParallel, LP!IsParallel, L!Exit,
     LP!Exit, L!Inserted, LP!Inserted, L!NextStart, LP!NextStart, L!Prefixes,
     LP!Prefixes, L!Saved, LP!Saved, L!Missing, LP!Missing, L!Max, LP!Max,
     L!Cardinality, LP!Cardinality, L!CursorAt, LP!CursorAt, L!HourStart,
     LP!HourStart, L!CursorHour, LP!CursorHour, L!NumHours, LP!NumHours,
     L!CursorTime, LP!CursorTime, L!ParallelPage, LP!ParallelPage,
     L!SinglePage, LP!SinglePage, L!EndOfData, LP!EndOfData, L!DayOf, LP!DayOf,
     L!HourInDay, LP!HourInDay, L!FetchParallelBatch, LP!FetchParallelBatch,
     L!Day, LP!Day

LEMMA LiveStopProved == L!Crash \/ L!Shutdown => LP!Crash \/ LP!Shutdown
BY DEF
     L!Crash, LP!Crash, L!Shutdown, LP!Shutdown, L!Fault, LP!Fault, L!Exit,
     LP!Exit, L!env, LP!env, L!db, LP!db, L!ghost, LP!ghost, L!Prefixes,
     LP!Prefixes

LEMMA BeginRunProved ==
  ASSUME NEW w, B!BeginRun(w), UNCHANGED jumped PROVE BP!BeginRun(w)
BY DEF
     B!BeginRun, BP!BeginRun, B!GapsBelow, BP!GapsBelow, B!Refreshes,
     BP!Refreshes, B!BackTo, BP!BackTo, B!Min, BP!Min, B!env, BP!env, B!task,
     BP!task, B!Missing, BP!Missing, B!Cardinality, BP!Cardinality, B!CursorAt,
     BP!CursorAt, B!HourStart, BP!HourStart, B!HourOf, BP!HourOf, B!DayOf,
     BP!DayOf, B!HourInDay, BP!HourInDay

LEMMA MainStepProved == B!MainStep /\ UNCHANGED jumped => BP!MainStep
BY DEF
     B!MainStep, BP!MainStep, B!DecideComplete, BP!DecideComplete,
     B!DecideFetch, BP!DecideFetch, B!Recv, BP!Recv, B!InsertOk, BP!InsertOk,
     B!InsertError, BP!InsertError, B!Finish, BP!Finish, B!HasAllHours,
     BP!HasAllHours, B!EndsBehindCheckpoint, BP!EndsBehindCheckpoint, B!EndRun,
     BP!EndRun, B!env, BP!env, B!db, BP!db, B!bound, BP!bound, B!ghost,
     BP!ghost, B!StartPosition, BP!StartPosition, B!StartCursor,
     BP!StartCursor, B!CarriedTotal, BP!CarriedTotal,
     B!ContinuesFromCheckpoint, BP!ContinuesFromCheckpoint, B!HourOf,
     BP!HourOf, B!task, BP!task, B!Inserted, BP!Inserted, B!MemAfter,
     BP!MemAfter, B!ShouldUpdate, BP!ShouldUpdate, B!Fault, BP!Fault,
     B!Prefixes, BP!Prefixes, B!CountIn, BP!CountIn, B!Missing, BP!Missing,
     B!NewCheckpoint, BP!NewCheckpoint, B!GoesBack, BP!GoesBack, B!HourStart,
     BP!HourStart, B!Min, BP!Min, B!GapsAfterStart, BP!GapsAfterStart,
     B!CursorAt, BP!CursorAt, B!Cardinality, BP!Cardinality, B!Max, BP!Max,
     B!DayOf, BP!DayOf, B!HourInDay, BP!HourInDay

LEMMA FetcherStepProved == B!FetcherStep /\ UNCHANGED jumped => BP!FetcherStep
BY DEF
     B!FetcherStep, BP!FetcherStep, B!FetcherInit, BP!FetcherInit,
     B!FetcherReachesEnd, BP!FetcherReachesEnd, B!FetcherSkips,
     BP!FetcherSkips, B!FetchCall, BP!FetchCall, B!FetchReturn, BP!FetchReturn,
     B!FetchError, BP!FetchError, B!FetcherSend, BP!FetcherSend, B!Missing,
     BP!Missing, B!Fault, BP!Fault, B!env, BP!env, B!db, BP!db, B!run, BP!run,
     B!ghost, BP!ghost, B!bound, BP!bound, B!ShouldSkip, BP!ShouldSkip,
     B!HourEnd, BP!HourEnd, B!CursorAt, BP!CursorAt, B!HourOf, BP!HourOf,
     B!HoursUntilNow, BP!HoursUntilNow, B!ReadPosition, BP!ReadPosition,
     B!HoursCovered, BP!HoursCovered, B!FetchFails, BP!FetchFails, B!FetchPage,
     BP!FetchPage, B!NextStart, BP!NextStart, B!Cardinality, BP!Cardinality,
     B!CountIn, BP!CountIn, B!HourStart, BP!HourStart, B!DayOf, BP!DayOf,
     B!HourInDay, BP!HourInDay, B!NumHours, BP!NumHours, B!CursorTime,
     BP!CursorTime, B!IsParallel, BP!IsParallel, B!ParallelPage,
     BP!ParallelPage, B!SinglePage, BP!SinglePage, B!EndOfData, BP!EndOfData,
     B!Max, BP!Max, B!CursorHour, BP!CursorHour, B!FetchParallelBatch,
     BP!FetchParallelBatch, B!Day, BP!Day

LEMMA BackfillStopProved == B!Crash /\ UNCHANGED jumped => BP!Crash
BY DEF
     B!Crash, BP!Crash, B!Fault, BP!Fault, B!EndRun, BP!EndRun, B!env, BP!env,
     B!db, BP!db, B!ghost, BP!ghost, B!NewCheckpoint, BP!NewCheckpoint

-----------------------------------------------------------------------------
(* One of the two runs at a time, and each satisfies its own invariant, over  *)
(* the tables they share.                                                     *)
Apart ==
  /\ mode \in {"off", "backfill", "live"}
  /\ mode = "backfill" <=> main # "idle"
  /\ live # "off" => mode = "live"

(* The start_from of the process that runs is one it can have been given. *)
Configured == /\ InitNow <= now
              /\ mode # "off" => configFrom \in L!ConfigStarts

RunInv == Apart /\ Configured /\ BP!SInv /\ BP!Dated /\ BP!RunAhead /\ LP!SoundInv

LEMMA PartsInit == BothOff => BP!Init /\ LP!Init
<1> SUFFICES ASSUME BothOff PROVE BP!Init /\ LP!Init
  OBVIOUS
<1>1. BP!Init
  BY DEF BothOff,
     B!Init, BP!Init, B!Hours, BP!Hours, B!HourStart, BP!HourStart,
     B!NewCheckpoint, BP!NewCheckpoint, B!ResumeHour, BP!ResumeHour,
     B!CursorHour, BP!CursorHour, B!HourOf, BP!HourOf
<1>2. LP!Init
  BY DEF BothOff,
     B!Init, B!Hours, B!HourStart, B!NewCheckpoint, B!ResumeHour, B!CursorHour,
     B!HourOf, LP!Init, LP!Hours, LP!HourStart, LP!NewCheckpoint,
     LP!ResumeHour, LP!CursorHour, LP!HourOf
<1> QED BY <1>1, <1>2

LEMMA RunInit == Init => RunInv
<1> SUFFICES ASSUME Init PROVE RunInv
  OBVIOUS
<1>1. BP!Init /\ LP!Init
  BY PartsInit DEF Init
<1>2. BP!SInv
  BY <1>1, BP!SoundInit, TableAssumptions, BackfillAssumed DEF BP!SoundInit
<1>3. LP!SoundInv
  BY <1>1, LP!SoundInvInit, TableAssumptions, ContinuousAssumed DEF LP!SoundInvInit
<1>4. mode = "off" /\ main = "idle" /\ live = "off" /\ mem = B!NewCheckpoint
  BY DEF Init, BothOff, B!Init
<1>5. BP!Dated
  BY <1>3, <1>4 DEF BP!Dated, LP!SoundInv, LP!SoundParts, LP!PositionPart, B!NewCheckpoint
<1>6. BP!RunAhead /\ Apart
  BY <1>4 DEF BP!RunAhead, Apart
<1>7. Configured
  <2>1. now = InitNow /\ InitNow \in Nat
    BY PartsAssumption DEF Init, BothOff, B!Init, B!BackfillAssumption
  <2> QED BY <1>4, <2>1 DEF Configured
<1> QED BY <1>2, <1>3, <1>5, <1>6, <1>7 DEF RunInv

-----------------------------------------------------------------------------
(* What each step of RunCommand is for the two parts. *)
BackfillMove ==
  \/ StartCommand \/ Backfilling
  \/ /\ mode = "backfill" /\ B!Crash /\ mode' = "off"
     /\ UNCHANGED liveOnly /\ UNCHANGED configFrom
LiveMove ==
  /\ mode = "live" /\ (live' = "off" => mode' = "off")
  /\ L!StartAt(configFrom) \/ L!LoopStep \/ L!Crash \/ L!Shutdown
  /\ UNCHANGED backfillOnly /\ UNCHANGED configFrom

LEMMA NextMoves ==
  Next => (BackfillMove \/ LiveMove \/ Environment)
BY DEF Next, StartCommand, Backfilling, Living, StopCommand, Stop, BackfillMove, LiveMove

LEMMA BackfillMoves ==
  ASSUME RunInv, BackfillMove
  PROVE  BP!Next /\ live = "off" /\ UNCHANGED liveOnly
<1>1. UNCHANGED liveOnly /\ UNCHANGED jumped
  BY DEF BackfillMove, StartCommand, Backfilling, liveOnly
<1>2. live = "off"
  BY DEF BackfillMove, StartCommand, Backfilling, RunInv, Apart
<1>3. CASE StartCommand
  <2>1. Window \in [start : Nat, end : Nat]
    <3>1. now \in Nat
      BY DEF RunInv, BP!SInv, BP!IInv, BP!TypeOK, BP!EnvOK
    <3> QED BY <3>1, RunAssumption DEF Window
  <2>2. BP!BeginRun(Window)
    BY <1>1, <1>3, BeginRunProved DEF StartCommand
  <2> QED BY <1>1, <1>2, <2>1, <2>2 DEF BP!Next
<1>4. CASE Backfilling
  <2>1. BP!MainStep \/ BP!FetcherStep
    BY <1>1, <1>4, MainStepProved, FetcherStepProved DEF Backfilling
  <2> QED BY <1>1, <1>2, <2>1 DEF BP!Next
<1>5. CASE B!Crash
  BY <1>1, <1>2, <1>5, BackfillStopProved DEF BP!Next
<1> QED BY <1>3, <1>4, <1>5 DEF BackfillMove

LEMMA LiveMoves ==
  ASSUME RunInv, LiveMove
  PROVE  LP!Next /\ main = "idle" /\ UNCHANGED backfillOnly
<1>1. main = "idle" /\ UNCHANGED backfillOnly
  BY DEF RunInv, Apart, LiveMove
<1>2. LP!LiveStep \/ LP!Crash \/ LP!Shutdown
  <2>1. L!StartAt(configFrom) => L!Start
    BY DEF LiveMove, RunInv, Configured, L!Start
  <2> QED BY <2>1, LiveStepProved, LiveStopProved DEF LiveMove, L!LiveStep
<1> QED BY <1>1, <1>2 DEF LP!Next

(* The clock and the bucket, which neither part sees of the other. *)
Still == UNCHANGED <<fills, ckpt, faults, swallowed, stepped, base, backfillOnly, liveOnly>>

LEMMA ClockMoves ==
  ASSUME ClockAndBucket
  PROVE  Still /\ BP!Next /\ LP!Next
<1>1. Still
  BY DEF ClockAndBucket, Still, B!Tick, B!Publish, B!db, B!run, B!task, B!bound, B!ghost,
     backfillOnly
<1>2. CASE B!Tick
  <2>1. BP!Tick
    BY <1>1, <1>2 DEF Still, liveOnly, B!Tick, BP!Tick, B!db, BP!db, B!run, BP!run, B!task,
       BP!task, B!bound, BP!bound, B!ghost, BP!ghost
  <2>2. LP!Tick
    BY <1>1, <1>2 DEF Still, liveOnly, B!Tick, LP!Tick, LP!db, LP!task, LP!ghost
  <2> QED BY <1>1, <2>1, <2>2 DEF BP!Next, LP!Next
<1>3. CASE \E h \in Hours : B!Publish(h)
  <2>1. PICK h \in Hours : B!Publish(h)
    BY <1>3
  <2>2. BP!Publish(h)
    BY <1>1, <2>1 DEF Still, liveOnly, B!Publish, BP!Publish, B!db, BP!db, B!run, BP!run,
       B!task, BP!task, B!bound, BP!bound, B!ghost, BP!ghost, B!HourStart, BP!HourStart
  <2>3. LP!Publish(h)
    BY <1>1, <2>1 DEF Still, liveOnly, B!Publish, LP!Publish, LP!db, LP!task, LP!ghost,
       B!HourStart, LP!HourStart
  <2> QED BY <1>1, <2>2, <2>3, SameOperators DEF BP!Next, LP!Next
<1> QED BY <1>2, <1>3 DEF ClockAndBucket

LEMMA EnvironmentMoves ==
  ASSUME Environment
  PROVE  Still /\ BP!Next /\ LP!Next /\ UNCHANGED mode /\ UNCHANGED configFrom
BY ClockMoves DEF Environment

(* What both parts only add to. *)
LEMMA BackfillGrows ==
  ASSUME (\E w : B!BeginRun(w)) \/ B!MainStep \/ B!FetcherStep \/ B!Crash,
         UNCHANGED jumped
  PROVE  LP!Grow
<1>1. fills \subseteq fills'
  BY DEF B!BeginRun, B!MainStep, B!FetcherStep, B!DecideComplete, B!DecideFetch, B!Recv,
     B!InsertOk, B!InsertError, B!Finish, B!FetcherInit, B!FetcherReachesEnd,
     B!FetcherSkips, B!FetchCall, B!FetchReturn, B!FetchError, B!FetcherSend, B!Crash, B!db
<1>2. \/ UNCHANGED <<swallowed, stepped>> \/ B!FetcherSkips \/ B!FetchReturn
  BY DEF B!BeginRun, B!MainStep, B!FetcherStep, B!DecideComplete, B!DecideFetch, B!Recv,
     B!InsertOk, B!InsertError, B!Finish, B!FetcherInit, B!FetcherReachesEnd, B!FetchCall,
     B!FetchError, B!FetcherSend, B!Crash, B!ghost
<1>3. swallowed \subseteq swallowed' /\ stepped \subseteq stepped'
  BY <1>2 DEF B!FetcherSkips, B!FetchReturn
<1> QED BY <1>1, <1>3 DEF LP!Grow

-----------------------------------------------------------------------------
(* Each part keeps its own invariant, as proved of it; and the other's, whose *)
(* process is not running.                                                    *)
LEMMA BackfillKeepsItsOwn ==
  ASSUME RunInv, BP!Next
  PROVE  (BP!SInv /\ BP!Dated /\ BP!RunAhead)'
<1>1. BP!SInv'
  BY BP!SoundStep, TableAssumptions, BackfillAssumed DEF BP!SoundStep, RunInv
<1>2. BP!Dated'
  BY BP!DatedStep, TableAssumptions, BackfillAssumed DEF RunInv, BP!SInv
<1>3. BP!RunAhead'
  BY BP!StepForward, TableAssumptions, BackfillAssumed
     DEF BP!StepForward, RunInv, BP!SInv
<1> QED BY <1>1, <1>2, <1>3

LEMMA LiveKeepsItsOwn ==
  ASSUME RunInv, LP!Next
  PROVE  LP!SoundInv'
BY LP!SoundStep, TableAssumptions, ContinuousAssumed DEF LP!SoundStep, RunInv

(* The row that a backfill leaves is one that a live process can load. *)
LEMMA BackfillKeepsLive ==
  ASSUME RunInv, BackfillMove
  PROVE  LP!SoundInv'
<1>1. /\ BP!Next /\ live = "off" /\ UNCHANGED liveOnly
      /\ (BP!SInv /\ BP!Dated)' /\ LP!SoundInv
  BY BackfillMoves, BackfillKeepsItsOwn DEF RunInv
<1>2. /\ now' \in Nat /\ published' \subseteq LP!Hours /\ faults' \in Nat
      /\ fills' \in LP!Batches /\ ckpt' \in LP!Checkpoint
      /\ ckpt'.records <= LP!Cardinality(fills')
  <2>1. (BP!EnvOK /\ BP!DbOK /\ BP!CountsOK)'
    BY <1>1 DEF BP!SInv, BP!IInv, BP!TypeOK
  <2>2. /\ now' \in Nat /\ published' \subseteq BP!Hours /\ faults' \in Nat
        /\ fills' \in BP!Batches /\ ckpt' \in BP!Checkpoint
        /\ ckpt'.records <= BP!Cardinality(fills')
    BY <2>1, Zenon DEF BP!EnvOK, BP!DbOK, BP!CountsOK
  <2> QED BY <2>2, SameOperators, SameRows, Zenon
<1>3. LP!TimeAndCursorAgree(ckpt') /\ (ckpt'.ts = None => ckpt'.cursor = None)
  <2>1. BP!TimeAndCursorAgree(ckpt') /\ (ckpt'.ts = None => ckpt'.cursor = None)
    BY <1>1 DEF BP!SInv, BP!Positions, BP!Dated
  <2> QED BY <2>1, SameRows, Zenon
<1>4. base' \in Int
  BY <1>1 DEF BP!SInv, BP!Coverage, BP!Modes
<1>5. \A h \in (base' .. (LP!ResumeHour(ckpt') - 1)) \cap LP!Hours :
        File[h] \subseteq fills' \/ h \in swallowed' \cup stepped' \cup jumped'
  <2>1. BP!RowPart'
    BY <1>1 DEF BP!SInv, BP!Coverage
  <2>2. \A h \in (base' .. (BP!ResumeHour(ckpt') - 1)) \cap BP!Hours :
          File[h] \subseteq fills' \/ h \in swallowed' \cup jumped' \/ h \in stepped'
    BY <2>1 DEF BP!RowPart, BP!Promised, BP!Read, BP!Stored
  <2>3. BP!ResumeHour(ckpt') = LP!ResumeHour(ckpt') /\ BP!Hours = LP!Hours
    BY SameOperators, SameRows, Zenon
  <2> QED BY <2>2, <2>3
<1>6. LP!DoneBelow(LP!ResumeHour(ckpt))'
  BY <1>5 DEF LP!DoneBelow, LP!Stored, LP!GivenUp
<1>7. UNCHANGED LP!task
  BY <1>1 DEF liveOnly, LP!task
<1>8. LP!Grow
  BY <1>1, BackfillGrows DEF BackfillMove, StartCommand, Backfilling, liveOnly
<1> QED BY <1>1, <1>2, <1>3, <1>4, <1>6, <1>7, <1>8, LP!OthersMayWrite, TableAssumptions,
           ContinuousAssumed

(* The row that a live process leaves is one that a backfill can load. *)
LEMMA LiveKeepsBackfill ==
  ASSUME RunInv, LiveMove
  PROVE  (BP!SInv /\ BP!Dated /\ BP!RunAhead)'
<1>1. /\ LP!Next /\ main = "idle" /\ UNCHANGED backfillOnly /\ BP!SInv /\ BP!Dated
      /\ LP!SoundInv'
  BY LiveMoves, LiveKeepsItsOwn DEF RunInv
<1>2. BP!Grow
  <2>1. LP!Grow
    BY <1>1, LP!StepGrows, TableAssumptions, ContinuousAssumed
  <2> QED BY <2>1 DEF LP!Grow, BP!Grow
<1>3. /\ now' \in Nat /\ published' \subseteq BP!Hours /\ faults' \in Nat
      /\ fills' \in BP!Batches /\ ckpt' \in BP!Checkpoint
      /\ ckpt'.records <= BP!Cardinality(fills')
  BY <1>1, SameOperators, SameRows
     DEF LP!SoundInv, LP!LiveInv, LP!TypeOK, LP!LiveCountsOK
<1>4. /\ BP!TimeAndCursorAgree(ckpt') /\ (ckpt'.ts = None => ckpt'.cursor = None)
      /\ base' \in Int
  BY <1>1, SameRows DEF LP!SoundInv, LP!SoundParts, LP!PositionPart, LP!PromisePart
<1>5. \A h \in (base' .. (BP!ResumeHour(ckpt') - 1)) \cap Hours :
        File[h] \subseteq fills' \/ h \in swallowed' \cup jumped' \/ h \in stepped'
  <2>1. CASE ckpt'.ts = None
    <3>1. BP!ResumeHour(ckpt') = 0
      BY <1>4, <2>1 DEF BP!ResumeHour
    <3>2. (base' .. (0 - 1)) \cap Hours = {}
      BY <1>4, SourceAssumption
    <3> QED BY <3>1, <3>2
  <2>2. CASE ckpt'.ts # None
    <3>1. LP!DoneBelow(LP!ResumeHour(ckpt))'
      BY <1>1, <2>2 DEF LP!SoundInv, LP!SoundParts, LP!PromisePart
    <3>2. \A h \in (base' .. (LP!ResumeHour(ckpt') - 1)) \cap LP!Hours :
            File[h] \subseteq fills' \/ h \in swallowed' \cup stepped' \cup jumped'
      BY <3>1 DEF LP!DoneBelow, LP!Stored, LP!GivenUp
    <3>3. BP!ResumeHour(ckpt') = LP!ResumeHour(ckpt') /\ LP!Hours = Hours
      BY SameOperators, SameRows, Zenon
    <3> QED BY <3>2, <3>3
  <2> QED BY <2>1, <2>2
<1>6. BP!RowPart'
  BY <1>5, SameOperators DEF BP!RowPart, BP!Promised, BP!Read, BP!Stored
<1>7. UNCHANGED <<BP!run, BP!task, channel, result, runs, runBase>>
  BY <1>1 DEF backfillOnly, BP!run, BP!task
<1>8. BP!SInv'
  BY <1>1, <1>2, <1>3, <1>4, <1>6, <1>7, BP!OthersMayWrite, TableAssumptions,
     BackfillAssumed
<1>9. (BP!Dated /\ BP!RunAhead)'
  BY <1>1, <1>4 DEF backfillOnly, BP!Dated, BP!RunAhead
<1> QED BY <1>8, <1>9

LEMMA ApartNext == ASSUME RunInv, [Next]_vars PROVE Apart'
<1>1. CASE StartCommand
  <2>1. mode' = "backfill" /\ main' = "decide" /\ mode = "off" /\ live' = live
    BY <1>1 DEF StartCommand, B!BeginRun, liveOnly
  <2> QED BY <2>1 DEF RunInv, Apart
<1>2. CASE Backfilling
  <2>1. /\ mode = "backfill" /\ live' = live
        /\ mode' = IF main' = "idle" THEN AfterBackfill ELSE "backfill"
    BY <1>2 DEF Backfilling, liveOnly
  <2> QED BY <2>1 DEF RunInv, Apart, AfterBackfill
<1>3. CASE Living
  <2>1. mode = "live" /\ mode' = (IF live' = "off" THEN "off" ELSE "live") /\ main' = main
    BY <1>3 DEF Living, backfillOnly
  <2> QED BY <2>1 DEF RunInv, Apart
<1>4. CASE StopCommand
  <2>1. mode' = "off" /\ main' = "idle" /\ live' = "off"
    <3>1. CASE mode = "backfill"
      BY <1>4, <3>1 DEF StopCommand, Stop, B!Crash, B!EndRun, liveOnly, RunInv, Apart
    <3>2. CASE mode # "backfill"
      BY <1>4, <3>2 DEF StopCommand, Stop, L!Crash, L!Shutdown, L!Exit, backfillOnly,
         RunInv, Apart
    <3> QED BY <3>1, <3>2
  <2> QED BY <2>1 DEF Apart
<1>5. CASE Environment
  <2>1. Still /\ UNCHANGED mode
    BY <1>5, EnvironmentMoves
  <2> QED BY <2>1 DEF Still, backfillOnly, liveOnly, RunInv, Apart
<1>6. CASE UNCHANGED vars
  BY <1>6 DEF vars, shared, backfillOnly, liveOnly, RunInv, Apart
<1> QED BY <1>1, <1>2, <1>3, <1>4, <1>5, <1>6 DEF Next

LEMMA ConfiguredNext == ASSUME RunInv, [Next]_vars PROVE Configured'
<1>1. /\ now \in Nat /\ InitNow \in Nat /\ InitNow <= now
      /\ mode # "off" => configFrom \in L!ConfigStarts
  BY PartsAssumption DEF RunInv, Configured, BP!SInv, BP!IInv, BP!TypeOK, BP!EnvOK,
     B!BackfillAssumption
<1>2. now' \in {now, now + 1}
  <2>1. CASE BackfillMove
    <3>1. now' = now
      BY <2>1 DEF BackfillMove, StartCommand, Backfilling, B!BeginRun, B!MainStep,
         B!FetcherStep, B!DecideComplete, B!DecideFetch, B!Recv, B!InsertOk, B!InsertError,
         B!Finish, B!FetcherInit, B!FetcherReachesEnd, B!FetcherSkips, B!FetchCall,
         B!FetchReturn, B!FetchError, B!FetcherSend, B!Crash, B!env
    <3> QED BY <1>1, <3>1
  <2>2. CASE LiveMove
    <3>1. now' = now
      BY <2>2 DEF LiveMove, L!StartAt, L!LoopStep, L!FetchCall, L!FetchReturn, L!FetchError,
         L!InsertOk, L!InsertError, L!Save, L!Crash, L!Shutdown, L!env
    <3> QED BY <1>1, <3>1
  <2>3. CASE Environment \/ UNCHANGED vars
    BY <1>1, <2>3 DEF Environment, ClockAndBucket, B!Tick, B!Publish, vars, shared
  <2> QED BY <2>1, <2>2, <2>3, NextMoves
<1>3. InitNow <= now' /\ \A t \in InitNow .. now : t \in InitNow .. now'
  BY <1>1, <1>2
<1>4. L!ConfigStarts \subseteq L!ConfigStarts'
  BY <1>3 DEF L!ConfigStarts
<1>5. \/ mode' = "off" \/ (mode # "off" /\ UNCHANGED configFrom)
      \/ StartCommand \/ UNCHANGED <<mode, configFrom>>
  BY DEF Next, Backfilling, Living, StopCommand, Stop, Environment, vars
<1>6. CASE StartCommand
  <2>1. now \in InitNow .. now'
    BY <1>1, <1>2
  <2>2. configFrom' \in L!ConfigStarts'
    BY <1>6, <2>1 DEF StartCommand, L!ConfigStarts
  <2> QED BY <1>3, <2>2 DEF Configured
<1>7. CASE mode' = "off" \/ (mode # "off" /\ UNCHANGED configFrom)
  BY <1>1, <1>3, <1>4, <1>7 DEF Configured
<1>8. CASE UNCHANGED <<mode, configFrom>>
  BY <1>1, <1>3, <1>4, <1>8 DEF Configured
<1> QED BY <1>5, <1>6, <1>7, <1>8

LEMMA RunNext == RunInv /\ [Next]_vars => RunInv'
<1> SUFFICES ASSUME RunInv, [Next]_vars PROVE RunInv'
  OBVIOUS
<1>1. Apart' /\ Configured'
  BY ApartNext, ConfiguredNext
<1>2. CASE BackfillMove
  BY <1>1, <1>2, BackfillMoves, BackfillKeepsItsOwn, BackfillKeepsLive DEF RunInv
<1>3. CASE LiveMove
  BY <1>1, <1>3, LiveMoves, LiveKeepsItsOwn, LiveKeepsBackfill DEF RunInv
<1>4. CASE Environment
  BY <1>1, <1>4, EnvironmentMoves, BackfillKeepsItsOwn, LiveKeepsItsOwn DEF RunInv
<1>5. CASE UNCHANGED vars
  <2>1. UNCHANGED BP!vars /\ UNCHANGED LP!vars
    BY <1>5 DEF vars, shared, backfillOnly, liveOnly, BP!vars, BP!env, BP!db, BP!run, BP!task,
       BP!bound, BP!ghost, LP!vars, LP!env, LP!db, LP!task, LP!ghost
  <2>2. BP!SInv'
    BY <2>1, BP!SoundStep, TableAssumptions, BackfillAssumed DEF BP!SoundStep, RunInv
  <2>3. (BP!Dated /\ BP!RunAhead)'
    BY <2>1 DEF RunInv, BP!Dated, BP!RunAhead, BP!vars, BP!db, BP!run
  <2>4. LP!SoundInv'
    BY <2>1, LP!SoundStep, TableAssumptions, ContinuousAssumed DEF LP!SoundStep, RunInv
  <2> QED BY <1>1, <2>2, <2>3, <2>4 DEF RunInv
<1> QED BY <1>2, <1>3, <1>4, <1>5, NextMoves

LEMMA RunInvariant == Spec => []RunInv
  BY RunInit, RunNext, PTL DEF Spec

-----------------------------------------------------------------------------
(* Whichever process saved the row, and whichever takes it over, every hour   *)
(* it says is done is in the table or was given up.                           *)
THEOREM PromiseIsKept == Spec => []PromiseAcrossModes
<1>1. RunInv => PromiseAcrossModes
  <2> SUFFICES ASSUME RunInv, ckpt.ts # None,
                      NEW h \in (base .. (ResumeHour(ckpt) - 1)) \cap Hours
               PROVE  L!Stored(h) \/ L!GivenUp(h)
    BY DEF PromiseAcrossModes
  <2>1. LP!DoneBelow(LP!ResumeHour(ckpt))
    BY DEF RunInv, LP!SoundInv, LP!SoundParts, LP!PromisePart
  <2>2. LP!ResumeHour(ckpt) = ResumeHour(ckpt)
    BY DEF LP!ResumeHour, ResumeHour, LP!CursorHour, CursorHour, LP!HourOf, HourOf
  <2> QED BY <2>1, <2>2, SameOperators
          DEF LP!DoneBelow, LP!Stored, L!Stored, LP!GivenUp, L!GivenUp
<1> QED BY <1>1, RunInvariant, PTL

(* No process counts again what the other counted, and none lowers the count. *)
THEOREM CountGoesOn == Spec => CountSpansModes
<1>1. RunInv /\ RunInv' /\ [Next]_vars =>
        [ckpt.records <= ckpt'.records /\ ckpt'.records <= Cardinality(fills')]_vars
  <2> SUFFICES ASSUME RunInv, RunInv', Next
               PROVE  ckpt.records <= ckpt'.records /\ ckpt'.records <= Cardinality(fills')
    OBVIOUS
  <2>1. ckpt'.records <= Cardinality(fills')
    BY SameOperators DEF RunInv, LP!SoundInv, LP!LiveInv, LP!LiveCountsOK
  <2>2. CASE BackfillMove
    BY <2>1, <2>2, BackfillMoves, BP!CountNeverFalls, TableAssumptions, BackfillAssumed
       DEF RunInv
  <2>3. CASE LiveMove
    BY <2>1, <2>3, LiveMoves, LP!LiveCountNeverFalls, TableAssumptions, ContinuousAssumed
       DEF RunInv
  <2>4. CASE Environment
    BY <2>1, <2>4, EnvironmentMoves, LP!LiveCountNeverFalls, TableAssumptions,
       ContinuousAssumed DEF RunInv
  <2> QED BY <2>2, <2>3, <2>4, NextMoves
<1> QED BY <1>1, RunInvariant, PTL DEF Spec, CountSpansModes

-----------------------------------------------------------------------------
(* Both modes are one CheckpointedReader.  The row and the reader of each     *)
(* part's refinement are those of RunCommand's, while that part runs.         *)
InsertsPages == main \in {"recv", "insert"}
RowOfB == [done |-> BP!Promised(ckpt, base) \cap BP!Hours, records |-> ckpt.records]
ReaderOfB ==
  IF InsertsPages
  THEN [done |-> (runBase .. (BP!ReadTo - 1)) \cap BP!Hours, records |-> total] ELSE None
ReaderOfL == IF live = "off" THEN None
             ELSE [done |-> LP!DoneTo(LP!Saved), records |-> liveTotal]
Row == [done |-> L!DoneTo(ckpt), records |-> ckpt.records]
TheReader ==
  IF main \in {"recv", "insert"}
  THEN [done |-> (runBase .. (B!ReadTo - 1)) \cap Hours, records |-> total]
  ELSE IF live = "off" THEN None
  ELSE [done |-> L!DoneTo(L!Saved), records |-> liveTotal]

LEMMA RowIsB == RunInv => Row = RowOfB
<1> SUFFICES ASSUME RunInv PROVE L!DoneTo(ckpt) = BP!Promised(ckpt, base) \cap BP!Hours
  BY DEF Row, RowOfB
<1>1. L!ResumeHour(ckpt) = BP!ResumeHour(ckpt)
  BY DEF L!ResumeHour, BP!ResumeHour, L!CursorHour, BP!CursorHour, L!HourOf, BP!HourOf
<1>2. CASE ckpt.ts # None
  BY <1>1, <1>2, SameOperators DEF L!DoneTo, BP!Promised
<1>3. CASE ckpt.ts = None
  <2>1. BP!ResumeHour(ckpt) = 0 /\ base \in Int
    BY <1>3 DEF RunInv, BP!Dated, BP!ResumeHour, BP!SInv, BP!Coverage, BP!Modes
  <2>2. (base .. (0 - 1)) \cap Hours = {}
    BY <2>1, SourceAssumption
  <2>3. L!DoneTo(ckpt) = {}
    BY <1>3 DEF L!DoneTo
  <2> QED BY <2>1, <2>2, <2>3, SameOperators DEF BP!Promised
<1> QED BY <1>2, <1>3

LEMMA RowIsBNext == RunInv' => (Row = RowOfB)'
  BY RowIsB, PTL

LEMMA ReaderIsB == live = "off" => TheReader = ReaderOfB
BY SameOperators DEF TheReader, ReaderOfB, InsertsPages,
   B!ReadTo, BP!ReadTo, B!CursorHour, BP!CursorHour, B!HourOf, BP!HourOf,
   B!ReadPosition, BP!ReadPosition, B!StartPosition, BP!StartPosition,
   B!StartCursor, BP!StartCursor, B!CursorTime, BP!CursorTime, B!GoesBack,
   BP!GoesBack, B!HourStart, BP!HourStart, B!Min, BP!Min, B!GapsAfterStart,
   BP!GapsAfterStart, B!ContinuesFromCheckpoint, BP!ContinuesFromCheckpoint,
   B!CursorAt, BP!CursorAt, B!Cardinality, BP!Cardinality, B!Missing,
   BP!Missing, B!DayOf, BP!DayOf, B!HourInDay, BP!HourInDay

LEMMA ReaderIsBNext == (live = "off")' => (TheReader = ReaderOfB)'
  BY ReaderIsB, PTL

LEMMA ReaderIsL == ~InsertsPages => TheReader = ReaderOfL
BY SameOperators DEF TheReader, ReaderOfL, InsertsPages, L!DoneTo, LP!DoneTo, L!Saved,
   LP!Saved, L!ResumeHour, LP!ResumeHour, L!CursorHour, LP!CursorHour, L!HourOf, LP!HourOf

LEMMA ReaderIsLNext == (~InsertsPages)' => (TheReader = ReaderOfL)'
  BY ReaderIsL, PTL

LEMMA RowIsL == LP!DoneTo(ckpt) = L!DoneTo(ckpt) /\ LP!DoneTo(ckpt)' = L!DoneTo(ckpt)'
BY SameOperators DEF L!DoneTo, LP!DoneTo, L!ResumeHour, LP!ResumeHour, L!CursorHour,
   LP!CursorHour, L!HourOf, LP!HourOf

(* A step of the refinement of one part is the same step of RunCommand's. *)
LEMMA StepOfB ==
  ASSUME [BP!Reader!Next]_(BP!Reader!vars), Row = RowOfB, Row' = RowOfB',
         TheReader = ReaderOfB, TheReader' = ReaderOfB'
  PROVE  [Reader!Next]_(Reader!vars)
<1>1. /\ BP!Reader!AllHours = Reader!AllHours
      /\ ((swallowed \cup jumped) \cup stepped) \cap BP!Hours
           = (swallowed \cup stepped \cup jumped) \cap Hours
      /\ (((swallowed \cup jumped) \cup stepped) \cap BP!Hours)'
           = ((swallowed \cup stepped \cup jumped) \cap Hours)'
  BY SameOperators DEF BP!Reader!AllHours, Reader!AllHours
<1>2. BP!Reader!Reset => Reader!Reset
  BY <1>1 DEF BP!Reader!Reset, Reader!Reset, BP!Reader!Grows, Reader!Grows, BP!Reader!Lower,
     Reader!Lower, BP!Reader!IsFiniteSet, Reader!IsFiniteSet, Row, RowOfB, TheReader,
     ReaderOfB, InsertsPages
<1>3. BP!Reader!Load => Reader!Load
  BY <1>1 DEF BP!Reader!Load, Reader!Load, BP!Reader!Grows, Reader!Grows, BP!Reader!Lower,
     Reader!Lower, BP!Reader!IsFiniteSet, Reader!IsFiniteSet, Row, RowOfB, TheReader,
     ReaderOfB, InsertsPages
<1>4. BP!Reader!Advance => Reader!Advance
  BY <1>1 DEF BP!Reader!Advance, Reader!Advance, BP!Reader!Grows, Reader!Grows,
     BP!Reader!Done, Reader!Done, BP!Reader!IsFiniteSet, Reader!IsFiniteSet,
     BP!Reader!Cardinality, Reader!Cardinality, Row, RowOfB, TheReader, ReaderOfB,
     InsertsPages
<1>5. BP!Reader!Leave => Reader!Leave
  BY <1>1 DEF BP!Reader!Leave, Reader!Leave, BP!Reader!Grows, Reader!Grows,
     BP!Reader!IsFiniteSet, Reader!IsFiniteSet, Row, RowOfB, TheReader, ReaderOfB,
     InsertsPages
<1>6. UNCHANGED BP!Reader!vars => UNCHANGED Reader!vars
  BY <1>1 DEF BP!Reader!vars, Reader!vars, Row, RowOfB, TheReader, ReaderOfB, InsertsPages
<1> QED BY <1>2, <1>3, <1>4, <1>5, <1>6 DEF BP!Reader!Next, Reader!Next

LEMMA StepOfL ==
  ASSUME [LP!Reader!Next]_(LP!Reader!vars), TheReader = ReaderOfL, TheReader' = ReaderOfL'
  PROVE  [Reader!Next]_(Reader!vars)
<1>1. /\ LP!Reader!AllHours = Reader!AllHours /\ LP!Hours = Hours
      /\ LP!DoneTo(ckpt) = L!DoneTo(ckpt) /\ LP!DoneTo(ckpt)' = L!DoneTo(ckpt)'
  BY SameOperators, RowIsL DEF LP!Reader!AllHours, Reader!AllHours
<1>2. LP!Reader!Reset => Reader!Reset
  BY <1>1 DEF LP!Reader!Reset, Reader!Reset, LP!Reader!Grows, Reader!Grows, LP!Reader!Lower,
     Reader!Lower, LP!Reader!IsFiniteSet, Reader!IsFiniteSet, TheReader, ReaderOfL
<1>3. LP!Reader!Load => Reader!Load
  BY <1>1 DEF LP!Reader!Load, Reader!Load, LP!Reader!Grows, Reader!Grows, LP!Reader!Lower,
     Reader!Lower, LP!Reader!IsFiniteSet, Reader!IsFiniteSet, TheReader, ReaderOfL
<1>4. LP!Reader!Advance => Reader!Advance
  BY <1>1 DEF LP!Reader!Advance, Reader!Advance, LP!Reader!Grows, Reader!Grows,
     LP!Reader!Done, Reader!Done, LP!Reader!IsFiniteSet, Reader!IsFiniteSet,
     LP!Reader!Cardinality, Reader!Cardinality, TheReader, ReaderOfL
<1>5. LP!Reader!Leave => Reader!Leave
  BY <1>1 DEF LP!Reader!Leave, Reader!Leave, LP!Reader!Grows, Reader!Grows,
     LP!Reader!IsFiniteSet, Reader!IsFiniteSet, TheReader, ReaderOfL
<1>6. UNCHANGED LP!Reader!vars => UNCHANGED Reader!vars
  BY <1>1 DEF LP!Reader!vars, Reader!vars, TheReader, ReaderOfL
<1> QED BY <1>2, <1>3, <1>4, <1>5, <1>6 DEF LP!Reader!Next, Reader!Next

(* The order of a backfill's pages is needed for the refinement too; with no  *)
(* run in progress there is nothing to order.                                 *)
ReadInv == RunInv /\ BP!RInv

LEMMA ReadInit == Init => ReadInv
<1> SUFFICES ASSUME Init PROVE ReadInv
  OBVIOUS
<1>1. RunInv /\ main = "idle"
  BY RunInit DEF Init, BothOff, B!Init
<1>2. BP!RInv
  BY <1>1, BP!IdleRun, TableAssumptions, BackfillAssumed DEF BP!IdleRun, RunInv
<1> QED BY <1>1, <1>2 DEF ReadInv

LEMMA OrderKept ==
  ASSUME RefreshGap <= GoBackGap, ReadInv, BP!Next \/ UNCHANGED BP!vars
  PROVE  BP!RInv'
BY BP!RunInvariant, TableAssumptions, BackfillAssumed DEF BP!RunInvariant, ReadInv

LEMMA ReadNext ==
  ASSUME RefreshGap <= GoBackGap, ReadInv, [Next]_vars
  PROVE  ReadInv'
<1>1. RunInv'
  BY RunNext DEF ReadInv
<1>2. CASE BackfillMove
  BY <1>1, <1>2, BackfillMoves, OrderKept DEF ReadInv
<1>3. CASE LiveMove
  <2>1. main' = "idle"
    BY <1>3, LiveMoves DEF ReadInv, backfillOnly
  <2>2. (BP!SInv /\ main = "idle")'
    BY <1>1, <2>1 DEF RunInv
  <2>3. BP!RInv'
    BY <2>2, BP!IdleRunNext, TableAssumptions, BackfillAssumed DEF BP!IdleRunNext
  <2> QED BY <1>1, <2>3 DEF ReadInv
<1>4. CASE Environment
  BY <1>1, <1>4, EnvironmentMoves, OrderKept DEF ReadInv
<1>5. CASE UNCHANGED vars
  <2>1. UNCHANGED BP!vars
    BY <1>5 DEF vars, shared, backfillOnly, BP!vars, BP!env, BP!db, BP!run, BP!task, BP!bound,
       BP!ghost, liveOnly
  <2> QED BY <1>1, <2>1, OrderKept DEF ReadInv
<1> QED BY <1>2, <1>3, <1>4, <1>5, NextMoves

LEMMA ReadStep ==
  ASSUME ReadInv, ReadInv', [Next]_vars
  PROVE  [Reader!Next]_(Reader!vars)
<1>1. Row = RowOfB /\ Row' = RowOfB'
  BY RowIsB, RowIsBNext DEF ReadInv
<1>2. CASE BackfillMove
  <2>1. BP!Next /\ live = "off" /\ live' = "off"
    BY <1>2, BackfillMoves DEF ReadInv, liveOnly
  <2>2. TheReader = ReaderOfB /\ TheReader' = ReaderOfB'
    BY <2>1, ReaderIsB, ReaderIsBNext
  <2>3. [BP!Reader!Next]_(BP!Reader!vars)
    BY <2>1, BP!ReaderStep, TableAssumptions, BackfillAssumed DEF BP!ReaderStep, ReadInv
  <2> QED BY <1>1, <2>2, <2>3, StepOfB
<1>3. CASE LiveMove
  <2>1. LP!Next /\ ~InsertsPages /\ (~InsertsPages)'
    BY <1>3, LiveMoves DEF ReadInv, backfillOnly, InsertsPages
  <2>2. TheReader = ReaderOfL /\ TheReader' = ReaderOfL'
    BY <2>1, ReaderIsL, ReaderIsLNext
  <2>3. [LP!Reader!Next]_(LP!Reader!vars)
    BY <2>1, LP!ReaderStep, TableAssumptions, ContinuousAssumed
       DEF LP!ReaderStep, ReadInv, RunInv
  <2> QED BY <2>2, <2>3, StepOfL
<1>4. CASE Environment \/ UNCHANGED vars
  <2>1. Still
    BY <1>4, EnvironmentMoves DEF vars, shared, Still
  <2>2. Row' = Row
    BY <2>1 DEF Still, Row, L!DoneTo, L!ResumeHour
  <2>3. L!DoneTo(L!Saved)' = L!DoneTo(L!Saved) /\ B!ReadTo' = B!ReadTo
    BY <2>1 DEF Still, liveOnly, backfillOnly, L!DoneTo, L!Saved, B!ReadTo, B!StartPosition,
       B!StartCursor, B!GoesBack, B!ContinuesFromCheckpoint, B!GapsAfterStart
  <2>4. TheReader' = TheReader
    BY <2>1, <2>3 DEF Still, liveOnly, backfillOnly, TheReader
  <2>5. UNCHANGED <<fills, swallowed, stepped, jumped>>
    BY <2>1 DEF Still, liveOnly
  <2> QED BY <2>2, <2>4, <2>5 DEF Reader!vars, Row, TheReader
<1> QED BY <1>2, <1>3, <1>4, NextMoves

LEMMA ReadStart == Init => Reader!Init
<1> SUFFICES ASSUME Init PROVE Reader!Init
  OBVIOUS
<1>1. BP!Init /\ LP!Init /\ RunInv /\ live = "off" /\ main = "idle"
  BY PartsInit, RunInit DEF Init, BothOff, B!Init
<1>2. LP!Reader!Init
  BY <1>1, LP!ReaderInit, TableAssumptions, ContinuousAssumed DEF LP!ReaderInit
<1>3. TheReader = None /\ ReaderOfL = None
  BY <1>1 DEF TheReader, ReaderOfL
<1>4. /\ LP!Reader!AllHours = Reader!AllHours /\ LP!Hours = Hours
      /\ LP!DoneTo(ckpt) = L!DoneTo(ckpt)
  BY SameOperators, RowIsL DEF LP!Reader!AllHours, Reader!AllHours
<1> QED BY <1>2, <1>3, <1>4
        DEF LP!Reader!Init, Reader!Init, LP!Reader!Done, Reader!Done, LP!Reader!IsFiniteSet,
            Reader!IsFiniteSet, LP!Reader!Cardinality, Reader!Cardinality, TheReader, ReaderOfL

(* The command, from its first backfill to its last live process, is one      *)
(* reader: what it is done with goes from mode to mode by the row alone.      *)
THEOREM CommandImplementsReader ==
  RefreshGap <= GoBackGap => (Spec => ImplementsReader)
<1> SUFFICES ASSUME RefreshGap <= GoBackGap PROVE Spec => ImplementsReader
  OBVIOUS
<1>1. ReadInv /\ [Next]_vars => ReadInv'
  BY ReadNext
<1>2. Spec => []ReadInv
  BY <1>1, ReadInit, PTL DEF Spec
<1>3. ReadInv /\ ReadInv' /\ [Next]_vars => [Reader!Next]_(Reader!vars)
  BY ReadStep
<1> QED BY <1>2, <1>3, ReadStart, PTL DEF Spec, ImplementsReader, Reader!Spec
-----------------------------------------------------------------------------
(* The date from which the command backfills.  Of the hours from it on, the   *)
(* live process is to find those before its first page done.                  *)
FromHour == HourOf(BackfillFrom)
Safe(h) == L!Stored(h) \/ L!GivenUp(h)
DoneFrom(hour) == \A h \in (FromHour .. (hour - 1)) \cap Hours : Safe(h)

(* How far a run that ends well has read, whatever it leaves in the row.      *)
Reach == HourOf(end) - ParallelMin
Within ==
  \/ HourOf(configFrom) <= FromHour
  \/ BackfillTo = None /\ HourOf(configFrom) <= Reach

FromPart ==
  /\ ckpt.ts # None \/ live # "off" => DoneFrom(base)
  /\ main \in {"recv", "insert"} => DoneFrom(runBase)
  /\ main # "idle" => start = BackfillFrom /\ Within
  /\ BackfillTo = None => BP!StopPart
  /\ mode = "live" /\ live = "off" /\ ckpt.ts = None => DoneFrom(HourOf(configFrom))

(* A row that is there at first is true of the hours from the date on.        *)
RowsKeepTheDate ==
  \A d \in Databases : d.ckpt.ts # None =>
    \A h \in (FromHour .. (ResumeHour(d.ckpt) - 1)) \cap Hours : File[h] \subseteq d.fills

(* The start_from of the live process, which it uses when it finds no row:    *)
(* not after the date, or, of a backfill up to now, ParallelMin hours old     *)
(* when the command starts, as is the default of LookBack before now.         *)
StartsInTime ==
  \/ StartFrom # None /\ HourOf(StartFrom) <= FromHour
  \/ /\ BackfillTo = None
     /\ IF StartFrom = None THEN HourStart(ParallelMin) <= LookBack
                            ELSE StartFrom + HourStart(ParallelMin) <= InitNow

(* A run that finds every hour of its window present, when nothing was saved  *)
(* yet, is complete at once.  An hour with MinFills fills is present, though  *)
(* an interrupted insert may have left that many of more.                     *)
PresentIsWhole ==
  main = "decide" /\ ckpt.ts = None =>
    \A h \in Hours : Cardinality({f \in fills : HourOf(f) = h}) >= MinFills => L!Stored(h)

FromInv == RunInv /\ FromPart

LEMMA SameHours ==
  /\ \A t : BP!HourOf(t) = HourOf(t) /\ LP!HourOf(t) = HourOf(t) /\ B!HourOf(t) = HourOf(t)
  /\ \A t : L!HourOf(t) = HourOf(t)
  /\ \A c : B!ResumeHour(c) = ResumeHour(c)
BY DEF BP!HourOf, LP!HourOf, B!HourOf, L!HourOf, HourOf, B!ResumeHour, ResumeHour,
   B!CursorHour, CursorHour

LEMMA SafeStays == LP!Grow => \A h : Safe(h) => Safe(h)'
BY DEF LP!Grow, Safe, L!Stored, L!GivenUp

LEMMA DoneFromStays ==
  ASSUME LP!Grow, NEW a \in Int, NEW b \in Int, b <= a, DoneFrom(a)
  PROVE  \A h \in (FromHour .. (b - 1)) \cap Hours : Safe(h)'
<1>1. \A h : Safe(h) => Safe(h)'
  BY SafeStays
<1>2. FromHour \in Int
  BY TimeTypes, RunAssumption DEF FromHour
<1>3. FromHour .. (b - 1) \subseteq FromHour .. (a - 1)
  BY <1>2
<1> QED BY <1>1, <1>3 DEF DoneFrom

(* No hour is before the date and after it. *)
LEMMA NoHourBefore ==
  ASSUME NEW hour \in Int, hour <= FromHour PROVE FromHour .. (hour - 1) = {}
BY TimeTypes, RunAssumption DEF FromHour

LEMMA ConfiguredType ==
  ASSUME RunInv, mode # "off" PROVE configFrom \in Int /\ HourOf(configFrom) \in Int
<1>1. LookBack \in Nat /\ InitNow \in Nat /\ StartFrom \in Nat \cup {None} /\ now \in Nat
  BY PartsAssumption DEF L!ContinuousAssumption, RunInv, BP!SInv, BP!IInv, BP!TypeOK,
     BP!EnvOK
<1>2. configFrom \in L!ConfigStarts
  BY DEF RunInv, Configured
<1>3. configFrom \in Int
  BY <1>1, <1>2 DEF L!ConfigStarts
<1> QED BY <1>3, TimeTypes

LEMMA FromInit == ASSUME RowsKeepTheDate, Init PROVE FromPart
<1>1. PICK d \in Databases : ckpt = d.ckpt /\ fills = d.fills
  BY DEF Init, BothOff, B!Init
<1>2. /\ main = "idle" /\ live = "off" /\ mode = "off" /\ base = ResumeHour(ckpt)
      /\ fetcher = "off"
  BY SameHours DEF Init, BothOff, B!Init
<1>3. BP!StopPart
  BY <1>2 DEF BP!StopPart
<1>4. ckpt.ts # None => DoneFrom(base)
  BY <1>1, <1>2 DEF RowsKeepTheDate, DoneFrom, Safe, L!Stored
<1> QED BY <1>2, <1>3, <1>4 DEF FromPart

(* A command that starts has a window whose end has come and, if it is now,   *)
(* a start_from that a run up to it reaches.                                  *)
LEMMA FromStarts ==
  ASSUME RunInv, StartsInTime, StartCommand
  PROVE  Within' /\ start' = BackfillFrom /\ (BackfillTo = None => end' <= now')
<1>1. /\ now \in Nat /\ InitNow \in Nat /\ InitNow <= now /\ LookBack \in Nat
      /\ StartFrom \in Nat \cup {None} /\ ParallelMin \in Int /\ HourStart(ParallelMin) \in Int
  BY PartsAssumption, SourceAssumption, TimeTypes
     DEF L!ContinuousAssumption, RunInv, Configured, BP!SInv, BP!IInv, BP!TypeOK, BP!EnvOK
<1>2. /\ start' = BackfillFrom /\ now' = now
      /\ end' = IF BackfillTo = None THEN now ELSE BackfillTo
      /\ configFrom' = IF StartFrom # None THEN StartFrom ELSE now - LookBack
  BY DEF StartCommand, B!BeginRun, Window, B!env
<1>3. CASE StartFrom # None /\ HourOf(StartFrom) <= FromHour
  BY <1>1, <1>2, <1>3 DEF Within, FromHour
<1>4. CASE ~(StartFrom # None /\ HourOf(StartFrom) <= FromHour)
  <2>1. /\ BackfillTo = None
        /\ configFrom' \in Int /\ configFrom' + HourStart(ParallelMin) <= now
    BY <1>1, <1>2, <1>4 DEF StartsInTime
  <2>2. configFrom' + HourStart(ParallelMin) \in Int
    BY <1>1, <2>1
  <2>3. HourOf(configFrom' + HourStart(ParallelMin)) <= HourOf(now)
    BY <1>1, <2>1, <2>2, HourMonotonic
  <2>4. HourOf(configFrom' + HourStart(ParallelMin)) = HourOf(configFrom') + ParallelMin
    BY <1>1, <2>1, HourShift
  <2>5. HourOf(configFrom') \in Int /\ HourOf(now) \in Int
    BY <1>1, <2>1, TimeTypes
  <2>6. HourOf(configFrom') <= HourOf(now) - ParallelMin
    BY <1>1, <2>3, <2>4, <2>5
  <2> QED BY <1>1, <1>2, <2>1, <2>6 DEF Within, Reach
<1> QED BY <1>1, <1>2, <1>3, <1>4

LEMMA FromStop ==
  ASSUME FromInv, StartsInTime, BackfillMove, BackfillTo = None PROVE BP!StopPart'
<1>1. BP!Next /\ BP!SInv /\ BP!StopPart
  BY BackfillMoves DEF FromInv, FromPart, RunInv
<1>2. BP!SInv'
  BY <1>1, BackfillKeepsItsOwn DEF FromInv
<1>3. main = "idle" /\ main' # "idle" => end' <= now'
  <2>1. CASE StartCommand
    BY <2>1, FromStarts DEF FromInv
  <2>2. CASE ~StartCommand
    BY <2>2 DEF BackfillMove, Backfilling, FromInv, RunInv, Apart
  <2> QED BY <2>1, <2>2
<1> QED BY <1>1, <1>2, <1>3, BP!StopStep, TableAssumptions, BackfillAssumed

(* A run that found every hour there. *)
LEMMA CompleteIsRead ==
  ASSUME FromInv, PresentIsWhole, main = "decide", B!HasAllHours, ckpt.ts = None
  PROVE  DoneFrom(Reach)
<1>1. /\ start = BackfillFrom /\ end \in Int /\ HourOf(end) \in Int /\ FromHour \in Int
      /\ ParallelMin \in Int /\ ParallelMin >= 1 /\ MinFills \in Int
      /\ IsFiniteSet(fills)
  <2>1. end \in Int /\ fills \in BP!Batches /\ start = BackfillFrom
    BY DEF FromInv, FromPart, RunInv, BP!SInv, BP!IInv, BP!TypeOK, BP!MainOK, BP!DbOK
  <2> QED BY <2>1, TimeTypes, RunAssumption, SourceAssumption, MinFillsAssumption,
             SameOperators DEF FromHour, BP!Batches
<1> SUFFICES ASSUME NEW h \in (FromHour .. (Reach - 1)) \cap Hours PROVE Safe(h)
  BY DEF DoneFrom
<1>2. h \in FromHour .. (HourOf(end) - 1) /\ h \in Hours
  BY <1>1 DEF Reach
<1> DEFINE seen == {f \in fills : HourOf(f) = h /\ start <= f /\ f < end}
           all  == {f \in fills : HourOf(f) = h}
<1>3. ~(Cardinality(seen) < MinFills)
  <2>1. B!Missing(fills, start, end) = {}
    BY DEF B!HasAllHours
  <2>2. B!Missing(fills, start, end)
          = {i \in FromHour .. (HourOf(end) - 1) :
               Cardinality({f \in fills : HourOf(f) = i /\ start <= f /\ f < end}) < MinFills}
    BY <1>1 DEF B!Missing, B!HourOf, HourOf, FromHour, B!Cardinality, Cardinality
  <2> QED BY <1>2, <2>1, <2>2
<1>4. /\ Cardinality(seen) <= Cardinality(all)
      /\ Cardinality(seen) \in Nat /\ Cardinality(all) \in Nat
  <2>1. IsFiniteSet(all) /\ seen \subseteq all
    BY <1>1, FS_Subset
  <2> HIDE DEF seen, all
  <2> QED BY <2>1, FS_Subset, FS_CardinalityType
<1>5. Cardinality(all) >= MinFills
  <2> HIDE DEF seen, all
  <2> QED BY <1>1, <1>3, <1>4
<1> QED BY <1>2, <1>5 DEF PresentIsWhole, Safe

(* When the backfill returns Ok, the hours up to start_from are done: by the  *)
(* run that read them, or by those before it.                                 *)
LEMMA FromFinish ==
  ASSUME FromInv, PresentIsWhole, Backfilling, LP!Grow, mode' = "live", ckpt'.ts = None
  PROVE  DoneFrom(HourOf(configFrom))'
<1>1. /\ BP!SInv /\ mode = "backfill" /\ main # "idle" /\ UNCHANGED configFrom
      /\ main' = "idle" /\ result' # "failed"
      /\ HourOf(configFrom) \in Int /\ Within
  BY ConfiguredType DEF FromInv, FromPart, RunInv, Apart, Backfilling, AfterBackfill
<1>2. CASE HourOf(configFrom) <= FromHour
  BY <1>1, <1>2, NoHourBefore DEF DoneFrom, FromHour
<1>3. CASE ~(HourOf(configFrom) <= FromHour)
  <2>1. BackfillTo = None /\ HourOf(configFrom) <= Reach /\ BP!StopPart
    BY <1>1, <1>3 DEF Within, FromInv, FromPart
  <2>2. end \in Int /\ runBase \in Int /\ Reach \in Int
    <3>1. end \in Int /\ runBase \in Int /\ ParallelMin \in Int
      BY <1>1, SourceAssumption
         DEF BP!SInv, BP!IInv, BP!TypeOK, BP!MainOK, BP!Coverage, BP!Modes
    <3> QED BY <3>1, TimeTypes DEF Reach
  <2>3. DoneFrom(Reach)
    <3>1. B!DecideComplete \/ B!Finish
      BY <1>1 DEF Backfilling, B!MainStep, B!FetcherStep, B!DecideFetch, B!Recv, B!InsertOk,
         B!InsertError, B!EndRun, B!FetcherInit, B!FetcherReachesEnd, B!FetcherSkips,
         B!FetchCall, B!FetchReturn, B!FetchError, B!FetcherSend, B!run
    <3>2. CASE B!DecideComplete
      <4>1. main = "decide" /\ mem = ckpt /\ ckpt.ts = None
        BY <1>1, <3>2 DEF B!DecideComplete, B!db, BP!SInv, BP!Coverage, BP!Modes
      <4>2. B!HasAllHours
        BY <3>2, <4>1 DEF B!DecideComplete, B!EndsBehindCheckpoint
      <4> QED BY <4>1, <4>2, CompleteIsRead
    <3>3. CASE B!Finish
      <4>1. BP!Finish /\ main \in {"recv", "insert"}
        BY <3>3 DEF Backfilling, liveOnly, B!Finish, BP!Finish, B!EndRun, BP!EndRun, B!env,
           BP!env, B!bound, BP!bound, B!NewCheckpoint, BP!NewCheckpoint
      <4>2. \A h \in BP!HoursTo(BP!Reach) : BP!Read(h)
        BY <1>1, <2>1, <4>1, BP!StoppedIsRead, TableAssumptions, BackfillAssumed
      <4>3. DoneFrom(runBase)
        BY <4>1 DEF FromInv, FromPart
      <4> SUFFICES ASSUME NEW h \in (FromHour .. (Reach - 1)) \cap Hours PROVE Safe(h)
        BY DEF DoneFrom
      <4>4. h \in Int /\ FromHour <= h /\ h <= Reach - 1 /\ h \in Hours /\ FromHour \in Int
        BY <2>2, TimeTypes, RunAssumption DEF FromHour
      <4>5. CASE h < runBase
        BY <2>2, <4>3, <4>4, <4>5 DEF DoneFrom
      <4>6. CASE ~(h < runBase)
        <5>1. BP!Reach = Reach
          BY DEF BP!Reach, Reach, BP!HourOf, HourOf
        <5>2. h \in BP!HoursTo(BP!Reach)
          BY <2>2, <4>4, <4>6, <5>1, SameOperators DEF BP!HoursTo
        <5> QED BY <4>2, <5>2 DEF BP!Read, BP!Stored, Safe, L!Stored, L!GivenUp
      <4> QED BY <4>5, <4>6
    <3> QED BY <3>1, <3>2, <3>3
  <2>4. \A h \in (FromHour .. (HourOf(configFrom) - 1)) \cap Hours : Safe(h)'
    BY <1>1, <2>1, <2>2, <2>3, DoneFromStays
  <2> QED BY <1>1, <2>4 DEF DoneFrom, FromHour
<1> QED BY <1>2, <1>3

LEMMA FromBackfill ==
  ASSUME FromInv, StartsInTime, PresentIsWhole, BackfillMove PROVE FromPart'
<1>1. /\ BP!SInv /\ BP!SInv' /\ live = "off" /\ live' = live /\ LP!Grow
      /\ base \in Int /\ base' \in Int /\ runBase \in Int /\ runBase' \in Int
  <2>1. BP!SInv /\ BP!SInv' /\ live = "off" /\ UNCHANGED liveOnly
    BY BackfillMoves, BackfillKeepsItsOwn DEF FromInv, RunInv
  <2>2. LP!Grow
    BY <2>1, BackfillGrows DEF BackfillMove, StartCommand, Backfilling, liveOnly
  <2> QED BY <2>1, <2>2 DEF liveOnly, BP!SInv, BP!Coverage, BP!Modes
<1>2. BackfillTo = None => BP!StopPart'
  BY FromStop
<1>3. CASE StartCommand
  <2>1. BP!BeginRun(Window) /\ mode' = "backfill"
    BY <1>1, <1>3, BeginRunProved DEF StartCommand, liveOnly
  <2>2. Window.start \in Nat /\ Window.end \in Nat
    <3>1. now \in Nat
      BY <1>1 DEF BP!SInv, BP!IInv, BP!TypeOK, BP!EnvOK
    <3> QED BY <3>1, RunAssumption DEF Window
  <2>3. main' = "decide"
    BY <2>1 DEF BP!BeginRun
  <2>4. ASSUME ckpt'.ts # None PROVE DoneFrom(base)'
    <3>1. ckpt.ts # None /\ base' <= base
      BY <1>1, <2>1, <2>2, <2>4, BP!BeginsBelow, TableAssumptions, BackfillAssumed
    <3>2. DoneFrom(base)
      BY <3>1 DEF FromInv, FromPart
    <3>3. \A h \in (FromHour .. (base' - 1)) \cap Hours : Safe(h)'
      BY <1>1, <3>1, <3>2, DoneFromStays
    <3> QED BY <3>3 DEF DoneFrom, FromHour
  <2>5. Within' /\ start' = BackfillFrom
    BY <1>3, FromStarts DEF FromInv
  <2> QED BY <1>1, <1>2, <2>1, <2>3, <2>4, <2>5 DEF FromPart
<1>4. CASE ~StartCommand
  <2>1. BP!MainStep \/ BP!FetcherStep \/ BP!Crash
    BY <1>1, <1>4, MainStepProved, FetcherStepProved, BackfillStopProved
       DEF BackfillMove, Backfilling, liveOnly
  <2>2. /\ main # "idle" /\ UNCHANGED start
        /\ \/ UNCHANGED <<ckpt, base>>
           \/ main \in {"recv", "insert"} /\ base' = runBase
        /\ main' \in {"recv", "insert"} =>
             \/ main \in {"recv", "insert"} /\ UNCHANGED runBase
             \/ ckpt.ts # None /\ runBase' = base
             \/ runBase' = BP!HourOf(start)
    BY <1>1, <2>1, BP!WhereRunsBegin, TableAssumptions, BackfillAssumed
  <2>3. start = BackfillFrom /\ Within /\ UNCHANGED <<end, configFrom>>
    <3>1. UNCHANGED end
      BY <2>1 DEF BP!MainStep, BP!FetcherStep, BP!DecideComplete, BP!DecideFetch, BP!Recv,
         BP!InsertOk, BP!InsertError, BP!Finish, BP!FetcherInit, BP!FetcherReachesEnd,
         BP!FetcherSkips, BP!FetchCall, BP!FetchReturn, BP!FetchError, BP!FetcherSend,
         BP!Crash, BP!EndRun, BP!run
    <3>2. UNCHANGED configFrom
      BY <1>4 DEF BackfillMove, Backfilling
    <3> QED BY <2>2, <3>1, <3>2 DEF FromInv, FromPart
  <2>4. ASSUME ckpt'.ts # None PROVE DoneFrom(base)'
    <3>1. DoneFrom(base')
      BY <2>2, <2>4 DEF FromInv, FromPart, DoneFrom
    <3>2. \A h \in (FromHour .. (base' - 1)) \cap Hours : Safe(h)'
      BY <1>1, <3>1, SafeStays DEF DoneFrom
    <3> QED BY <3>2 DEF DoneFrom, FromHour
  <2>5. ASSUME main' \in {"recv", "insert"} PROVE DoneFrom(runBase)'
    <3>1. CASE DoneFrom(runBase')
      <4>1. \A h \in (FromHour .. (runBase' - 1)) \cap Hours : Safe(h)'
        BY <1>1, <3>1, SafeStays DEF DoneFrom
      <4> QED BY <4>1 DEF DoneFrom, FromHour
    <3>2. CASE runBase' = BP!HourOf(start)
      <4>1. runBase' = FromHour
        BY <2>3, <3>2, SameHours DEF FromHour
      <4>2. FromHour .. (runBase' - 1) = {}
        BY <1>1, <4>1, NoHourBefore
      <4> QED BY <4>2 DEF DoneFrom, FromHour
    <3>3. DoneFrom(runBase') \/ runBase' = BP!HourOf(start)
      BY <2>2, <2>5 DEF FromInv, FromPart, DoneFrom
    <3> QED BY <3>1, <3>2, <3>3
  <2>6. ASSUME mode' = "live", ckpt'.ts = None PROVE DoneFrom(HourOf(configFrom))'
    <3>1. Backfilling
      BY <1>4, <2>6 DEF BackfillMove
    <3> QED BY <1>1, <2>6, <3>1, FromFinish
  <2>7. main' # "idle" => start' = BackfillFrom /\ Within'
    BY <2>2, <2>3 DEF Within, Reach, FromHour
  <2> QED BY <1>1, <1>2, <2>4, <2>5, <2>6, <2>7 DEF FromPart
<1> QED BY <1>3, <1>4

(* A live process that starts finds a row, or begins at its start_from. *)
LEMMA FromLiveStart ==
  ASSUME FromInv, mode = "live", live = "off", L!StartAt(configFrom), LP!Grow,
         base' \in Int
  PROVE  DoneFrom(base)'
<1>1. /\ now \in Nat /\ base \in Int /\ LP!LiveInv
  BY DEF FromInv, RunInv, LP!SoundInv, LP!SoundParts, LP!PromisePart, LP!LiveInv, LP!TypeOK
<1>2. DoneFrom(base')
  <2>1. CASE L!Refreshes(L!RecentGaps(ckpt))
    <3> DEFINE gap == L!Min(L!RecentGaps(ckpt))
    <3>1. LP!Refreshes(LP!RecentGaps(ckpt)) /\ LP!Min(LP!RecentGaps(ckpt)) = gap
      BY <2>1 DEF L!Refreshes, LP!Refreshes, L!RecentGaps, LP!RecentGaps, L!Missing,
         LP!Missing, L!Cardinality, LP!Cardinality, L!HourOf, LP!HourOf, L!Max, LP!Max,
         L!Min, LP!Min
    <3>2. ckpt.ts # None /\ gap \in Int
      BY <1>1, <3>1, LP!ResetGap, TableAssumptions, ContinuousAssumed
    <3>3. base' = Min({base, gap})
      BY <2>1 DEF L!StartAt, L!Min, Min
    <3>4. base' <= base
      <4> HIDE DEF gap
      <4> QED BY <1>1, <3>2, <3>3, EarlierOf
    <3>5. DoneFrom(base)
      BY <3>2 DEF FromInv, FromPart
    <3>6. FromHour .. (base' - 1) \subseteq FromHour .. (base - 1)
      BY <1>1, <3>4, TimeTypes, RunAssumption DEF FromHour
    <3> QED BY <3>5, <3>6 DEF DoneFrom
  <2>2. CASE ~L!Refreshes(L!RecentGaps(ckpt))
    <3>1. base' = IF ckpt.ts = None THEN HourOf(L!StartTime(ckpt, configFrom)) ELSE base
      BY <2>2, SameHours DEF L!StartAt
    <3> QED BY <3>1 DEF FromInv, FromPart, L!StartTime, DoneFrom
  <2> QED BY <2>1, <2>2
<1>3. \A h \in (FromHour .. (base' - 1)) \cap Hours : Safe(h)'
  BY <1>2, SafeStays DEF DoneFrom
<1> QED BY <1>3 DEF DoneFrom, FromHour

LEMMA FromLive ==
  ASSUME FromInv, LiveMove PROVE FromPart'
<1>1. /\ main = "idle" /\ UNCHANGED backfillOnly /\ LP!Next /\ LP!SoundInv'
  BY LiveMoves, LiveKeepsItsOwn DEF FromInv
<1>2. LP!Grow /\ base \in Int /\ base' \in Int
  BY <1>1, LP!StepGrows, TableAssumptions, ContinuousAssumed
     DEF FromInv, RunInv, LP!SoundInv, LP!SoundParts, LP!PromisePart
<1>3. main' = "idle" /\ fetcher' = "off"
  BY <1>1 DEF backfillOnly, FromInv, RunInv, BP!SInv, BP!Coverage, BP!Modes
<1>4. BP!StopPart'
  BY <1>3 DEF BP!StopPart
<1>5. ckpt'.ts # None \/ live' # "off" => DoneFrom(base)'
  <2>1. CASE L!StartAt(configFrom)
    BY <1>2, <2>1, FromLiveStart DEF LiveMove, L!StartAt
  <2>2. CASE ~L!StartAt(configFrom)
    <3>1. live # "off" /\ UNCHANGED base
      BY <2>2 DEF LiveMove, L!LoopStep, L!FetchCall, L!FetchReturn, L!FetchError, L!InsertOk,
         L!InsertError, L!Save, L!Crash, L!Shutdown, L!ghost
    <3>2. DoneFrom(base)
      BY <3>1 DEF FromInv, FromPart
    <3>3. \A h \in (FromHour .. (base - 1)) \cap Hours : Safe(h)'
      BY <1>2, <3>2, DoneFromStays
    <3> QED BY <3>1, <3>3 DEF DoneFrom, FromHour
  <2> QED BY <2>1, <2>2
<1>6. ~(mode' = "live" /\ live' = "off")
  BY DEF LiveMove
<1> QED BY <1>3, <1>4, <1>5, <1>6 DEF FromPart

LEMMA FromOther ==
  ASSUME FromInv, RunInv', Environment \/ UNCHANGED vars PROVE FromPart'
<1>1. /\ UNCHANGED <<ckpt, base, main, runBase, start, end, live, mode, configFrom>>
      /\ UNCHANGED <<fills, swallowed, stepped, jumped, fetcher>>
      /\ BP!Next \/ UNCHANGED BP!vars
  <2>1. CASE Environment
    BY <2>1, EnvironmentMoves DEF Still, backfillOnly, liveOnly
  <2>2. CASE UNCHANGED vars
    BY <2>2 DEF vars, shared, backfillOnly, liveOnly, BP!vars, BP!env, BP!db, BP!run,
       BP!task, BP!bound, BP!ghost
  <2> QED BY <2>1, <2>2
<1>2. \A h : Safe(h) <=> Safe(h)'
  BY <1>1 DEF Safe, L!Stored, L!GivenUp
<1>3. BackfillTo = None => BP!StopPart'
  <2>1. BP!SInv /\ BP!SInv'
    BY DEF FromInv, RunInv
  <2> QED BY <1>1, <2>1, BP!StopStep, TableAssumptions, BackfillAssumed DEF FromInv, FromPart
<1>4. \A hour : DoneFrom(hour) => \A h \in (FromHour .. (hour - 1)) \cap Hours : Safe(h)'
  BY <1>2 DEF DoneFrom
<1>5. ckpt'.ts # None \/ live' # "off" => DoneFrom(base)'
  BY <1>1, <1>4 DEF FromInv, FromPart, DoneFrom, FromHour
<1>6. main' \in {"recv", "insert"} => DoneFrom(runBase)'
  BY <1>1, <1>4 DEF FromInv, FromPart, DoneFrom, FromHour
<1>7. mode' = "live" /\ live' = "off" /\ ckpt'.ts = None => DoneFrom(HourOf(configFrom))'
  BY <1>1, <1>4 DEF FromInv, FromPart, DoneFrom, FromHour
<1>8. main' # "idle" => start' = BackfillFrom /\ Within'
  BY <1>1 DEF FromInv, FromPart, Within, Reach, FromHour
<1> QED BY <1>3, <1>5, <1>6, <1>7, <1>8 DEF FromPart

LEMMA FromNext ==
  ASSUME StartsInTime, FromInv, PresentIsWhole, [Next]_vars PROVE FromInv'
<1>1. RunInv'
  BY RunNext DEF FromInv
<1>2. FromPart'
  BY <1>1, NextMoves, FromBackfill, FromLive, FromOther
<1> QED BY <1>1, <1>2 DEF FromInv

(* Once the live process runs, the hours from the date to where it reads were *)
(* read, over failed backfills, crashes and resets (main.rs 108-143), if the  *)
(* row found at first is true of the hours from the date on.  A backfill that *)
(* returns Ok without a row hands nothing over: the live process then begins  *)
(* at its start_from, 7 days before now unless configured, and the backfill   *)
(* has read up to ParallelMin hours before its end, or found them present.    *)
THEOREM DateReachedBeforeLive ==
  RowsKeepTheDate /\ StartsInTime =>
    (Spec /\ []PresentIsWhole => []BackfilledBeforeLive)
<1> SUFFICES ASSUME RowsKeepTheDate, StartsInTime
             PROVE  Spec /\ []PresentIsWhole => []BackfilledBeforeLive
  OBVIOUS
<1>1. Init => FromInv
  BY RunInit, FromInit DEF FromInv
<1>2. FromInv /\ PresentIsWhole /\ [Next]_vars => FromInv'
  BY FromNext
<1>3. FromInv => BackfilledBeforeLive
  <2> SUFFICES ASSUME FromInv, live # "off",
                      NEW h \in (HourOf(BackfillFrom) .. (HourOf(liveStart) - 1)) \cap Hours
               PROVE  Safe(h)
    BY DEF BackfilledBeforeLive, Safe
  <2>1. /\ base \in Int /\ DoneFrom(base) /\ LP!DoneBelow(LP!NextHour)
        /\ liveCursor # None => LP!HourOf(liveStart) <= LP!CursorHour(liveCursor)
        /\ LP!LiveInv
    BY DEF FromInv, FromPart, RunInv, LP!SoundInv, LP!SoundParts, LP!PromisePart,
       LP!PositionPart
  <2>2. /\ LP!NextHour \in Int /\ LP!HourOf(liveStart) \in Int
        /\ LP!HourOf(liveStart) <= LP!NextHour
    <3>1. LP!NextHour \in Int /\ LP!HourOf(liveStart) \in Int
      BY <2>1, LP!NextHourTypes, TableAssumptions, ContinuousAssumed
    <3> QED BY <2>1, <3>1 DEF LP!NextHour
  <2>3. /\ h \in Int /\ FromHour \in Int /\ FromHour <= h
        /\ h <= LP!HourOf(liveStart) - 1
    BY <2>2, TimeTypes, RunAssumption, SameHours DEF FromHour
  <2>4. CASE h < base
    BY <2>1, <2>3, <2>4 DEF DoneFrom
  <2>5. CASE ~(h < base)
    <3>1. h \in (base .. (LP!NextHour - 1)) \cap LP!Hours
      BY <2>1, <2>2, <2>3, <2>5, SameOperators
    <3> QED BY <2>1, <3>1
            DEF LP!DoneBelow, LP!Stored, L!Stored, LP!GivenUp, L!GivenUp, Safe
  <2> QED BY <2>4, <2>5
<1> QED BY <1>1, <1>2, <1>3, PTL DEF Spec
-----------------------------------------------------------------------------
(* Both at the same time.  The row is overwritten by the other, so that each  *)
(* pass is proved as one that never saves: SB is a backfill and SL a live     *)
(* process whose row is always empty, and whose promise begins at the hour    *)
(* where the pass began to read.  BP and LP say what is true of the real row. *)
SB == INSTANCE BackfillProofs WITH
  Windows <- [start : Nat, end : Nat], base <- runFrom, runBase <- runFrom,
  ckpt <- [cursor |-> None, ts |-> None, records |-> 0],
  Period <- 0, wake <- 0, asked <- {}, reached <- TRUE, unbroken <- TRUE, called <- 0
SL == INSTANCE ContinuousProofs WITH
  curStart <- liveStart, cursor <- liveCursor, total <- liveTotal,
  reading <- liveReading, fetchTries <- liveTries, page <- livePage,
  jumped <- {}, base <- liveFrom,
  ckpt <- [cursor |-> None, ts |-> None, records |-> 0]

LEMMA SharedTableAssumptions ==
  /\ SB!TimeAssumption /\ SB!SourceAssumption /\ SB!NoneAssumption /\ SB!MinFillsAssumption
  /\ SL!TimeAssumption /\ SL!SourceAssumption /\ SL!NoneAssumption /\ SL!MinFillsAssumption
BY TimeAssumption, SourceAssumption, NoneAssumption, MinFillsAssumption
   DEF SB!TimeAssumption, SB!SourceAssumption, SB!NoneAssumption, SB!MinFillsAssumption,
   SL!TimeAssumption, SL!SourceAssumption, SL!NoneAssumption, SL!MinFillsAssumption,
   SB!HourOf, SL!HourOf, HourOf, SB!Hours, SL!Hours, Hours, SB!IsFiniteSet, SL!IsFiniteSet,
   IsFiniteSet

LEMMA SharedBackfillAssumed == SB!BackfillAssumption /\ SB!PeriodAssumption
<1>1. SB!BackfillAssumption
  BY PartsAssumption
  DEF B!BackfillAssumption, SB!BackfillAssumption,
     B!Batches, SB!Batches, B!Checkpoint, SB!Checkpoint, B!TimeAndCursorAgree,
     SB!TimeAndCursorAgree, B!Cardinality, SB!Cardinality, B!IsFiniteSet,
     SB!IsFiniteSet, B!Cursors, SB!Cursors, B!CursorTime, SB!CursorTime,
     B!HourStart, SB!HourStart, B!CursorHour, SB!CursorHour
<1>2. SB!PeriodAssumption
  <2>1. InitNow \in Nat
    BY PartsAssumption DEF B!BackfillAssumption
  <2> QED BY <2>1 DEF SB!PeriodAssumption
<1> QED BY <1>1, <1>2

LEMMA SharedLiveAssumed == SL!ContinuousAssumption
BY PartsAssumption
   DEF L!ContinuousAssumption, SL!ContinuousAssumption,
     L!Batches, SL!Batches, L!Checkpoint, SL!Checkpoint, L!TimeAndCursorAgree,
     SL!TimeAndCursorAgree, L!Cardinality, SL!Cardinality, L!IsFiniteSet,
     SL!IsFiniteSet, L!Cursors, SL!Cursors, L!CursorTime, SL!CursorTime,
     L!HourStart, SL!HourStart, L!CursorHour, SL!CursorHour

(* The types of a pass are those of its part, and so are its positions. *)
LEMMA SameTypes ==
  /\ SB!Hours = BP!Hours /\ SB!Batches = BP!Batches /\ SB!Cursors = BP!Cursors
  /\ SB!Checkpoint = BP!Checkpoint /\ SB!Pages = BP!Pages
  /\ SL!Hours = LP!Hours /\ SL!Batches = LP!Batches /\ SL!Cursors = LP!Cursors
  /\ SL!Checkpoint = LP!Checkpoint /\ SL!Pages = LP!Pages
  /\ \A S : SB!Cardinality(S) = BP!Cardinality(S) /\ SL!Cardinality(S) = LP!Cardinality(S)
<1>1. SB!Batches = BP!Batches /\ SL!Batches = LP!Batches
  BY DEF SB!Batches, BP!Batches, SB!IsFiniteSet, BP!IsFiniteSet, SL!Batches, LP!Batches,
     SL!IsFiniteSet, LP!IsFiniteSet
<1>2. /\ SB!Cursors = BP!Cursors /\ SL!Cursors = LP!Cursors
      /\ SB!Hours = BP!Hours /\ SL!Hours = LP!Hours
  BY DEF SB!Cursors, BP!Cursors, SL!Cursors, LP!Cursors, SB!Hours, BP!Hours, SL!Hours,
     LP!Hours
<1>3. /\ SB!Checkpoint = BP!Checkpoint /\ SB!Pages = BP!Pages
      /\ SL!Checkpoint = LP!Checkpoint /\ SL!Pages = LP!Pages
  BY <1>1, <1>2 DEF SB!Checkpoint, BP!Checkpoint, SB!Pages, BP!Pages, SL!Checkpoint,
     LP!Checkpoint, SL!Pages, LP!Pages
<1>4. \A S : SB!Cardinality(S) = BP!Cardinality(S) /\ SL!Cardinality(S) = LP!Cardinality(S)
  BY DEF SB!Cardinality, BP!Cardinality, SL!Cardinality, LP!Cardinality
<1> QED BY <1>1, <1>2, <1>3, <1>4

LEMMA NoRow ==
  /\ [cursor |-> None, ts |-> None, records |-> 0] \in SB!Checkpoint
  /\ [cursor |-> None, ts |-> None, records |-> 0] \in SL!Checkpoint
  /\ BP!IInv => 0 <= BP!Cardinality(fills)
  /\ LP!LiveInv => 0 <= LP!Cardinality(fills)
<1>1. /\ [cursor |-> None, ts |-> None, records |-> 0] \in SB!Checkpoint
      /\ [cursor |-> None, ts |-> None, records |-> 0] \in SL!Checkpoint
  BY DEF SB!Checkpoint, SB!Cursors, SL!Checkpoint, SL!Cursors
<1>2. ASSUME BP!IInv PROVE 0 <= BP!Cardinality(fills)
  <2>1. fills \in BP!Batches
    BY <1>2 DEF BP!IInv, BP!TypeOK, BP!DbOK
  <2>2. BP!Cardinality(fills) \in Nat
    BY <2>1, FS_CardinalityType, SameOperators DEF BP!Batches
  <2> QED BY <2>2
<1>3. ASSUME LP!LiveInv PROVE 0 <= LP!Cardinality(fills)
  <2>1. fills \in LP!Batches
    BY <1>3 DEF LP!LiveInv, LP!TypeOK
  <2>2. LP!Cardinality(fills) \in Nat
    BY <2>1, FS_CardinalityType, SameOperators DEF LP!Batches
  <2> QED BY <2>2
<1> QED BY <1>1, <1>2, <1>3

LEMMA PassTypes == BP!IInv => SB!IInv
<1> SUFFICES ASSUME BP!IInv PROVE SB!IInv
  OBVIOUS
<1>1. BP!EnvOK /\ BP!DbOK /\ BP!MainOK /\ BP!FetcherOK /\ BP!CountsOK
  BY DEF BP!IInv, BP!TypeOK
<1>2. SB!EnvOK /\ SB!DbOK /\ SB!MainOK /\ SB!FetcherOK
  BY <1>1, SameTypes, NoRow, Zenon
     DEF BP!EnvOK, BP!DbOK, BP!MainOK, BP!FetcherOK, SB!EnvOK, SB!DbOK, SB!MainOK, SB!FetcherOK
<1>3. SB!CountsOK
  BY <1>1, SameTypes, NoRow DEF BP!CountsOK, SB!CountsOK
<1> QED BY <1>2, <1>3 DEF SB!IInv, SB!TypeOK

LEMMA PassPositions == BP!Positions => SB!Positions
BY DEF BP!Positions, SB!Positions, BP!EndsBeforeCursor, SB!EndsBeforeCursor,
     BP!TimeAndCursorAgree, SB!TimeAndCursorAgree, BP!HourOf, SB!HourOf,
     BP!CursorTime, SB!CursorTime, BP!HourStart, SB!HourStart, BP!CursorHour,
     SB!CursorHour

LEMMA LivePassTypes == LP!LiveInv => SL!LiveInv
<1> SUFFICES ASSUME LP!LiveInv PROVE SL!LiveInv
  OBVIOUS
<1>1. LP!TypeOK /\ LP!LiveCountsOK
  BY DEF LP!LiveInv
<1>2. SL!TypeOK
  BY <1>1, SameTypes, NoRow, Zenon DEF LP!TypeOK, SL!TypeOK
<1>3. SL!LiveCountsOK
  BY <1>1, SameTypes, NoRow DEF LP!LiveCountsOK, SL!LiveCountsOK
<1> QED BY <1>2, <1>3 DEF SL!LiveInv

(* What both processes keep: the types and positions of each, a row that each *)
(* can load, and for each what its pass has read.                             *)
Unstarted == main \in {"idle", "decide"} => fetcher = "off" /\ channel = <<>> /\ ~updated

SharedInv == /\ BP!IInv /\ BP!Positions /\ BP!Dated /\ LP!LiveInv /\ Unstarted
             /\ main \in {"recv", "insert"} => SB!SInv
             /\ SL!SoundInv

LEMMA SharedStart == SharedInit => SharedInv
<1> SUFFICES ASSUME SharedInit PROVE SharedInv
  OBVIOUS
<1>1. /\ BP!Init /\ LP!Init /\ main = "idle" /\ mem = B!NewCheckpoint /\ fetcher = "off"
      /\ channel = <<>> /\ updated = FALSE /\ live = "off" /\ liveFrom = 0
  BY PartsInit DEF SharedInit, BothOff, B!Init
<1>2. BP!IInv /\ BP!Positions
  BY <1>1, BP!InitInv, BP!PositionsInit, TableAssumptions, BackfillAssumed
     DEF BP!InitInv, BP!PositionsInit
<1>3. LP!SoundInv
  BY <1>1, LP!SoundInvInit, TableAssumptions, ContinuousAssumed DEF LP!SoundInvInit
<1>4. BP!Dated /\ LP!LiveInv
  BY <1>1, <1>3
     DEF BP!Dated, LP!SoundInv, LP!SoundParts, LP!PositionPart, B!NewCheckpoint
<1>5. SL!SoundInv
  <2>1. SL!LiveInv
    BY <1>4, LivePassTypes
  <2>2. SL!SoundParts
    BY <1>1 DEF SL!SoundParts, SL!PositionPart, SL!PagePart, SL!PromisePart, SL!ForwardPart,
       SL!TimeAndCursorAgree
  <2> QED BY <2>1, <2>2 DEF SL!SoundInv
<1> QED BY <1>1, <1>2, <1>4, <1>5 DEF SharedInv, Unstarted

(* A pass goes on as it was while the other inserts. *)
LEMMA OthersPass ==
  ASSUME SharedInv, LP!Grow, LP!LiveInv', BP!IInv'
  PROVE  /\ UNCHANGED <<liveOnly, liveFrom>> => SL!SoundInv'
         /\ main \in {"recv", "insert"} /\ UNCHANGED <<backfillOnly, runFrom>> => SB!SInv'
<1>1. /\ now' \in Nat /\ faults' \in Nat /\ published' \subseteq LP!Hours /\ fills' \in LP!Batches
  BY DEF LP!LiveInv, LP!TypeOK
<1>2. ASSUME UNCHANGED <<liveOnly, liveFrom>> PROVE SL!SoundInv'
  <2>1. SL!Grow /\ UNCHANGED SL!task
    BY <1>2 DEF LP!Grow, SL!Grow, SL!task, liveOnly
  <2>2. published' \subseteq SL!Hours /\ fills' \in SL!Batches
    BY <1>1, SameTypes
  <2> QED BY <1>1, <1>2, <2>1, <2>2, SL!OthersInsert, SharedTableAssumptions,
             SharedLiveAssumed DEF SharedInv
<1>3. ASSUME main \in {"recv", "insert"}, UNCHANGED <<backfillOnly, runFrom>> PROVE SB!SInv'
  <2>1. SB!Grow /\ UNCHANGED <<SB!run, SB!task, channel, result, runs>>
    BY <1>3 DEF LP!Grow, SB!Grow, SB!run, SB!task, backfillOnly
  <2>2. published' \subseteq SB!Hours /\ fills' \in SB!Batches
    BY SameTypes DEF BP!IInv, BP!TypeOK, BP!EnvOK, BP!DbOK
  <2> QED BY <1>1, <1>3, <2>1, <2>2, SB!OthersInsert, SharedTableAssumptions,
             SharedBackfillAssumed DEF SharedInv
<1> QED BY <1>2, <1>3

LEMMA SharedStill ==
  ASSUME SharedInv, Still, UNCHANGED history, now' \in Nat, published' \subseteq Hours
  PROVE  SharedInv'
<1>1. /\ UNCHANGED <<fills, ckpt, faults, swallowed, stepped>> /\ UNCHANGED backfillOnly
      /\ UNCHANGED liveOnly /\ UNCHANGED <<runFrom, liveFrom>>
  BY DEF Still, history
<1>2. /\ BP!IInv /\ BP!Positions /\ LP!LiveInv
      /\ fills \in BP!Batches /\ ckpt \in BP!Checkpoint /\ faults \in Nat
      /\ ckpt.records <= BP!Cardinality(fills) /\ BP!TimeAndCursorAgree(ckpt)
  BY DEF SharedInv, BP!IInv, BP!TypeOK, BP!EnvOK, BP!DbOK, BP!CountsOK, BP!Positions
<1>3. /\ now' \in Nat /\ faults' \in Nat /\ fills \subseteq fills'
      /\ published' \subseteq BP!Hours /\ published' \subseteq LP!Hours
      /\ fills' \in BP!Batches /\ fills' \in LP!Batches
      /\ ckpt' \in BP!Checkpoint /\ ckpt' \in LP!Checkpoint
  BY <1>1, <1>2, SameOperators, SameRows
<1>4. /\ ckpt'.records <= BP!Cardinality(fills') /\ ckpt'.records <= LP!Cardinality(fills')
      /\ BP!TimeAndCursorAgree(ckpt')
  BY <1>1, <1>2, Zenon DEF BP!TimeAndCursorAgree, SharedInv, LP!LiveInv, LP!LiveCountsOK
<1>5. BP!IInv' /\ BP!Positions'
  <2>1. UNCHANGED <<BP!run, BP!task, channel, result, runs>>
    BY <1>1 DEF backfillOnly, BP!run, BP!task
  <2> QED BY <1>2, <1>3, <1>4, <2>1, BP!OthersKeepTypes, TableAssumptions, BackfillAssumed
<1>6. LP!LiveInv'
  <2>1. UNCHANGED LP!task
    BY <1>1 DEF liveOnly, LP!task
  <2> QED BY <1>2, <1>3, <1>4, <2>1, LP!OthersKeepTypes, TableAssumptions,
             ContinuousAssumed
<1>7. LP!Grow
  BY <1>1 DEF LP!Grow, liveOnly
<1>8. main' = main /\ BP!Dated' /\ Unstarted'
  BY <1>1 DEF SharedInv, BP!Dated, Unstarted, backfillOnly
<1> QED BY <1>1, <1>5, <1>6, <1>7, <1>8, OthersPass DEF SharedInv

-----------------------------------------------------------------------------
(* The live process.  The row it leaves is one that either can load.          *)
StopLive == (L!Crash \/ L!Shutdown) /\ UNCHANGED <<backfillOnly, history>>
SharedLiveMove == StartLive \/ LiveStep \/ StopLive

LEMMA SharedLiveMoves ==
  ASSUME SharedInv, SharedLiveMove
  PROVE  /\ LP!Next /\ LP!LiveInv' /\ LP!Grow
         /\ UNCHANGED backfillOnly /\ UNCHANGED runFrom
<1>1. LP!Next
  BY LiveStepProved, LiveStopProved
     DEF SharedLiveMove, StartLive, LiveStep, StopLive, L!LiveStep, LP!Next
<1>2. LP!LiveInv'
  BY <1>1, LP!LiveNext, TableAssumptions, ContinuousAssumed DEF LP!LiveNext, SharedInv
<1>3. LP!Grow
  BY <1>1, LP!StepGrows, TableAssumptions, ContinuousAssumed
<1>4. UNCHANGED backfillOnly /\ UNCHANGED runFrom
  BY DEF SharedLiveMove, StartLive, LiveStep, StopLive, history
<1> QED BY <1>1, <1>2, <1>3, <1>4

LEMMA SharedLiveRow ==
  ASSUME SharedInv, SharedLiveMove
  PROVE  BP!TimeAndCursorAgree(ckpt') /\ (ckpt'.ts = None => ckpt'.cursor = None)
<1>1. /\ LP!LiveInv /\ LP!TimeAndCursorAgree(ckpt) /\ (ckpt.ts = None => ckpt.cursor = None)
      /\ ckpt \in LP!Checkpoint /\ liveStart \in Int
  <2>1. BP!TimeAndCursorAgree(ckpt)
    BY DEF SharedInv, BP!Positions
  <2>2. LP!TimeAndCursorAgree(ckpt)
    BY <2>1 DEF
     BP!TimeAndCursorAgree, LP!TimeAndCursorAgree, BP!CursorTime,
     LP!CursorTime, BP!HourStart, LP!HourStart, BP!CursorHour, LP!CursorHour
  <2> QED BY <2>2 DEF SharedInv, BP!Dated, LP!LiveInv, LP!TypeOK
<1>2. \/ LP!Start \/ LP!Save
      \/ UNCHANGED ckpt
  <2>1. LP!LiveStep \/ LP!Crash \/ LP!Shutdown
    BY LiveStepProved, LiveStopProved
       DEF SharedLiveMove, StartLive, LiveStep, StopLive, L!LiveStep
  <2> QED BY <2>1 DEF LP!LiveStep, LP!FetchCall, LP!FetchReturn, LP!FetchError, LP!InsertOk,
             LP!InsertError, LP!Crash, LP!Shutdown, LP!db, LP!LoopStep
<1>3. LP!TimeAndCursorAgree(ckpt') /\ (ckpt'.ts = None => ckpt'.cursor = None)
  <2>1. CASE UNCHANGED ckpt
    BY <1>1, <2>1 DEF LP!TimeAndCursorAgree
  <2>2. CASE LP!Start
    <3>1. CASE LP!Refreshes(LP!RecentGaps(ckpt))
      <4> DEFINE gap == LP!Min(LP!RecentGaps(ckpt))
      <4>1. gap \in Int
        BY <1>1, <3>1, LP!ResetGap, TableAssumptions, ContinuousAssumed
      <4>2. ckpt' = LP!BackTo(ckpt, gap)
        BY <2>2, <3>1 DEF LP!Start, LP!StartAt
      <4> HIDE DEF gap
      <4>3. /\ LP!BackTo(ckpt, gap).ts # None
            /\ LP!BackTo(ckpt, gap).ts < LP!CursorTime(LP!BackTo(ckpt, gap).cursor)
        BY <1>1, <4>1, LP!BackToAgrees, TableAssumptions, ContinuousAssumed
      <4> QED BY <4>2, <4>3 DEF LP!TimeAndCursorAgree
    <3>2. CASE ~LP!Refreshes(LP!RecentGaps(ckpt))
      <4>1. ckpt' = ckpt
        BY <2>2, <3>2 DEF LP!Start, LP!StartAt
      <4> QED BY <1>1, <4>1
    <3> QED BY <3>1, <3>2
  <2>3. CASE LP!Save
    <3>1. ckpt'.ts = liveStart /\ ckpt'.cursor = liveCursor /\ live = "save"
      BY <2>3 DEF LP!Save, LP!Saved
    <3>2. liveCursor # None => liveStart < SL!CursorTime(liveCursor)
      BY <3>1 DEF SharedInv, SL!SoundInv, SL!SoundParts, SL!PositionPart
    <3>3. liveStart # None
      BY <1>1, NoneAssumption
    <3>4. SL!CursorTime(liveCursor) = LP!CursorTime(liveCursor)
      BY DEF SL!CursorTime, LP!CursorTime, SL!HourStart, LP!HourStart, SL!CursorHour,
         LP!CursorHour
    <3> QED BY <3>1, <3>2, <3>3, <3>4 DEF LP!TimeAndCursorAgree
  <2> QED BY <1>2, <2>1, <2>2, <2>3
<1> QED BY <1>3, SameRows

LEMMA LivePassMoves ==
  ASSUME \/ L!FetchCall \/ L!FetchReturn \/ L!FetchError \/ L!InsertOk \/ L!InsertError
         \/ L!Crash \/ L!Shutdown,
         UNCHANGED liveFrom
  PROVE  SL!Next
<1>1. CASE L!FetchCall
  <2> SL!FetchCall
    BY <1>1 DEF
     L!FetchCall, SL!FetchCall, L!HoursUntilNow, SL!HoursUntilNow,
     L!ReadPosition, SL!ReadPosition, L!env, SL!env, L!db, SL!db, L!ghost,
     SL!ghost, L!NumHours, SL!NumHours, L!CursorTime, SL!CursorTime,
     L!HourStart, SL!HourStart, L!CursorHour, SL!CursorHour
  <2> QED BY DEF SL!Next, SL!LiveStep, SL!LoopStep
<1>2. CASE L!FetchReturn
  <2>1. /\ L!ReadPosition(liveStart, liveCursor) = SL!ReadPosition(liveStart, liveCursor)
        /\ \A pos, n : L!HoursCovered(pos, n) = SL!HoursCovered(pos, n)
        /\ \A n : L!IsParallel(n) <=> SL!IsParallel(n)
        /\ \A pos, n, failing : L!FetchFails(pos, n, failing) <=> SL!FetchFails(pos, n, failing)
    BY DEF
     L!ReadPosition, SL!ReadPosition, L!HoursCovered, SL!HoursCovered,
     L!IsParallel, SL!IsParallel, L!FetchFails, SL!FetchFails, L!CursorTime,
     SL!CursorTime, L!HourOf, SL!HourOf, L!HourStart, SL!HourStart,
     L!CursorHour, SL!CursorHour
  <2>2. \A pos, n, readable, failing, time :
          L!FetchPage(pos, n, readable, failing, time) = SL!FetchPage(pos, n, readable, failing, time)
    BY DEF
     L!FetchPage, SL!FetchPage, L!IsParallel, SL!IsParallel, L!ParallelPage,
     SL!ParallelPage, L!HourOf, SL!HourOf, L!SinglePage, SL!SinglePage,
     L!EndOfData, SL!EndOfData, L!HourStart, SL!HourStart,
     L!FetchParallelBatch, SL!FetchParallelBatch, L!CursorAt, SL!CursorAt,
     L!HourInDay, SL!HourInDay, L!Day, SL!Day, L!DayOf, SL!DayOf,
     L!HoursCovered, SL!HoursCovered
  <2> SL!FetchReturn
    BY <1>2, <2>1, <2>2 DEF L!FetchReturn, SL!FetchReturn, L!Fault, SL!Fault, L!env, SL!env,
       L!db, SL!db
  <2> QED BY DEF SL!Next, SL!LiveStep, SL!LoopStep
<1>3. CASE L!FetchError
  <2> SL!FetchError
    BY <1>3 DEF
     L!FetchError, SL!FetchError, L!Fault, SL!Fault, L!ReadPosition,
     SL!ReadPosition, L!FetchFails, SL!FetchFails, L!HourOf, SL!HourOf, L!Exit,
     SL!Exit, L!env, SL!env, L!db, SL!db, L!ghost, SL!ghost, L!CursorTime,
     SL!CursorTime, L!IsParallel, SL!IsParallel, L!HourStart, SL!HourStart,
     L!CursorHour, SL!CursorHour
  <2> QED BY DEF SL!Next, SL!LiveStep, SL!LoopStep
<1>4. CASE L!InsertOk
  <2>1. L!Inserted = SL!Inserted /\ L!NextStart(livePage) = SL!NextStart(livePage)
    BY DEF
     L!Inserted, SL!Inserted, L!NextStart, SL!NextStart, L!Cardinality,
     SL!Cardinality, L!Max, SL!Max
  <2> SL!InsertOk
    BY <1>4, <2>1 DEF L!InsertOk, SL!InsertOk, L!env, SL!env, L!ghost, SL!ghost
  <2> QED BY DEF SL!Next, SL!LiveStep, SL!LoopStep
<1>5. CASE L!InsertError
  <2>1. L!Prefixes(livePage.fills) = SL!Prefixes(livePage.fills)
    BY DEF L!Prefixes, SL!Prefixes
  <2> SL!InsertError
    BY <1>5, <2>1 DEF L!InsertError, SL!InsertError, L!Fault, SL!Fault, L!env, SL!env,
       L!ghost, SL!ghost
  <2> QED BY DEF SL!Next, SL!LiveStep, SL!LoopStep
<1>6. CASE L!Crash
  <2> SL!Crash
    BY <1>6 DEF
     L!Crash, SL!Crash, L!Fault, SL!Fault, L!Exit, SL!Exit, L!env, SL!env,
     L!db, SL!db, L!ghost, SL!ghost
  <2> QED BY DEF SL!Next, SL!LiveStep, SL!LoopStep
<1>7. CASE L!Shutdown
  <2> SL!Shutdown
    BY <1>7 DEF
     L!Shutdown, SL!Shutdown, L!Fault, SL!Fault, L!Exit, SL!Exit, L!Prefixes,
     SL!Prefixes, L!env, SL!env, L!ghost, SL!ghost
  <2> QED BY DEF SL!Next, SL!LiveStep, SL!LoopStep
<1> QED BY <1>1, <1>2, <1>3, <1>4, <1>5, <1>6, <1>7

LEMMA LivePassTypesNext == LP!LiveInv' => SL!LiveInv'
  BY LivePassTypes, PTL

LEMMA LivePassReads ==
  SL!LiveInv' => /\ (SL!HourOf(SL!ReadPosition(liveStart, liveCursor)) = SL!NextHour)'
                 /\ (SL!NextHour \in Int)'
<1>1. SL!LiveInv => SL!HourOf(SL!ReadPosition(liveStart, liveCursor)) = SL!NextHour
  BY SL!NextHourTypes, SharedTableAssumptions, SharedLiveAssumed
<1>2. SL!LiveInv => SL!NextHour \in Int
  BY SL!NextHourTypes, SharedTableAssumptions, SharedLiveAssumed
<1> QED BY <1>1, <1>2, PTL

LEMMA TimeIsBehind ==
  ASSUME NEW t \in Int, NEW c \in LP!Cursors \ {None}, t < LP!CursorTime(c)
  PROVE  LP!HourOf(t) <= LP!CursorHour(c)
<1>1. c \in [date : Int, hour : Int]
  BY DEF LP!Cursors
<1>2. CursorHour(c) \in Int /\ HourOf(t) \in Int
  BY <1>1, TimeTypes
<1>3. t < HourStart(CursorHour(c))
  BY DEF LP!CursorTime, LP!HourStart, LP!CursorHour, HourStart, CursorHour
<1>4. HourOf(t) <= CursorHour(c)
  BY <1>2, <1>3, HourBounds
<1> QED BY <1>4 DEF LP!HourOf, LP!CursorHour, HourOf, CursorHour

LEMMA NothingPromised ==
  (liveFrom = SL!NextHour)' /\ (liveFrom \in Int)' => (SL!DoneBelow(SL!NextHour))'
<1>1. \A hour \in Int : hour .. (hour - 1) = {}
  OBVIOUS
<1>2. liveFrom = SL!NextHour /\ liveFrom \in Int => SL!DoneBelow(SL!NextHour)
  BY <1>1 DEF SL!DoneBelow
<1> QED BY <1>2, PTL

(* Where a pass that starts begins to read is where its promise begins. *)
LEMMA LivePassStarts ==
  ASSUME SharedInv, StartLive
  PROVE  SL!SoundInv'
<1>1. LP!Start /\ LP!LiveInv'
  <2>1. LP!LiveStep /\ live = "off"
    BY LiveStepProved DEF StartLive, L!LiveStep, L!Start, L!StartAt
  <2>2. LP!Start
    BY <2>1 DEF LP!LiveStep, LP!LoopStep, LP!FetchCall, LP!FetchReturn, LP!FetchError,
       LP!InsertOk, LP!InsertError, LP!Save
  <2>3. LP!LiveInv'
    BY SharedLiveMoves DEF SharedLiveMove
  <2> QED BY <2>2, <2>3
<1>2. /\ live' = "call" /\ liveCursor' = ckpt'.cursor
      /\ ckpt'.ts # None => liveStart' = ckpt'.ts
      /\ liveStart' \in Int /\ liveTotal' \in Nat /\ liveCursor' \in LP!Cursors
      /\ liveFrom' = HourOf(ReadPosition(liveStart', liveCursor'))
  BY <1>1 DEF LP!Start, LP!StartAt, LP!StartTime, LP!LiveInv, LP!TypeOK, StartLive
<1>3. SL!LiveInv'
  BY <1>1, LivePassTypesNext
<1>4. /\ liveFrom' = SL!NextHour' /\ liveFrom' \in Int
      /\ liveCursor' # None => LP!HourOf(liveStart') <= LP!CursorHour(liveCursor')
  <2>1. SL!HourOf(SL!ReadPosition(liveStart, liveCursor))' = SL!NextHour' /\ SL!NextHour' \in Int
    BY <1>3, LivePassReads
  <2>2. HourOf(ReadPosition(liveStart', liveCursor'))
          = SL!HourOf(SL!ReadPosition(liveStart, liveCursor))'
    BY DEF HourOf, SL!HourOf, ReadPosition, SL!ReadPosition, CursorTime, SL!CursorTime,
       HourStart, SL!HourStart, CursorHour, SL!CursorHour
  <2>3. liveCursor' # None => LP!HourOf(liveStart') <= LP!CursorHour(liveCursor')
    <3> SUFFICES ASSUME liveCursor' # None
                 PROVE  LP!HourOf(liveStart') <= LP!CursorHour(liveCursor')
      OBVIOUS
    <3>1. LP!TimeAndCursorAgree(ckpt') /\ ckpt'.ts # None
      BY <1>2, SharedLiveRow, SameRows DEF SharedLiveMove
    <3>2. liveStart' < LP!CursorTime(liveCursor')
      BY <1>2, <3>1 DEF LP!TimeAndCursorAgree
    <3> QED BY <1>2, <3>2, TimeIsBehind
  <2> QED BY <1>2, <2>1, <2>2, <2>3
<1>5. SL!PositionPart' /\ SL!PagePart' /\ SL!ForwardPart'
  BY <1>2, <1>4 DEF SL!PositionPart, SL!PagePart, SL!ForwardPart, SL!TimeAndCursorAgree,
     SL!HourOf, LP!HourOf, SL!CursorHour, LP!CursorHour
<1>6. SL!PromisePart'
  <2>1. SL!DoneBelow(SL!NextHour)'
    BY <1>4, NothingPromised
  <2> QED BY <1>4, <2>1 DEF SL!PromisePart
<1> QED BY <1>3, <1>5, <1>6 DEF SL!SoundInv, SL!SoundParts

LEMMA LivePassSaves ==
  ASSUME SharedInv, LP!LiveInv', L!Save, UNCHANGED liveFrom
  PROVE  SL!SoundInv'
<1>1. /\ live = "save" /\ live' = "call"
      /\ UNCHANGED <<fills, liveStart, liveCursor, liveTotal, swallowed, stepped, liveFrom>>
  BY DEF L!Save, L!ghost
<1>2. SL!LiveInv'
  BY LivePassTypesNext
<1>3. SL!Grow /\ SL!NextHour' = SL!NextHour
  BY <1>1 DEF SL!Grow, SL!NextHour
<1>4. SL!PositionPart' /\ SL!PagePart' /\ SL!ForwardPart'
  BY <1>1 DEF SharedInv, SL!SoundInv, SL!SoundParts, SL!PositionPart, SL!PagePart,
     SL!ForwardPart
<1>5. SL!PromisePart'
  BY <1>1, <1>3, SL!DoneStays, SharedTableAssumptions, SharedLiveAssumed
     DEF SharedInv, SL!SoundInv, SL!SoundParts, SL!PromisePart, SL!DoneBelow
<1> QED BY <1>2, <1>4, <1>5 DEF SL!SoundInv, SL!SoundParts

LEMMA SharedLive ==
  ASSUME SharedInv, SharedLiveMove
  PROVE  SharedInv'
<1>1. /\ LP!LiveInv' /\ LP!Grow /\ UNCHANGED backfillOnly /\ UNCHANGED runFrom
  BY SharedLiveMoves
<1>2. /\ now' \in Nat /\ faults' \in Nat /\ fills \subseteq fills'
      /\ published' \subseteq BP!Hours /\ fills' \in BP!Batches /\ ckpt' \in BP!Checkpoint
      /\ ckpt'.records <= BP!Cardinality(fills')
  BY <1>1, SameOperators, SameRows DEF LP!LiveInv, LP!TypeOK, LP!LiveCountsOK, LP!Grow
<1>3. BP!TimeAndCursorAgree(ckpt') /\ (ckpt'.ts = None => ckpt'.cursor = None)
  BY SharedLiveRow
<1>4. BP!IInv' /\ BP!Positions'
  <2>1. UNCHANGED <<BP!run, BP!task, channel, result, runs>>
    BY <1>1 DEF backfillOnly, BP!run, BP!task
  <2> QED BY <1>2, <1>3, <2>1, BP!OthersKeepTypes, TableAssumptions, BackfillAssumed
             DEF SharedInv
<1>5. /\ BP!Dated' /\ Unstarted'
      /\ main' \in {"recv", "insert"} => SB!SInv'
  <2>1. main' = main /\ mem' = mem /\ UNCHANGED <<fetcher, channel, updated>>
    BY <1>1 DEF backfillOnly
  <2>2. BP!Dated' /\ Unstarted'
    BY <1>3, <2>1 DEF SharedInv, BP!Dated, Unstarted
  <2> QED BY <1>1, <1>4, <2>1, <2>2, OthersPass
<1>6. SL!SoundInv'
  <2>1. CASE StartLive
    BY <2>1, LivePassStarts
  <2>2. CASE L!Save /\ UNCHANGED liveFrom
    BY <1>1, <2>2, LivePassSaves
  <2>3. CASE /\ \/ L!FetchCall \/ L!FetchReturn \/ L!FetchError \/ L!InsertOk
                \/ L!InsertError \/ L!Crash \/ L!Shutdown
             /\ UNCHANGED liveFrom
    <3>1. SL!Next
      BY <2>3, LivePassMoves
    <3> QED BY <3>1, SL!SoundStep, SharedTableAssumptions, SharedLiveAssumed
            DEF SL!SoundStep, SharedInv
  <2>4. ~L!Start \/ StartLive
    BY DEF SharedLiveMove, LiveStep, StopLive, L!Start, L!StartAt, L!Crash, L!Shutdown
  <2> QED BY <2>1, <2>2, <2>3, <2>4
          DEF SharedLiveMove, LiveStep, StopLive, L!LiveStep, L!LoopStep, history
<1> QED BY <1>1, <1>4, <1>5, <1>6 DEF SharedInv

-----------------------------------------------------------------------------
(* The backfill. *)
StopBackfill == B!Crash /\ UNCHANGED <<liveOnly, history>>
SharedBackfillMove == BackfillStep \/ StopBackfill

LEMMA SharedBackfillMoves ==
  ASSUME SharedInv, SharedBackfillMove
  PROVE  /\ BP!Next /\ BP!IInv' /\ BP!Positions' /\ BP!Dated' /\ LP!Grow
         /\ UNCHANGED liveOnly /\ UNCHANGED liveFrom
<1>1. UNCHANGED liveOnly /\ UNCHANGED liveFrom /\ UNCHANGED jumped
  BY DEF SharedBackfillMove, BackfillStep, StopBackfill, liveOnly, history
<1>2. BP!Next
  <2>1. CASE \E w \in Windows : B!BeginRun(w)
    <3>1. PICK w \in [start : Nat, end : Nat] : B!BeginRun(w)
      BY <2>1, SharedAssumption
    <3>2. BP!BeginRun(w)
      BY <1>1, <3>1, BeginRunProved
    <3> QED BY <3>1, <3>2 DEF BP!Next
  <2>2. CASE B!MainStep \/ B!FetcherStep \/ B!Crash
    BY <1>1, <2>2, MainStepProved, FetcherStepProved, BackfillStopProved DEF BP!Next
  <2> QED BY <2>1, <2>2 DEF SharedBackfillMove, BackfillStep, StopBackfill
<1>3. BP!IInv'
  BY <1>2, BP!StepInv, TableAssumptions, BackfillAssumed DEF BP!StepInv, SharedInv
<1>4. BP!Positions'
  BY <1>2, BP!PositionsStep, TableAssumptions, BackfillAssumed
     DEF BP!PositionsStep, SharedInv
<1>5. BP!Dated'
  BY <1>2, BP!DatedStep, TableAssumptions, BackfillAssumed DEF SharedInv
<1>6. LP!Grow
  BY <1>1, BackfillGrows DEF SharedBackfillMove, BackfillStep, StopBackfill
<1> QED BY <1>1, <1>2, <1>3, <1>4, <1>5, <1>6

LEMMA BackfillPassMoves ==
  ASSUME main' # "idle", UNCHANGED runFrom,
         B!Recv \/ B!InsertOk \/ B!InsertError \/ B!FetcherStep
  PROVE  SB!Next
<1>1. CASE B!Recv
  <2> SB!Recv
    BY <1>1 DEF
     B!Recv, SB!Recv, B!env, SB!env, B!db, SB!db, B!task, SB!task, B!bound,
     SB!bound, B!ghost, SB!ghost
  <2> QED BY DEF SB!Next, SB!MainStep, SB!FetcherStep
<1>2. CASE B!InsertOk
  <2>1. /\ B!Inserted = SB!Inserted /\ (B!ShouldUpdate <=> SB!ShouldUpdate)
        /\ B!MemAfter(B!Inserted) = SB!MemAfter(SB!Inserted)
    BY DEF
     B!Inserted, SB!Inserted, B!ShouldUpdate, SB!ShouldUpdate, B!MemAfter,
     SB!MemAfter, B!Cardinality, SB!Cardinality, B!Max, SB!Max
  <2> SB!InsertOk
    BY <1>2, <2>1 DEF B!InsertOk, SB!InsertOk, B!env, SB!env, B!task, SB!task, B!bound,
       SB!bound
  <2> QED BY DEF SB!Next, SB!MainStep, SB!FetcherStep
<1>3. CASE B!InsertError
  <2>1. B!Prefixes(work.fills) = SB!Prefixes(work.fills)
    BY DEF B!Prefixes, SB!Prefixes
  <2> SB!InsertError
    BY <1>3, <2>1 DEF B!InsertError, SB!InsertError, B!EndRun, SB!EndRun, B!Fault, SB!Fault,
       B!env, SB!env, B!ghost, SB!ghost, B!task, SB!task
  <2> QED BY DEF SB!Next, SB!MainStep, SB!FetcherStep
<1>4. CASE B!FetcherInit
  <2>1. B!Missing(fills, curStart, end) = SB!Missing(fills, curStart, end)
    BY DEF
     B!Missing, SB!Missing, B!HourOf, SB!HourOf, B!Cardinality, SB!Cardinality
  <2> SB!FetcherInit
    BY <1>4, <2>1 DEF B!FetcherInit, SB!FetcherInit, B!Fault, SB!Fault, B!env, SB!env, B!db,
       SB!db, B!run, SB!run, B!ghost, SB!ghost
  <2> QED BY DEF SB!Next, SB!MainStep, SB!FetcherStep
<1>5. CASE B!FetcherReachesEnd
  <2> SB!FetcherReachesEnd
    BY <1>5 DEF
     B!FetcherReachesEnd, SB!FetcherReachesEnd, B!env, SB!env, B!db, SB!db,
     B!run, SB!run, B!bound, SB!bound, B!ghost, SB!ghost
  <2> QED BY DEF SB!Next, SB!MainStep, SB!FetcherStep
<1>6. CASE B!FetcherSkips
  <2> SB!FetcherSkips
    BY <1>6 DEF
     B!FetcherSkips, SB!FetcherSkips, B!ShouldSkip, SB!ShouldSkip, B!HourEnd,
     SB!HourEnd, B!CursorAt, SB!CursorAt, B!HourOf, SB!HourOf, B!env, SB!env,
     B!db, SB!db, B!run, SB!run, B!bound, SB!bound, B!CountIn, SB!CountIn,
     B!HourStart, SB!HourStart, B!DayOf, SB!DayOf, B!HourInDay, SB!HourInDay,
     B!Cardinality, SB!Cardinality
  <2> QED BY DEF SB!Next, SB!MainStep, SB!FetcherStep
<1>7. CASE B!FetchCall
  <2> SB!FetchCall
    BY <1>7 DEF
     B!FetchCall, SB!FetchCall, B!ShouldSkip, SB!ShouldSkip, B!Fault, SB!Fault,
     B!HoursUntilNow, SB!HoursUntilNow, B!ReadPosition, SB!ReadPosition, B!env,
     SB!env, B!db, SB!db, B!run, SB!run, B!ghost, SB!ghost, B!HourOf,
     SB!HourOf, B!CountIn, SB!CountIn, B!HourStart, SB!HourStart, B!NumHours,
     SB!NumHours, B!CursorTime, SB!CursorTime, B!Cardinality, SB!Cardinality,
     B!CursorHour, SB!CursorHour
  <2> QED BY DEF SB!Next, SB!MainStep, SB!FetcherStep
<1>8. CASE B!FetchReturn
  <2>1. /\ B!ReadPosition(curStart, cursor) = SB!ReadPosition(curStart, cursor)
        /\ \A pos, n : B!HoursCovered(pos, n) = SB!HoursCovered(pos, n)
        /\ \A pos, n, failing : B!FetchFails(pos, n, failing) <=> SB!FetchFails(pos, n, failing)
    BY DEF
     B!ReadPosition, SB!ReadPosition, B!HoursCovered, SB!HoursCovered,
     B!FetchFails, SB!FetchFails, B!CursorTime, SB!CursorTime, B!HourOf,
     SB!HourOf, B!IsParallel, SB!IsParallel, B!HourStart, SB!HourStart,
     B!CursorHour, SB!CursorHour
  <2>2. \A pos, n, readable, failing, time :
          B!FetchPage(pos, n, readable, failing, time) = SB!FetchPage(pos, n, readable, failing, time)
    BY DEF
     B!FetchPage, SB!FetchPage, B!IsParallel, SB!IsParallel, B!ParallelPage,
     SB!ParallelPage, B!HourOf, SB!HourOf, B!SinglePage, SB!SinglePage,
     B!EndOfData, SB!EndOfData, B!HourStart, SB!HourStart,
     B!FetchParallelBatch, SB!FetchParallelBatch, B!CursorAt, SB!CursorAt,
     B!HourInDay, SB!HourInDay, B!Day, SB!Day, B!DayOf, SB!DayOf,
     B!HoursCovered, SB!HoursCovered
  <2>3. B!NextStart(page') = SB!NextStart(page')
    BY DEF
     B!NextStart, SB!NextStart, B!Max, SB!Max, B!HourEnd, SB!HourEnd,
     B!HourStart, SB!HourStart, B!HourOf, SB!HourOf
  <2> SB!FetchReturn
    BY <1>8, <2>1, <2>2, <2>3 DEF B!FetchReturn, SB!FetchReturn, B!Fault, SB!Fault, B!env,
       SB!env, B!db, SB!db, B!run, SB!run
  <2> QED BY DEF SB!Next, SB!MainStep, SB!FetcherStep
<1>9. CASE B!FetchError
  <2> SB!FetchError
    BY <1>9 DEF
     B!FetchError, SB!FetchError, B!Fault, SB!Fault, B!ReadPosition,
     SB!ReadPosition, B!FetchFails, SB!FetchFails, B!HourOf, SB!HourOf, B!env,
     SB!env, B!db, SB!db, B!run, SB!run, B!ghost, SB!ghost, B!CursorTime,
     SB!CursorTime, B!IsParallel, SB!IsParallel, B!HourStart, SB!HourStart,
     B!CursorHour, SB!CursorHour
  <2> QED BY DEF SB!Next, SB!MainStep, SB!FetcherStep
<1>10. CASE B!FetcherSend
  <2> SB!FetcherSend
    BY <1>10 DEF
     B!FetcherSend, SB!FetcherSend, B!env, SB!env, B!db, SB!db, B!run, SB!run,
     B!bound, SB!bound, B!ghost, SB!ghost
  <2> QED BY DEF SB!Next, SB!MainStep, SB!FetcherStep
<1> QED BY <1>1, <1>2, <1>3, <1>4, <1>5, <1>6, <1>7, <1>8, <1>9, <1>10 DEF B!FetcherStep

(* Where a pass that starts begins to read is where its promise begins. *)
LEMMA PassReads ==
  /\ SB!IInv' => (SB!HourOf(SB!ReadPosition(curStart, cursor)) \in Int)'
  /\ (runFrom = SB!HourOf(SB!ReadPosition(curStart, cursor)))' /\ (runFrom \in Int)'
       => (SB!HoursTo(SB!HourOf(SB!ReadPosition(curStart, cursor))) = {})'
  /\ (runFrom \in Int)'
       => (SB!Promised([cursor |-> None, ts |-> None, records |-> 0], runFrom)
             \cap SB!Hours = {})'
<1>1. SB!IInv => SB!HourOf(SB!ReadPosition(curStart, cursor)) \in Int
  BY SB!PositionsOf, SharedTableAssumptions, SharedBackfillAssumed
<1>2. \A hour \in Int : hour .. (hour - 1) = {}
  OBVIOUS
<1>3. runFrom = SB!HourOf(SB!ReadPosition(curStart, cursor)) /\ runFrom \in Int
        => SB!HoursTo(SB!HourOf(SB!ReadPosition(curStart, cursor))) = {}
  BY <1>2 DEF SB!HoursTo
<1>4. ASSUME runFrom \in Int
      PROVE  SB!Promised([cursor |-> None, ts |-> None, records |-> 0], runFrom)
               \cap SB!Hours = {}
  <2>1. SB!ResumeHour([cursor |-> None, ts |-> None, records |-> 0]) = 0
    BY DEF SB!ResumeHour
  <2>2. (runFrom .. (0 - 1)) \cap SB!Hours = {}
    BY <1>4, SharedTableAssumptions DEF SB!SourceAssumption
  <2> QED BY <2>1, <2>2 DEF SB!Promised
<1> QED BY <1>1, <1>3, <1>4, PTL

LEMMA PassTypesNext ==
  /\ BP!IInv' => SB!IInv'
  /\ BP!Positions' => SB!Positions'
BY PassTypes, PassPositions, PTL

LEMMA BackfillPassStarts ==
  ASSUME SharedInv, BackfillStep, B!DecideFetch, BP!IInv', BP!Positions'
  PROVE  SB!SInv'
<1>1. SB!IInv' /\ SB!Positions'
  BY PassTypesNext
<1>2. /\ main' = "recv" /\ fetcher' = "init" /\ updated' = FALSE /\ channel' = <<>>
      /\ runFrom' = HourOf(ReadPosition(curStart', cursor'))
  BY DEF B!DecideFetch, BackfillStep, SharedInv, Unstarted
<1>3. HourOf(ReadPosition(curStart', cursor')) = SB!HourOf(SB!ReadPosition(curStart, cursor))'
  BY DEF HourOf, SB!HourOf, ReadPosition, SB!ReadPosition, CursorTime, SB!CursorTime,
     HourStart, SB!HourStart, CursorHour, SB!CursorHour
<1>4. runFrom' \in Int /\ runFrom' = SB!HourOf(SB!ReadPosition(curStart, cursor))'
  BY <1>1, <1>2, <1>3, PassReads
<1>5. SB!RowPart'
  BY <1>4, PassReads DEF SB!RowPart
<1>6. SB!PositionPart'
  BY <1>4, PassReads DEF SB!PositionPart
<1>7. SB!MemPart' /\ SB!WorkPart' /\ SB!PagePart'
  BY <1>2 DEF SB!MemPart, SB!WorkPart, SB!PagePart
<1>8. DOMAIN channel' = {}
  BY <1>2
<1>9. SB!ChannelPart' /\ SB!Modes'
  BY <1>2, <1>4, <1>8 DEF SB!ChannelPart, SB!Modes
<1> QED BY <1>1, <1>5, <1>6, <1>7, <1>9 DEF SB!SInv, SB!Coverage

LEMMA SharedBackfill ==
  ASSUME SharedInv, SharedBackfillMove
  PROVE  SharedInv'
<1>1. /\ BP!IInv' /\ BP!Positions' /\ BP!Dated' /\ LP!Grow
      /\ UNCHANGED liveOnly /\ UNCHANGED liveFrom
  BY SharedBackfillMoves
<1>2. LP!LiveInv'
  <2>1. UNCHANGED LP!task
    BY <1>1 DEF liveOnly, LP!task
  <2>2. /\ now' \in Nat /\ published' \subseteq BP!Hours /\ faults' \in Nat
        /\ fills' \in BP!Batches /\ ckpt' \in BP!Checkpoint
        /\ ckpt'.records <= BP!Cardinality(fills')
    BY <1>1, Zenon DEF BP!IInv, BP!TypeOK, BP!EnvOK, BP!DbOK, BP!CountsOK
  <2>3. /\ published' \subseteq LP!Hours /\ fills' \in LP!Batches /\ ckpt' \in LP!Checkpoint
        /\ ckpt'.records <= LP!Cardinality(fills')
    BY <2>2, SameOperators, SameRows, Zenon
  <2> QED BY <1>1, <2>1, <2>2, <2>3, LP!OthersKeepTypes, TableAssumptions,
             ContinuousAssumed DEF SharedInv, LP!Grow
<1>3. SL!SoundInv'
  BY <1>1, <1>2, OthersPass
<1>4. (\E w \in Windows : B!BeginRun(w)) \/ B!MainStep \/ B!FetcherStep \/ B!Crash
  BY DEF SharedBackfillMove, BackfillStep, StopBackfill
<1>5. Unstarted'
  <2>1. CASE \E how : B!EndRun(how)
    BY <2>1 DEF B!EndRun, Unstarted
  <2>2. CASE \E w \in Windows : B!BeginRun(w)
    BY <2>2 DEF SharedInv, Unstarted, B!BeginRun, B!task
  <2>3. CASE B!DecideFetch \/ B!Recv \/ B!InsertOk
    BY <2>3 DEF Unstarted, B!DecideFetch, B!Recv, B!InsertOk
  <2>4. CASE B!InsertError
    BY <2>1, <2>4 DEF Unstarted, B!InsertError
  <2>5. CASE B!FetcherStep
    BY <2>5 DEF SharedInv, Unstarted, B!FetcherStep, B!FetcherInit, B!FetcherReachesEnd,
       B!FetcherSkips, B!FetchCall, B!FetchReturn, B!FetchError, B!FetcherSend, B!run
  <2>6. CASE B!DecideComplete \/ B!Finish \/ B!Crash
    BY <2>1, <2>6 DEF B!DecideComplete, B!Finish, B!Crash
  <2> QED BY <1>4, <2>2, <2>3, <2>4, <2>5, <2>6 DEF B!MainStep
<1>6. ASSUME main' \in {"recv", "insert"} PROVE SB!SInv'
  <2>1. CASE B!DecideFetch
    <3>1. BackfillStep
      BY <2>1 DEF SharedBackfillMove, StopBackfill, B!DecideFetch, B!Crash, B!EndRun
    <3> QED BY <1>1, <2>1, <3>1, BackfillPassStarts
  <2>2. CASE B!Recv \/ B!InsertOk \/ B!InsertError \/ B!FetcherStep
    <3>1. main \in {"recv", "insert"}
      BY <1>6, <2>2 DEF SharedInv, Unstarted, B!Recv, B!InsertOk, B!InsertError, B!FetcherStep,
         B!FetcherInit, B!FetcherReachesEnd, B!FetcherSkips, B!FetchCall, B!FetchReturn,
         B!FetchError, B!FetcherSend, B!run
    <3>2. UNCHANGED runFrom
      BY <3>1 DEF SharedBackfillMove, BackfillStep, StopBackfill, history
    <3>3. SB!Next
      BY <1>6, <2>2, <3>2, BackfillPassMoves
    <3> QED BY <3>1, <3>3, SB!SoundStep, SharedTableAssumptions, SharedBackfillAssumed
            DEF SB!SoundStep, SharedInv
  <2>3. CASE B!DecideComplete \/ B!Finish \/ B!Crash \/ \E w \in Windows : B!BeginRun(w)
    <3>1. (\E how : B!EndRun(how)) \/ main' = "decide"
      BY <2>3, Zenon DEF B!DecideComplete, B!Finish, B!Crash, B!BeginRun
    <3> QED BY <1>6, <3>1 DEF B!EndRun
  <2>4. B!MainStep <=> \/ B!DecideComplete \/ B!DecideFetch \/ B!Recv \/ B!InsertOk
                       \/ B!InsertError \/ B!Finish
    BY DEF B!MainStep
  <2> QED BY <1>4, <2>1, <2>2, <2>3, <2>4, Zenon
<1> QED BY <1>1, <1>2, <1>3, <1>5, <1>6 DEF SharedInv

-----------------------------------------------------------------------------
LEMMA SharedNextInv == SharedInv /\ [SharedNext]_sharedVars => SharedInv'
<1> SUFFICES ASSUME SharedInv, [SharedNext]_sharedVars PROVE SharedInv'
  OBVIOUS
<1>1. CASE SharedLiveMove
  BY <1>1, SharedLive
<1>2. CASE SharedBackfillMove
  BY <1>2, SharedBackfill
<1>3. CASE (ClockAndBucket /\ UNCHANGED history) \/ UNCHANGED sharedVars
  <2>1. Still /\ UNCHANGED history /\ now' \in Nat /\ published' \subseteq Hours
    <3>1. now \in Nat /\ published \subseteq Hours
      BY SameOperators DEF SharedInv, BP!IInv, BP!TypeOK, BP!EnvOK
    <3>2. CASE ClockAndBucket /\ UNCHANGED history
      <4>1. Still
        BY <3>2, ClockMoves
      <4>2. now' \in Nat /\ published' \subseteq Hours
        BY <3>1, <3>2 DEF ClockAndBucket, B!Tick, B!Publish
      <4> QED BY <3>2, <4>1, <4>2
    <3>3. CASE UNCHANGED sharedVars
      BY <3>1, <3>3 DEF sharedVars, shared, Still
    <3> QED BY <1>3, <3>2, <3>3
  <2> QED BY <2>1, SharedStill
<1> QED BY <1>1, <1>2, <1>3
        DEF SharedNext, StopEither, SharedLiveMove, SharedBackfillMove, StopLive, StopBackfill

LEMMA SharedInvariant == SharedSpec => []SharedInv
  BY SharedStart, SharedNextInv, PTL DEF SharedSpec

(* However the inserts and saves of the two interleave, each counts only the  *)
(* fills it was the first to insert, so that what either saves over the       *)
(* other's row is at most what the table holds.                               *)
THEOREM SharedCountBounded == SharedSpec => []CountBounded
<1>1. SharedInv => CountBounded
  BY SameOperators DEF SharedInv, BP!IInv, BP!CountsOK, CountBounded
<1> QED BY <1>1, SharedInvariant, PTL

(* Neither loses an hour of its own to the other, though each reads a table   *)
(* that the other changes and overwrites the row that the other saves: all    *)
(* between where it began to read and where it is now is stored or given up.  *)
THEOREM SharedBothCovered == SharedSpec => []BothPassesCovered
<1>1. ASSUME SharedInv, main = "recv", updated
      PROVE  \A h \in (runFrom .. (CursorHour(mem.cursor) - 1)) \cap Hours : Covered(h)
  <2>1. SB!MemPart
    BY <1>1 DEF SharedInv, SB!SInv, SB!Coverage
  <2>2. SB!Hours = Hours /\ SB!CursorHour(mem.cursor) = CursorHour(mem.cursor)
    BY DEF SB!Hours, Hours, SB!CursorHour, CursorHour
  <2> QED BY <1>1, <2>1, <2>2
          DEF SB!MemPart, SB!HoursTo, SB!Read, SB!Stored, Covered, B!Stored
<1>2. ASSUME SharedInv, live # "off"
      PROVE  \A h \in (liveFrom .. (ResumeHour(L!Saved) - 1)) \cap Hours : Covered(h)
  <2>1. SL!DoneBelow(SL!NextHour) /\ liveStart \in Int
    BY <1>2 DEF SharedInv, SL!SoundInv, SL!SoundParts, SL!PromisePart, LP!LiveInv, LP!TypeOK
  <2>2. SL!Hours = Hours
    BY DEF SL!Hours, Hours
  <2>3. L!Saved.cursor = liveCursor /\ L!Saved.ts = liveStart /\ liveStart # None
    BY <2>1, NoneAssumption DEF L!Saved
  <2>4. ResumeHour(L!Saved) = SL!NextHour
    BY <2>3 DEF ResumeHour, SL!NextHour, CursorHour, SL!CursorHour, HourOf, SL!HourOf
  <2> QED BY <2>1, <2>2, <2>4
          DEF SL!DoneBelow, SL!Stored, SL!GivenUp, Covered, B!Stored
<1>3. SharedInv => BothPassesCovered
  BY <1>1, <1>2 DEF BothPassesCovered
<1> QED BY <1>3, SharedInvariant, PTL
=============================================================================
