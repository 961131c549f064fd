-------------------------- MODULE ContinuousProofs --------------------------
(***************************************************************************)
(* Type correctness of the live process, the bound on the count it saves,  *)
(* what its checkpoint may be trusted for, saves that go forward, and the  *)
(* implementation of CheckpointedReader: for every page size, threshold,   *)
(* look-back, bucket and database.                                         *)
(***************************************************************************)
EXTENDS Continuous, IngestLemmas

(* The count the process carries to its next save is bounded as the saved one *)
(* is.                                                                        *)
LiveCountsOK == /\ ckpt.records <= Cardinality(fills)
                /\ total <= Cardinality(fills)

LiveInv == TypeOK /\ LiveCountsOK

TaskOK ==
  /\ live \in {"off", "call", "fetch", "insert", "save"}
  /\ curStart \in Int /\ cursor \in Cursors /\ total \in Nat
  /\ reading \in {None} \cup 0..PageHours /\ fetchTries \in Nat
  /\ (live = "fetch" => reading \in 0..PageHours)
  /\ page \in Pages \cup {None} /\ (live \in {"insert", "save"} => page \in Pages)

TablesOK == /\ now \in Nat /\ published \subseteq Hours /\ faults \in Nat
            /\ fills \in Batches /\ ckpt \in Checkpoint

LEMMA TypeParts == TypeOK <=> TablesOK /\ TaskOK
  BY DEF TypeOK, TablesOK, TaskOK

LEMMA CountType ==
  LiveInv => Cardinality(fills) \in Nat /\ ckpt.records \in Nat /\ total \in Nat
  BY FS_CardinalityType DEF LiveInv, TypeOK, Batches, Checkpoint

LEMMA LiveInit == Init => LiveInv
<1> SUFFICES ASSUME Init PROVE LiveInv
  OBVIOUS
<1>1. fills \in Batches /\ ckpt \in Checkpoint /\ ckpt.records <= Cardinality(fills)
  BY ContinuousAssumption DEF Init
<1>2. Cardinality(fills) \in Nat
  BY <1>1, FS_CardinalityType DEF Batches
<1>3. TablesOK
  BY <1>1, ContinuousAssumption DEF Init, TablesOK
<1>4. TaskOK
  BY DEF Init, TaskOK, Cursors
<1>5. QED  BY <1>1, <1>2, <1>3, <1>4, TypeParts DEF Init, LiveInv, LiveCountsOK

(* A process that ends, however much of an insert was committed. *)
LEMMA ExitInv ==
  ASSUME LiveInv, Exit, UNCHANGED <<now, published, ckpt>>, faults' \in Nat,
         fills' \in Batches, Cardinality(fills) <= Cardinality(fills')
  PROVE  LiveInv'
<1>1. TablesOK'
  BY DEF LiveInv, TypeOK, TablesOK
<1>2. TaskOK'
  BY DEF Exit, TaskOK, Cursors
<1>3. Cardinality(fills') \in Nat
  BY FS_CardinalityType DEF Batches
<1>4. LiveCountsOK'
  BY <1>3, CountType DEF LiveInv, LiveCountsOK, Exit
<1>5. QED  BY <1>1, <1>2, <1>4, TypeParts DEF LiveInv, TablesOK, TaskOK, TypeOK

(* Part of a batch adds to the table. *)
LEMMA PartInserted ==
  ASSUME LiveInv, page \in Pages, NEW stored \in Prefixes(page.fills),
         fills' = fills \cup stored
  PROVE  fills' \in Batches /\ Cardinality(fills) <= Cardinality(fills')
<1>1. page.fills \in Batches /\ fills \in Batches
  BY DEF LiveInv, TypeOK, Pages
<1>2. stored \in Batches /\ fills' \in Batches
  BY <1>1, BatchTypes
<1>3. /\ Cardinality(fills) \in Nat /\ Cardinality(stored \ fills) \in Nat
      /\ Cardinality(fills \cup stored) = Cardinality(fills) + Cardinality(stored \ fills)
  BY <1>1, <1>2, InsertGrows
<1>4. QED  BY <1>2, <1>3

-----------------------------------------------------------------------------
(* A process begins at a time, whatever start_from its configuration has. *)
LEMMA StartsFrom == ASSUME LiveInv, Start PROVE \E from \in Int : StartAt(from)
<1>1. now \in Nat /\ LookBack \in Nat /\ InitNow \in Nat /\ StartFrom \in Nat \cup {None}
  BY ContinuousAssumption DEF LiveInv, TypeOK
<1>2. ConfigStarts \subseteq Int
  BY <1>1 DEF ConfigStarts
<1>3. QED  BY <1>2 DEF Start

LEMMA StartInv == ASSUME LiveInv, Start PROVE LiveInv'
<1> DEFINE gaps == RecentGaps(ckpt)
<1>0. PICK from \in Int : StartAt(from)
  BY StartsFrom
<1>1. /\ ckpt \in Checkpoint /\ now \in Nat /\ LookBack \in Nat /\ LiveGap \in Nat
      /\ StartFrom \in Nat \cup {None}
  BY ContinuousAssumption DEF LiveInv, TypeOK
<1>2. ckpt' \in Checkpoint /\ ckpt'.records = ckpt.records
  <2>1. CASE ~Refreshes(gaps)
    BY <1>0, <1>1, <2>1 DEF StartAt
  <2>2. CASE Refreshes(gaps)
    <3>1. Cardinality(gaps) > LiveGap
      BY <2>2 DEF Refreshes
    <3>2. CASE ckpt.ts = None
      <4>1. gaps = {}  BY <3>2 DEF RecentGaps
      <4>2. QED  BY <1>1, <3>1, <4>1, FS_EmptySet
    <3>3. CASE ckpt.ts # None
      <4>1. ckpt.ts \in Int /\ now - LookBack \in Int
        BY <1>1, <3>3 DEF Checkpoint
      <4>2. Max({ckpt.ts, now - LookBack}) \in Int
        BY <4>1, LaterOf
      <4>3. gaps = Missing(fills, Max({ckpt.ts, now - LookBack}), now)
        BY <3>3 DEF RecentGaps
      <4>4. PICK s \in Int : gaps = Missing(fills, s, now)
        BY <4>2, <4>3
      <4> HIDE DEF gaps
      <4>5. Min(gaps) \in Int
        BY <1>1, <3>1, <4>4, FirstGapType
      <4>6. PICK gap \in Int : gap = Min(gaps)
        BY <4>5
      <4>7. HourStart(gap) \in Int
        BY <4>6, TimeTypes, Zenon
      <4>8. CursorAt(HourStart(gap)) \in Cursors /\ HourStart(gap) - 1 \in Int
        BY <4>7, TimeTypes DEF Cursors
      <4>9. ckpt' = BackTo(ckpt, gap)
        BY <1>0, <2>2, <4>6 DEF StartAt, gaps
      <4>10. QED  BY <1>1, <4>8, <4>9 DEF BackTo, Checkpoint
    <3>4. QED  BY <3>2, <3>3
  <2>3. QED  BY <2>1, <2>2
<1>3. curStart' \in Int /\ cursor' \in Cursors /\ total' \in Nat
  BY <1>0, <1>1, <1>2 DEF StartAt, StartTime, Checkpoint
<1>4. /\ total' = ckpt'.records /\ live' = "call"
      /\ UNCHANGED <<now, published, fills, reading, fetchTries, page, faults>>
  BY <1>0 DEF StartAt, env
<1>5. TablesOK' /\ TaskOK'
  BY <1>2, <1>3, <1>4 DEF LiveInv, TypeOK, TablesOK, TaskOK
<1>6. LiveCountsOK'
  BY <1>2, <1>4 DEF LiveInv, LiveCountsOK
<1>7. QED  BY <1>5, <1>6 DEF LiveInv, TablesOK, TaskOK, TypeOK

-----------------------------------------------------------------------------
(* Fetching leaves the tables and the count alone. *)
LEMMA FetchInv ==
  ASSUME LiveInv, FetchCall \/ FetchReturn
  PROVE  LiveInv'
<1>1. /\ UNCHANGED <<now, published, fills, ckpt, curStart, cursor, total>>
      /\ faults' = faults \/ Fault
  BY DEF FetchCall, FetchReturn, env, db
<1>2. TablesOK' /\ LiveCountsOK'
  BY <1>1 DEF LiveInv, TypeOK, TablesOK, LiveCountsOK, Fault
<1>3. ReadPosition(curStart, cursor) \in Int /\ now \in Int
  BY TimeTypes DEF LiveInv, TypeOK, ReadPosition, Cursors
<1>4. TaskOK'
  <2>1. CASE FetchCall
    <3>1. HoursUntilNow(ReadPosition(curStart, cursor), now) \in 0..PageHours
      BY <1>3, HoursUntilNowType
    <3>2. QED  BY <1>1, <2>1, <3>1 DEF LiveInv, TypeOK, TaskOK, FetchCall
  <2>2. CASE FetchReturn
    <3>1. PICK failing :
            page' = FetchPage(ReadPosition(curStart, cursor), reading, published,
                              failing, now)
      BY <2>2 DEF FetchReturn
    <3>2. reading \in 0..PageHours /\ published \in SUBSET Hours
      BY <2>2 DEF FetchReturn, LiveInv, TypeOK
    <3>3. page' \in Pages
      BY <1>3, <3>1, <3>2, FetchPageType
    <3>4. QED  BY <1>1, <2>2, <3>3 DEF LiveInv, TypeOK, TaskOK, FetchReturn
  <2>3. QED  BY <2>1, <2>2
<1>5. QED  BY <1>2, <1>4 DEF LiveInv, TablesOK, TaskOK, TypeOK

LEMMA FetchErrorInv == ASSUME LiveInv, FetchError PROVE LiveInv'
<1>1. /\ UNCHANGED <<now, published, fills, ckpt>> /\ faults' \in Nat
      /\ fills' \in Batches
  BY DEF FetchError, Fault, env, db, LiveInv, TypeOK
<1>2. CASE Exit
  BY <1>1, <1>2, ExitInv, CountType
<1>3. CASE ~Exit
  <2>1. /\ live' = "call" /\ fetchTries' = fetchTries + 1 /\ reading' = None
        /\ UNCHANGED <<curStart, cursor, total, page>>
    BY <1>3 DEF FetchError
  <2>2. QED  BY <1>1, <2>1 DEF LiveInv, TypeOK, LiveCountsOK
<1>4. QED  BY <1>2, <1>3

-----------------------------------------------------------------------------
(* What is counted has been inserted; what is saved is what was counted. *)
LEMMA InsertInv == ASSUME LiveInv, InsertOk PROVE LiveInv'
<1>1. page \in Pages /\ page.fills \in Batches /\ page.cursor \in Cursors
  BY DEF LiveInv, TypeOK, InsertOk, Pages
<1>2. fills \in Batches /\ fills' = fills \cup page.fills
  BY DEF LiveInv, TypeOK, InsertOk
<1>3. /\ Cardinality(fills) \in Nat /\ Inserted \in Nat
      /\ Cardinality(fills') = Cardinality(fills) + Inserted
  BY <1>1, <1>2, InsertGrows DEF Inserted
<1>4. fills' \in Batches
  BY <1>1, <1>2, BatchTypes
<1>5. total' = total + Inserted /\ cursor' = page.cursor /\ live' = "save"
  BY DEF InsertOk
<1>6. curStart' \in Int
  BY <1>1, BatchTypes DEF InsertOk, NextStart, LiveInv, TypeOK
<1>7. UNCHANGED <<now, published, ckpt, reading, fetchTries, page, faults>>
  BY DEF InsertOk, env
<1>8. TablesOK' /\ TaskOK'
  BY <1>1, <1>3, <1>4, <1>5, <1>6, <1>7 DEF LiveInv, TypeOK, TablesOK, TaskOK
<1>9. LiveCountsOK'
  BY <1>3, <1>5, <1>7, CountType DEF LiveInv, LiveCountsOK
<1>10. QED  BY <1>8, <1>9 DEF LiveInv, TablesOK, TaskOK, TypeOK

LEMMA InsertErrorInv == ASSUME LiveInv, InsertError PROVE LiveInv'
<1>1. PICK stored \in Prefixes(page.fills) : fills' = fills \cup stored
  BY DEF InsertError
<1>2. page \in Pages
  BY DEF InsertError, LiveInv, TypeOK
<1>3. fills' \in Batches /\ Cardinality(fills) <= Cardinality(fills')
  BY <1>1, <1>2, PartInserted
<1>4. Cardinality(fills') \in Nat
  BY <1>3, FS_CardinalityType DEF Batches
<1>5. /\ live' = "call" /\ page' = None /\ faults' \in Nat
      /\ UNCHANGED <<now, published, ckpt, curStart, cursor, total, reading, fetchTries>>
  BY DEF InsertError, Fault, env, LiveInv, TypeOK
<1>6. TypeOK'
  BY <1>3, <1>5 DEF LiveInv, TypeOK
<1>7. LiveCountsOK'
  BY <1>3, <1>4, <1>5, CountType DEF LiveInv, LiveCountsOK
<1>8. QED  BY <1>6, <1>7 DEF LiveInv

LEMMA SaveInv == ASSUME LiveInv, Save PROVE LiveInv'
<1>1. ckpt' = [cursor |-> cursor, ts |-> curStart, records |-> total]
  BY DEF Save, Saved
<1>2. ckpt' \in Checkpoint /\ ckpt'.records = total
  BY <1>1 DEF LiveInv, TypeOK, Checkpoint
<1>3. /\ live' = "call" /\ page' = None
      /\ UNCHANGED <<now, published, fills, curStart, cursor, total, reading,
                     fetchTries, faults>>
  BY DEF Save, env
<1>4. TypeOK'
  BY <1>2, <1>3 DEF LiveInv, TypeOK
<1>5. LiveCountsOK'
  BY <1>2, <1>3 DEF LiveInv, LiveCountsOK
<1>6. QED  BY <1>4, <1>5 DEF LiveInv

LEMMA ShutdownInv == ASSUME LiveInv, Shutdown PROVE LiveInv'
<1>1. Exit /\ UNCHANGED <<now, published, ckpt>> /\ faults' \in Nat
  BY DEF Shutdown, Fault, env, LiveInv, TypeOK
<1>2. CASE live = "insert"
  <2>1. PICK stored \in Prefixes(page.fills) : fills' = fills \cup stored
    BY <1>2 DEF Shutdown
  <2>2. page \in Pages
    BY <1>2 DEF LiveInv, TypeOK
  <2>3. QED  BY <1>1, <2>1, <2>2, PartInserted, ExitInv
<1>3. CASE live # "insert"
  <2>1. fills' = fills /\ fills' \in Batches
    BY <1>3 DEF Shutdown, LiveInv, TypeOK
  <2>2. Cardinality(fills) <= Cardinality(fills')
    BY <2>1, CountType
  <2>3. QED  BY <1>1, <2>1, <2>2, ExitInv
<1>4. QED  BY <1>2, <1>3

-----------------------------------------------------------------------------
LEMMA LiveNext == LiveInv /\ [Next]_vars => LiveInv'
<1> SUFFICES ASSUME LiveInv, [Next]_vars PROVE LiveInv'
  OBVIOUS
<1>1. CASE Tick
  BY <1>1 DEF Tick, LiveInv, TypeOK, LiveCountsOK, db, task
<1>2. ASSUME NEW h \in Hours, Publish(h) PROVE LiveInv'
  BY <1>2 DEF Publish, LiveInv, TypeOK, LiveCountsOK, db, task
<1>3. CASE Crash
  <2>1. Exit /\ UNCHANGED <<now, published, ckpt, fills>> /\ faults' \in Nat
    BY <1>3 DEF Crash, Fault, env, db, LiveInv, TypeOK
  <2>2. fills' \in Batches /\ Cardinality(fills) <= Cardinality(fills')
    BY <2>1, CountType DEF LiveInv, TypeOK
  <2>3. QED  BY <2>1, <2>2, ExitInv
<1>4. CASE LiveStep
  BY <1>4, StartInv, FetchInv, FetchErrorInv, InsertInv, InsertErrorInv, SaveInv
     DEF LiveStep, LoopStep
<1>5. CASE UNCHANGED vars
  BY <1>5 DEF vars, env, db, task, LiveInv, TypeOK, LiveCountsOK
<1>6. QED  BY <1>1, <1>2, <1>3, <1>4, <1>5, ShutdownInv DEF Next

(* The types of the live process: what a step reads is there.  *)
THEOREM LiveTypeCorrect == Spec => []TypeOK
<1>1. LiveInv => TypeOK
  BY DEF LiveInv
<1>2. QED  BY <1>1, LiveInit, LiveNext, PTL DEF Spec

(* The live process, that inserts the same pages again after every page that  *)
(* found no object, every error and every restart, never counts a fill twice. *)
THEOREM LiveCountNeverExceedsTable == Spec => []LiveRecordsBounded
<1>1. LiveInv => LiveRecordsBounded
  BY DEF LiveInv, LiveCountsOK, LiveRecordsBounded
<1>2. QED  BY <1>1, LiveInit, LiveNext, PTL DEF Spec

-----------------------------------------------------------------------------
(* What the position, the page in hand and the count must satisfy between two *)
(* saves for the next save to be one that may be trusted.                     *)

(* The hour that is read next: the cursor's, or that of the time. *)
NextHour == IF cursor = None THEN HourOf(curStart) ELSE CursorHour(cursor)

DoneBelow(hour) == \A h \in (base .. (hour - 1)) \cap Hours : Stored(h) \/ GivenUp(h)

PositionPart ==
  /\ ckpt.ts = None => ckpt.cursor = None
  /\ TimeAndCursorAgree(ckpt)
  /\ live # "off" /\ cursor # None => HourOf(curStart) <= CursorHour(cursor)
  /\ live = "save" /\ cursor # None => curStart < CursorTime(cursor)

(* A page with a cursor has the fills from the next hour up to the cursor's,  *)
(* and no others.                                                             *)
PagePart ==
  live = "insert" =>
    \/ page.cursor = None /\ page.fills = {}
    \/ /\ page.cursor # None /\ NextHour < CursorHour(page.cursor)
       /\ \A f \in page.fills : NextHour <= HourOf(f) /\ f < CursorTime(page.cursor)
       /\ \A h \in (NextHour .. (CursorHour(page.cursor) - 1)) \cap Hours :
            File[h] \subseteq page.fills \/ GivenUp(h)

PromisePart ==
  /\ base \in Int
  /\ ckpt.ts # None => DoneBelow(ResumeHour(ckpt))
  /\ live # "off" => DoneBelow(NextHour)

ForwardPart ==
  live # "off" => /\ ckpt.records <= total
                  /\ ckpt.ts # None => HourOf(ckpt.ts) <= HourOf(curStart)

SoundParts == PositionPart /\ PagePart /\ PromisePart /\ ForwardPart
SoundInv == LiveInv /\ SoundParts

(* The table and what was given up only grow, so what is done stays done. *)
Grow == /\ fills \subseteq fills' /\ swallowed \subseteq swallowed'
        /\ stepped \subseteq stepped' /\ jumped \subseteq jumped'

LEMMA DoneStays ==
  ASSUME Grow
  PROVE  /\ \A h : GivenUp(h) => GivenUp(h)'
         /\ \A h : Stored(h) \/ GivenUp(h) => (Stored(h) \/ GivenUp(h))'
BY DEF Grow, GivenUp, Stored

LEMMA NextHourTypes ==
  ASSUME LiveInv
  PROVE  /\ curStart \in Int /\ HourOf(curStart) \in Int /\ NextHour \in Int
         /\ cursor # None => cursor \in [date : Int, hour : Int] /\ CursorHour(cursor) \in Int
         /\ ReadPosition(curStart, cursor) \in Int
         /\ HourOf(ReadPosition(curStart, cursor)) = NextHour
<1>1. curStart \in Int /\ HourOf(curStart) \in Int
  BY TimeTypes DEF LiveInv, TypeOK
<1>2. cursor # None => /\ cursor \in [date : Int, hour : Int] /\ CursorHour(cursor) \in Int
                       /\ CursorTime(cursor) \in Int
                       /\ HourOf(CursorTime(cursor)) = CursorHour(cursor)
  BY TimeTypes, CursorTimeHour DEF LiveInv, TypeOK, Cursors
<1>3. QED  BY <1>1, <1>2 DEF ReadPosition, NextHour

(* A process that ends keeps what the row says. *)
LEMMA ExitSound ==
  ASSUME SoundInv, Exit, Grow, UNCHANGED <<ckpt, base>>
  PROVE  SoundParts'
<1>1. live' = "off"
  BY DEF Exit
<1>2. PositionPart' /\ PagePart' /\ ForwardPart'
  BY <1>1 DEF SoundInv, SoundParts, PositionPart, PagePart, ForwardPart
<1>3. PromisePart'
  BY <1>1, DoneStays DEF SoundInv, SoundParts, PromisePart, DoneBelow
<1>4. QED  BY <1>2, <1>3 DEF SoundParts

(* So does any step that neither moves the process nor brings it a page. *)
LEMMA StaySound ==
  ASSUME SoundInv, Grow, UNCHANGED <<ckpt, base, curStart, cursor, total>>,
         live # "off", live' \in {"call", "fetch"}
  PROVE  SoundParts'
<1>1. NextHour' = NextHour
  BY DEF NextHour
<1>2. PositionPart' /\ PagePart' /\ ForwardPart'
  BY DEF SoundInv, SoundParts, PositionPart, PagePart, ForwardPart
<1>3. PromisePart'
  BY <1>1, DoneStays DEF SoundInv, SoundParts, PromisePart, DoneBelow
<1>4. QED  BY <1>2, <1>3 DEF SoundParts

-----------------------------------------------------------------------------
(* A checkpoint reset to a gap keeps a time one tick before its cursor. *)
LEMMA BackToAgrees ==
  ASSUME NEW c \in Checkpoint, NEW gap \in Int
  PROVE  /\ BackTo(c, gap).ts = HourStart(gap) - 1 /\ BackTo(c, gap).ts \in Int
         /\ BackTo(c, gap).cursor \in [date : Int, hour : Int]
         /\ BackTo(c, gap).cursor # None /\ BackTo(c, gap).ts # None
         /\ CursorHour(BackTo(c, gap).cursor) = gap
         /\ BackTo(c, gap).ts < CursorTime(BackTo(c, gap).cursor)
         /\ HourOf(BackTo(c, gap).ts) <= gap
         /\ ResumeHour(BackTo(c, gap)) = gap
<1>1. HourStart(gap) \in Int /\ HourStart(gap) - 1 \in Int
  BY TimeTypes
<1>2. /\ CursorAt(HourStart(gap)) \in [date : Int, hour : Int]
      /\ CursorHour(CursorAt(HourStart(gap))) = gap
  BY <1>1, TimeTypes, CursorRoundTrip, HourBounds
<1>3. /\ BackTo(c, gap).cursor = CursorAt(HourStart(gap))
      /\ BackTo(c, gap).ts = HourStart(gap) - 1
  BY DEF BackTo, Checkpoint
<1>4. HourOf(HourStart(gap) - 1) <= gap
  BY <1>1, HourMonotonic, HourBounds
<1>5. QED  BY <1>1, <1>2, <1>3, <1>4, NoneAssumption DEF ResumeHour, CursorTime

(* The gaps a reset goes back to, or forward, have a first one. *)
LEMMA ResetGap ==
  ASSUME LiveInv, Refreshes(RecentGaps(ckpt))
  PROVE  ckpt.ts # None /\ Min(RecentGaps(ckpt)) \in Int
<1>1. /\ ckpt \in Checkpoint /\ now \in Nat /\ LookBack \in Nat /\ LiveGap \in Nat
  BY ContinuousAssumption DEF LiveInv, TypeOK
<1>2. Cardinality(RecentGaps(ckpt)) > LiveGap
  BY DEF Refreshes
<1>3. ckpt.ts # None
  <2>1. ASSUME ckpt.ts = None PROVE FALSE
    <3>1. RecentGaps(ckpt) = {}
      BY <2>1 DEF RecentGaps
    <3>2. QED  BY <1>1, <1>2, <3>1, FS_EmptySet
  <2>2. QED  BY <2>1
<1>4. Max({ckpt.ts, now - LookBack}) \in Int
  BY <1>1, <1>3, LaterOf DEF Checkpoint
<1>5. PICK s \in Int : RecentGaps(ckpt) = Missing(fills, s, now)
  BY <1>3, <1>4 DEF RecentGaps
<1>6. QED  BY <1>1, <1>2, <1>3, <1>5, FirstGapType

LEMMA NoneBelow == \A hour \in Int : hour .. (hour - 1) = {}
  OBVIOUS

LEMMA StartSound == ASSUME SoundInv, Start PROVE SoundParts'
<1> USE DEF SoundInv, SoundParts
<1> DEFINE gaps == RecentGaps(ckpt)
<1>0. PICK from \in Int : StartAt(from)
  BY StartsFrom DEF SoundInv
<1>1. /\ live' = "call" /\ curStart' = StartTime(ckpt', from) /\ cursor' = ckpt'.cursor
      /\ total' = ckpt'.records /\ UNCHANGED <<fills, swallowed, stepped>>
  BY <1>0 DEF StartAt
<1>2. ckpt \in Checkpoint /\ now \in Nat /\ LookBack \in Nat /\ StartFrom \in Nat \cup {None}
  BY ContinuousAssumption DEF LiveInv, TypeOK
<1>3. PagePart'
  BY <1>1 DEF PagePart
<1>4. CASE ~Refreshes(gaps)
  <2>1. /\ ckpt' = ckpt /\ jumped' = jumped
        /\ base' = IF ckpt.ts = None THEN HourOf(StartTime(ckpt, from)) ELSE base
    BY <1>0, <1>4 DEF StartAt
  <2>2. Grow
    BY <1>1, <2>1 DEF Grow
  <2>3. curStart' = StartTime(ckpt, from) /\ cursor' = ckpt.cursor /\ StartTime(ckpt, from) \in Int
    BY <1>1, <1>2, <2>1 DEF StartTime, Checkpoint
  <2>4. CASE ckpt.ts = None
    <3>1. cursor' = None /\ NextHour' = base' /\ base' \in Int
      BY <2>1, <2>3, <2>4, TimeTypes DEF PositionPart, NextHour
    <3>2. DoneBelow(NextHour)'
      <4>1. base' .. (NextHour' - 1) = {}
        BY <3>1, NoneBelow
      <4>2. QED  BY <4>1 DEF DoneBelow
    <3>3. PositionPart' /\ PromisePart' /\ ForwardPart'
      BY <1>1, <1>2, <2>1, <2>4, <3>1, <3>2
         DEF PositionPart, PromisePart, ForwardPart, TimeAndCursorAgree, Checkpoint
    <3>4. QED  BY <1>3, <3>3
  <2>5. CASE ckpt.ts # None
    <3>1. curStart' = ckpt.ts /\ base' = base /\ ckpt.ts \in Int
      BY <1>2, <2>1, <2>3, <2>5 DEF StartTime, Checkpoint
    <3>2. NextHour' = ResumeHour(ckpt)
      BY <2>3, <2>5, <3>1 DEF NextHour, ResumeHour
    <3>3. DoneBelow(ResumeHour(ckpt))' /\ DoneBelow(NextHour)'
      <4>1. DoneBelow(ResumeHour(ckpt))
        BY <2>5 DEF PromisePart
      <4>2. QED  BY <2>1, <2>2, <3>1, <3>2, <4>1, DoneStays DEF DoneBelow
    <3>4. cursor' # None => HourOf(curStart') <= CursorHour(cursor')
      <4>1. SUFFICES ASSUME ckpt.cursor # None
                     PROVE  HourOf(ckpt.ts) <= CursorHour(ckpt.cursor)
        BY <2>3, <3>1
      <4>2. ckpt.cursor \in [date : Int, hour : Int] /\ CursorHour(ckpt.cursor) \in Int
        BY <1>2, <4>1, TimeTypes DEF Checkpoint, Cursors
      <4>3. ckpt.ts < HourStart(CursorHour(ckpt.cursor))
        BY <2>5, <4>1 DEF PositionPart, TimeAndCursorAgree, CursorTime
      <4>4. HourOf(ckpt.ts) < CursorHour(ckpt.cursor) /\ HourOf(ckpt.ts) \in Int
        BY <3>1, <4>2, <4>3, HourBounds, TimeTypes
      <4>5. QED  BY <4>2, <4>4
    <3>5. ForwardPart'
      <4>1. HourOf(ckpt.ts) \in Int
        BY <3>1, TimeTypes
      <4>2. QED  BY <1>1, <1>2, <2>1, <3>1, <4>1 DEF ForwardPart, Checkpoint
    <3>6. PositionPart' /\ PromisePart'
      BY <1>1, <2>1, <3>1, <3>3, <3>4
         DEF PositionPart, PromisePart, TimeAndCursorAgree
    <3>7. QED  BY <1>3, <3>5, <3>6
  <2>6. QED  BY <2>4, <2>5
<1>5. CASE Refreshes(gaps)
  <2>1. ckpt.ts # None /\ Min(gaps) \in Int
    BY <1>5, ResetGap
  <2>2. /\ ckpt' = BackTo(ckpt, Min(gaps)) /\ base' = Min({base, Min(gaps)})
        /\ jumped' = jumped \cup (ResumeHour(ckpt) .. (Min(gaps) - 1))
    BY <1>0, <1>5 DEF StartAt
  <2>3. PICK gap \in Int : gap = Min(gaps)
    BY <2>1
  <2> HIDE DEF gaps
  <2>4. /\ ckpt'.ts = HourStart(gap) - 1 /\ ckpt'.ts \in Int
        /\ ckpt'.cursor \in [date : Int, hour : Int]
        /\ ckpt'.cursor # None /\ ckpt'.ts # None /\ CursorHour(ckpt'.cursor) = gap
        /\ ckpt'.ts < CursorTime(ckpt'.cursor) /\ HourOf(ckpt'.ts) <= gap
        /\ ResumeHour(ckpt') = gap
    BY <1>2, <2>2, <2>3, BackToAgrees
  <2>5. ckpt'.records = ckpt.records /\ ckpt.records \in Nat
    BY <1>2, <2>2 DEF BackTo, Checkpoint
  <2>6. curStart' = ckpt'.ts /\ cursor' = ckpt'.cursor /\ NextHour' = gap
    BY <1>1, <2>4 DEF StartTime, NextHour
  <2>7. base \in Int /\ base' \in {base, gap} /\ base' <= base
    BY <2>2, <2>3, EarlierOf DEF PromisePart
  <2>8. ResumeHour(ckpt) \in Int
    <3>1. ckpt.ts \in Int /\ HourOf(ckpt.ts) \in Int
      BY <1>2, <2>1, TimeTypes DEF Checkpoint
    <3>2. ckpt.cursor # None => CursorHour(ckpt.cursor) \in Int
      BY <1>2, TimeTypes DEF Checkpoint, Cursors
    <3>3. QED  BY <2>1, <3>1, <3>2 DEF ResumeHour
  <2>9. Grow
    BY <1>1, <2>2 DEF Grow
  <2>10. ASSUME NEW h \in (base' .. (gap - 1)) \cap Hours
         PROVE  (Stored(h) \/ GivenUp(h))'
    <3>1. h \in Int /\ base' = base /\ base <= h /\ h <= gap - 1
      BY <2>7, <2>10
    <3>2. CASE h < ResumeHour(ckpt)
      <4>1. h \in (base .. (ResumeHour(ckpt) - 1)) \cap Hours
        BY <2>7, <2>8, <2>10, <3>1, <3>2
      <4>2. Stored(h) \/ GivenUp(h)
        BY <2>1, <4>1 DEF PromisePart, DoneBelow
      <4>3. QED  BY <2>9, <4>2, DoneStays
    <3>3. CASE h >= ResumeHour(ckpt)
      <4>1. h \in ResumeHour(ckpt) .. (gap - 1)
        BY <2>8, <3>1, <3>3
      <4>2. QED  BY <2>2, <2>3, <4>1 DEF GivenUp
    <3>4. QED  BY <2>8, <3>1, <3>2, <3>3
  <2>11. PromisePart'
    BY <2>4, <2>6, <2>7, <2>10 DEF PromisePart, DoneBelow
  <2>12. PositionPart'
    BY <1>1, <2>4, <2>6 DEF PositionPart, TimeAndCursorAgree
  <2>13. ForwardPart'
    <3>1. HourOf(ckpt'.ts) \in Int
      BY <2>4, TimeTypes
    <3>2. QED  BY <1>1, <2>5, <2>6, <3>1 DEF ForwardPart
  <2>14. QED  BY <1>3, <2>11, <2>12, <2>13
<1>6. QED  BY <1>4, <1>5

-----------------------------------------------------------------------------
(* The page that is fetched takes over where the last one stopped. *)
LEMMA FetchSound == ASSUME SoundInv, FetchReturn PROVE SoundParts'
<1> USE DEF SoundInv, SoundParts
<1> DEFINE pos == ReadPosition(curStart, cursor)
<1>1. /\ live = "fetch" /\ live' = "insert" /\ reading \in 0..PageHours
      /\ published \in SUBSET Hours /\ now \in Int
      /\ UNCHANGED <<ckpt, fills, base, jumped, curStart, cursor, total>>
  BY DEF FetchReturn, LiveInv, TypeOK, db
<1>2. PICK failing :
        /\ ~FetchFails(pos, reading, failing)
        /\ page' = FetchPage(pos, reading, published, failing, now)
        /\ swallowed' = swallowed \cup (failing \cap published)
  BY DEF FetchReturn
<1>3. stepped' = IF IsParallel(reading)
                 THEN stepped \cup (HoursCovered(pos, reading) \ published) ELSE stepped
  BY DEF FetchReturn
<1>4. Grow /\ NextHour' = NextHour
  BY <1>1, <1>2, <1>3 DEF Grow, NextHour
<1>5. pos \in Int /\ HourOf(pos) = NextHour /\ NextHour \in Int
  BY NextHourTypes
<1>6. PICK got : got = page'
  OBVIOUS
<1>7. reading \in 0..PageHours /\ now \in Int /\ published \in SUBSET Hours /\ pos \in Int
  BY <1>1, <1>5
<1>8. PagePart'
  <2>1. CASE page' = EndOfData
    BY <1>1, <2>1 DEF PagePart, EndOfData
  <2>2. CASE page' # EndOfData
    <3>1. ReadsToCursor(pos, reading, published, failing, page')
      BY <1>2, <1>7, <2>2, PageReadsToCursor
    <3> HIDE DEF pos
    <3>2. ReadsToCursor(pos, reading, published, failing, got)
      BY <1>6, <3>1
    <3> USE DEF ReadsToCursor
    <3>3. got.cursor \in [date : Int, hour : Int] /\ CursorHour(got.cursor) \in Int
      BY <3>2, TimeTypes
    <3>4. got.cursor # None
      BY <3>3, NoneAssumption
    <3>5. NextHour < CursorHour(got.cursor)
      BY <1>5, <3>2, <3>3
    <3>6. \A f \in got.fills : NextHour <= HourOf(f) /\ f < CursorTime(got.cursor)
      BY <1>5, <3>2, <3>3
    <3>7. ASSUME NEW h \in (NextHour .. (CursorHour(got.cursor) - 1)) \cap Hours
          PROVE  File[h] \subseteq got.fills \/ GivenUp(h)'
      <4>1. h \in HoursCovered(pos, reading)
        BY <1>5, <3>2, <3>7
      <4>2. CASE h \in published \ failing
        BY <3>2, <4>1, <4>2
      <4>3. CASE h \in failing \cap published
        BY <1>2, <4>3 DEF GivenUp
      <4>4. CASE h \notin published
        <5>1. CASE IsParallel(reading)
          BY <1>3, <4>1, <4>4, <5>1 DEF GivenUp
        <5>2. CASE ~IsParallel(reading)
          <6>1. HoursCovered(pos, reading) = HourOf(pos) .. HourOf(pos)
            BY <1>5, <5>2 DEF HoursCovered
          <6>2. HourOf(pos) \notin published
            BY <1>5, <4>1, <4>4, <6>1
          <6>3. page' = EndOfData
            BY <1>2, <5>2, <6>2 DEF FetchPage
          <6>4. QED  BY <2>2, <6>3
        <5>3. QED  BY <5>1, <5>2
      <4>5. QED  BY <4>2, <4>3, <4>4
    <3>8. QED  BY <1>4, <1>6, <3>4, <3>5, <3>6, <3>7 DEF PagePart
  <2>3. QED  BY <2>1, <2>2
<1>9. PositionPart' /\ ForwardPart'
  BY <1>1 DEF PositionPart, ForwardPart
<1>10. PromisePart'
  BY <1>1, <1>4, DoneStays DEF PromisePart, DoneBelow
<1>11. QED  BY <1>8, <1>9, <1>10

(* The insert of a page moves the position to its cursor, or, when no object  *)
(* was found, back to the hour of the last fill.                              *)
LEMMA InsertSound == ASSUME SoundInv, InsertOk PROVE SoundParts'
<1> USE DEF SoundInv, SoundParts
<1>1. /\ live = "insert" /\ live' = "save" /\ fills' = fills \cup page.fills
      /\ total' = total + Inserted /\ curStart' = NextStart(page) /\ cursor' = page.cursor
      /\ UNCHANGED <<ckpt, page, swallowed, stepped, jumped, base>>
  BY DEF InsertOk, ghost
<1>2. page.fills \in Batches /\ page.cursor \in Cursors /\ fills \in Batches
      /\ ckpt \in Checkpoint /\ total \in Nat
  BY <1>1 DEF LiveInv, TypeOK, Pages
<1>3. Grow
  BY <1>1 DEF Grow
<1>4. PagePart'
  BY <1>1 DEF PagePart
<1>5. Inserted \in Nat
  BY <1>2, InsertGrows DEF Inserted
<1>6. curStart \in Int /\ HourOf(curStart) \in Int /\ NextHour \in Int
  BY NextHourTypes
<1>7. HourOf(curStart) <= NextHour
  BY <1>1, <1>6 DEF PositionPart, NextHour
<1>8. /\ curStart' \in Int /\ HourOf(curStart') \in Int
      /\ HourOf(curStart) <= HourOf(curStart') /\ NextHour' \in Int
      /\ cursor' # None => curStart' < CursorTime(cursor') /\ HourOf(curStart') <= CursorHour(cursor')
      /\ DoneBelow(NextHour)'
  <2>1. CASE page.cursor = None /\ page.fills = {}
    <3>1. curStart' = curStart /\ cursor' = None
      BY <1>1, <2>1 DEF NextStart
    <3>2. NextHour' = HourOf(curStart)
      BY <3>1 DEF NextHour
    <3>3. ASSUME NEW h \in (base .. (HourOf(curStart) - 1)) \cap Hours
          PROVE  (Stored(h) \/ GivenUp(h))'
      <4>1. h \in (base .. (NextHour - 1)) \cap Hours
        BY <1>6, <1>7, <3>3 DEF PromisePart
      <4>2. Stored(h) \/ GivenUp(h)
        BY <1>1, <4>1 DEF PromisePart, DoneBelow
      <4>3. QED  BY <1>3, <4>2, DoneStays
    <3>4. QED  BY <1>1, <1>6, <3>1, <3>2, <3>3 DEF DoneBelow
  <2>2. CASE /\ page.cursor # None /\ NextHour < CursorHour(page.cursor)
             /\ \A f \in page.fills : NextHour <= HourOf(f) /\ f < CursorTime(page.cursor)
             /\ \A h \in (NextHour .. (CursorHour(page.cursor) - 1)) \cap Hours :
                  File[h] \subseteq page.fills \/ GivenUp(h)
    <3>1. page.cursor \in [date : Int, hour : Int] /\ CursorHour(page.cursor) \in Int
      BY <1>2, <2>2, TimeTypes DEF Cursors
    <3>2. NextHour' = CursorHour(page.cursor)
      BY <1>1, <2>2 DEF NextHour
    <3>3. curStart' \in Int /\ HourOf(curStart) <= HourOf(curStart')
          /\ curStart' < CursorTime(page.cursor)
      <4>1. CASE page.fills = {}
        <5>1. curStart' = curStart
          BY <1>1, <4>1 DEF NextStart
        <5>2. HourOf(curStart) < CursorHour(page.cursor)
          BY <1>6, <1>7, <2>2, <3>1
        <5>3. curStart < CursorTime(page.cursor)
          BY <1>6, <3>1, <5>2, HourBounds DEF CursorTime
        <5>4. QED  BY <1>6, <5>1, <5>3
      <4>2. CASE page.fills # {}
        <5>1. Max(page.fills) \in Int /\ Max(page.fills) \in page.fills
          BY <1>2, <4>2, BatchTypes
        <5>2. curStart' = Max(page.fills)
          BY <1>1, <4>2 DEF NextStart
        <5>3. HourOf(Max(page.fills)) \in Int
          BY <5>1, TimeTypes, Zenon
        <5>4. QED  BY <1>6, <1>7, <2>2, <5>1, <5>2, <5>3
      <4>3. QED  BY <4>1, <4>2
    <3>4. HourOf(curStart') \in Int /\ HourOf(curStart') <= CursorHour(page.cursor)
      <4>1. PICK t \in Int : t = curStart'
        BY <3>3
      <4>2. HourOf(t) < CursorHour(page.cursor) /\ HourOf(t) \in Int
        BY <3>1, <3>3, <4>1, HourBounds, TimeTypes DEF CursorTime
      <4>3. QED  BY <3>1, <4>1, <4>2
    <3>5. ASSUME NEW h \in (base .. (CursorHour(page.cursor) - 1)) \cap Hours
          PROVE  (Stored(h) \/ GivenUp(h))'
      <4>1. base \in Int /\ h \in Int
        BY <3>5 DEF PromisePart
      <4>2. CASE h < NextHour
        <5>1. h \in (base .. (NextHour - 1)) \cap Hours
          BY <1>6, <3>5, <4>1, <4>2
        <5>2. Stored(h) \/ GivenUp(h)
          BY <1>1, <5>1 DEF PromisePart, DoneBelow
        <5>3. QED  BY <1>3, <5>2, DoneStays
      <4>3. CASE h >= NextHour
        <5>1. h \in (NextHour .. (CursorHour(page.cursor) - 1)) \cap Hours
          BY <1>6, <3>1, <3>5, <4>1, <4>3
        <5>2. File[h] \subseteq page.fills \/ GivenUp(h)
          BY <2>2, <5>1
        <5>3. QED  BY <1>1, <1>3, <5>2, DoneStays DEF Stored
      <4>4. QED  BY <1>6, <4>1, <4>2, <4>3
    <3>6. QED  BY <1>1, <3>1, <3>2, <3>3, <3>4, <3>5 DEF DoneBelow
  <2>3. QED  BY <1>1, <2>1, <2>2 DEF PagePart
<1>9. PositionPart'
  BY <1>1, <1>8 DEF PositionPart, TimeAndCursorAgree
<1>10. PromisePart'
  <2>1. (ckpt.ts # None => DoneBelow(ResumeHour(ckpt)))'
    BY <1>1, <1>3, DoneStays DEF PromisePart, DoneBelow
  <2>2. QED  BY <1>1, <1>8, <2>1 DEF PromisePart
<1>11. ForwardPart'
  <2>1. ckpt.ts # None => HourOf(ckpt.ts) \in Int
    BY <1>2, TimeTypes DEF Checkpoint
  <2>2. ckpt.records \in Nat
    BY <1>2 DEF Checkpoint
  <2>3. QED  BY <1>1, <1>2, <1>5, <1>6, <1>8, <2>1, <2>2 DEF ForwardPart
<1>12. QED  BY <1>4, <1>9, <1>10, <1>11

(* What is saved is where the process is. *)
LEMMA SaveSound == ASSUME SoundInv, Save PROVE SoundParts'
<1> USE DEF SoundInv, SoundParts
<1>1. /\ live = "save" /\ live' = "call" /\ ckpt' = Saved
      /\ UNCHANGED <<fills, curStart, cursor, total, swallowed, stepped, jumped, base>>
  BY DEF Save, ghost
<1>2. /\ curStart \in Int /\ curStart # None /\ HourOf(curStart) \in Int /\ total \in Nat
  BY NextHourTypes, NoneAssumption DEF LiveInv, TypeOK
<1>3. ckpt'.ts = curStart /\ ckpt'.cursor = cursor /\ ckpt'.records = total
  BY <1>1 DEF Saved
<1>4. ResumeHour(ckpt') = NextHour /\ NextHour' = NextHour
  BY <1>1, <1>2, <1>3 DEF ResumeHour, NextHour
<1>5. PositionPart' /\ PagePart' /\ ForwardPart'
  BY <1>1, <1>2, <1>3
     DEF PositionPart, PagePart, ForwardPart, TimeAndCursorAgree
<1>6. PromisePart'
  <2>1. Grow
    BY <1>1 DEF Grow
  <2>2. DoneBelow(NextHour)
    BY <1>1 DEF PromisePart
  <2>3. DoneBelow(NextHour)' /\ DoneBelow(ResumeHour(ckpt))'
    BY <1>1, <1>4, <2>1, <2>2, DoneStays DEF DoneBelow
  <2>4. QED  BY <1>1, <2>3 DEF PromisePart
<1>7. QED  BY <1>5, <1>6

-----------------------------------------------------------------------------
LEMMA SoundInit == Init => SoundParts
<1> SUFFICES ASSUME Init PROVE SoundParts
  OBVIOUS
<1>1. /\ ckpt \in Checkpoint /\ TimeAndCursorAgree(ckpt) /\ live = "off"
      /\ ckpt.ts = None => ckpt.cursor = None
      /\ base = ResumeHour(ckpt)
  BY ContinuousAssumption DEF Init
<1>2. base \in Int
  <2>1. ckpt.cursor # None => CursorHour(ckpt.cursor) \in Int
    BY <1>1, TimeTypes DEF Checkpoint, Cursors
  <2>2. ckpt.ts # None => HourOf(ckpt.ts) \in Int
    BY <1>1, TimeTypes DEF Checkpoint
  <2>3. QED  BY <1>1, <2>1, <2>2 DEF ResumeHour
<1>3. DoneBelow(ResumeHour(ckpt))
  BY <1>1, <1>2 DEF DoneBelow
<1>4. QED  BY <1>1, <1>2, <1>3
       DEF SoundParts, PositionPart, PagePart, PromisePart, ForwardPart

LEMMA SoundNext == SoundInv /\ [Next]_vars => SoundParts'
<1> SUFFICES ASSUME SoundInv, [Next]_vars PROVE SoundParts'
  OBVIOUS
<1>1. CASE Tick \/ (\E h \in Hours : Publish(h)) \/ UNCHANGED vars
  <2>1. UNCHANGED <<fills, ckpt, live, curStart, cursor, total, page, swallowed,
                    stepped, jumped, base>>
    BY <1>1 DEF Tick, Publish, vars, db, task, ghost
  <2>2. QED  BY <2>1 DEF SoundInv, SoundParts, PositionPart, PagePart, PromisePart,
                         ForwardPart, NextHour, DoneBelow, Stored, GivenUp
<1>2. CASE Crash \/ Shutdown
  <2>1. Exit /\ Grow /\ UNCHANGED <<ckpt, base>>
    <3>1. fills \subseteq fills'
      BY <1>2 DEF Crash, Shutdown, db
    <3>2. QED  BY <1>2, <3>1 DEF Crash, Shutdown, Grow, db, ghost
  <2>2. QED  BY <2>1, ExitSound
<1>3. CASE FetchCall \/ FetchError \/ InsertError
  <2>1. Grow /\ UNCHANGED <<ckpt, base>> /\ live # "off"
    BY <1>3 DEF FetchCall, FetchError, InsertError, Grow, db, ghost
  <2>2. CASE Exit
    BY <2>1, <2>2, ExitSound
  <2>3. CASE ~Exit
    <3>1. UNCHANGED <<curStart, cursor, total>> /\ live' \in {"call", "fetch"}
      BY <1>3, <2>3 DEF FetchCall, FetchError, InsertError
    <3>2. QED  BY <2>1, <3>1, StaySound
  <2>4. QED  BY <2>2, <2>3
<1>4. QED  BY <1>1, <1>2, <1>3, StartSound, FetchSound, InsertSound, SaveSound
       DEF Next, LiveStep, LoopStep

LEMMA SoundInvInit == Init => SoundInv
  BY LiveInit, SoundInit DEF SoundInv

LEMMA SoundStep == SoundInv /\ [Next]_vars => SoundInv'
  BY LiveNext, SoundNext DEF SoundInv

LEMMA SoundAlways == Spec => []SoundInv
  BY SoundInvInit, SoundStep, PTL DEF Spec

(* The time and the cursor agree, in the process and in the row it saves, so  *)
(* that going back to the time at the end of the data skips no hour.          *)
THEOREM TimeStaysBehind == Spec => []TimeBehindCursor
<1>1. SoundInv => TimeBehindCursor
  BY DEF SoundInv, SoundParts, PositionPart, TimeBehindCursor
<1>2. QED  BY <1>1, SoundAlways, PTL

(* The live checkpoint never promises an hour that is neither in the table    *)
(* nor given up, through errors, crashes, shutdowns, restarts and resets.     *)
THEOREM LiveCheckpointIsSound == Spec => []LiveCheckpointSound
<1>1. SoundInv => LiveCheckpointSound
  BY DEF SoundInv, SoundParts, PromisePart, DoneBelow, LiveCheckpointSound
<1>2. QED  BY <1>1, SoundAlways, PTL

LEMMA LiveForward ==
  ASSUME SoundInv, [Next]_vars, live # "off"
  PROVE  /\ ckpt'.records >= ckpt.records
         /\ ckpt.ts # None => HourOf(ckpt'.ts) >= HourOf(ckpt.ts)
<1>1. ckpt \in Checkpoint /\ curStart \in Int /\ total \in Nat
  BY DEF SoundInv, LiveInv, TypeOK
<1>2. ckpt.records \in Nat /\ HourOf(curStart) \in Int
      /\ (ckpt.ts # None => HourOf(ckpt.ts) \in Int)
  BY <1>1, TimeTypes DEF Checkpoint
<1>3. CASE Save
  <2>1. ckpt'.ts = curStart /\ ckpt'.records = total
    BY <1>3 DEF Save, Saved
  <2>2. QED  BY <1>1, <1>2, <2>1 DEF SoundInv, SoundParts, ForwardPart
<1>4. CASE ckpt' = ckpt
  BY <1>2, <1>4
<1>5. Save \/ ckpt' = ckpt
  BY DEF Next, LiveStep, LoopStep, Tick, Publish, Crash, Shutdown, Start, StartAt, FetchCall,
     FetchReturn,
         FetchError, InsertOk, InsertError, vars, db
<1>6. QED  BY <1>3, <1>4, <1>5

(* While it runs, the live process saves no smaller count and no earlier hour.*)
THEOREM LiveSavesGoForward == Spec => LiveSavesMoveForward
<1>1. SoundInv /\ [Next]_vars =>
        [live # "off" => /\ ckpt'.records >= ckpt.records
                         /\ ckpt.ts # None => HourOf(ckpt'.ts) >= HourOf(ckpt.ts)]_vars
  BY LiveForward
<1>2. QED  BY <1>1, SoundAlways, PTL DEF Spec, LiveSavesMoveForward

-----------------------------------------------------------------------------
(* Each step of the live process is a step of a CheckpointedReader, or none. *)
LEMMA ReaderDone ==
  /\ Reader!Done = {h \in Hours : Stored(h) \/ GivenUp(h)}
  /\ Reader!Done' = {h \in Hours : (Stored(h) \/ GivenUp(h))'}
BY DEF Reader!Done, Reader!AllHours, Hours, Stored, GivenUp

(* What the process would save is what it has done. *)
SavedIsDone ==
  /\ DoneTo(Saved) = (base .. (NextHour - 1)) \cap Hours
  /\ live # "off" => \A h \in DoneTo(Saved) : Stored(h) \/ GivenUp(h)

LEMMA SavedDone == SoundInv => SavedIsDone
<1> SUFFICES ASSUME SoundInv PROVE SavedIsDone
  OBVIOUS
<1>1. curStart # None
  BY NextHourTypes, NoneAssumption DEF SoundInv
<1>2. ResumeHour(Saved) = NextHour
  BY <1>1 DEF ResumeHour, Saved, NextHour
<1>3. DoneTo(Saved) = (base .. (NextHour - 1)) \cap Hours
  BY <1>1, <1>2 DEF DoneTo, Saved
<1>4. QED  BY <1>3 DEF SoundInv, SoundParts, PromisePart, DoneBelow, SavedIsDone

LEMMA SavedDoneNext == SoundInv' => SavedIsDone'
  BY SavedDone, PTL

(* The reader's own copies of the standard operators are these. *)
LEMMA SameSize ==
  \A S : /\ Reader!IsFiniteSet(S) <=> IsFiniteSet(S)
         /\ Reader!Cardinality(S) = Cardinality(S)
BY DEF Reader!IsFiniteSet, IsFiniteSet, Reader!Cardinality, Cardinality

LEMMA TableGrows ==
  ASSUME Grow, fills' \in Batches
  PROVE  Reader!Grows
<1>1. fills \subseteq fills' /\ IsFiniteSet(fills')
  BY DEF Grow, Batches
<1>2. (swallowed \cup stepped \cup jumped) \cap Hours
        \subseteq (swallowed' \cup stepped' \cup jumped') \cap Hours
  BY DEF Grow
<1>3. (swallowed' \cup stepped' \cup jumped') \cap Hours \subseteq Reader!AllHours
  BY DEF Reader!AllHours, Hours
<1>4. QED  BY <1>1, <1>2, <1>3, SameSize DEF Reader!Grows

LEMMA ReaderInit == Init => Reader!Init
<1> SUFFICES ASSUME Init PROVE Reader!Init
  OBVIOUS
<1>1. /\ live = "off" /\ fills \in Batches /\ ckpt \in Checkpoint /\ LiveInv
      /\ base = ResumeHour(ckpt) /\ SoundParts
  BY LiveInit, SoundInit DEF Init, LiveInv, TypeOK
<1>2. DoneTo(ckpt) = {}
  <2>1. base .. (ResumeHour(ckpt) - 1) = {}
    BY <1>1, NoneBelow DEF SoundParts, PromisePart
  <2>2. QED  BY <2>1 DEF DoneTo
<1>3. ckpt.records \in 0..Cardinality(fills)
  BY <1>1, CountType DEF LiveInv, LiveCountsOK
<1>4. IsFiniteSet(fills)
  BY <1>1 DEF Batches
<1>5. (swallowed \cup stepped \cup jumped) \cap Hours \subseteq Reader!AllHours
  BY DEF Reader!AllHours, Hours
<1>6. QED  BY <1>1, <1>2, <1>3, <1>4, <1>5, SameSize DEF Reader!Init

(* A process that starts loads what the row says, or lowers it first. *)
LEMMA StartLoads == ASSUME SoundInv, SoundInv', Start PROVE Reader!Load
<1> DEFINE gaps == RecentGaps(ckpt)
<1>0. PICK from \in Int : StartAt(from)
  BY StartsFrom DEF SoundInv
<1>1. /\ live = "off" /\ live' = "call" /\ curStart' = StartTime(ckpt', from)
      /\ cursor' = ckpt'.cursor /\ total' = ckpt'.records
      /\ UNCHANGED <<fills, swallowed, stepped>>
  BY <1>0 DEF StartAt
<1>2. ckpt \in Checkpoint /\ ckpt' \in Checkpoint /\ fills' \in Batches /\ base \in Int
  BY DEF SoundInv, LiveInv, TypeOK, SoundParts, PromisePart
<1>3. /\ ckpt'.records = ckpt.records
      /\ DoneTo(ckpt)' \subseteq DoneTo(ckpt) \cup jumped' /\ jumped \subseteq jumped'
      /\ DoneTo(Saved)' \subseteq DoneTo(ckpt)'
  <2>1. CASE ~Refreshes(gaps)
    <3>1. /\ ckpt' = ckpt /\ jumped' = jumped
          /\ base' = IF ckpt.ts = None THEN HourOf(StartTime(ckpt, from)) ELSE base
      BY <1>0, <2>1 DEF StartAt
    <3>2. DoneTo(ckpt)' \subseteq DoneTo(ckpt)
      BY <3>1 DEF DoneTo
    <3>3. CASE ckpt.ts = None
      <4>1. cursor' = None
        BY <1>1, <3>1, <3>3 DEF SoundInv, SoundParts, PositionPart
      <4>2. NextHour' = base' /\ base' \in Int
        BY <1>1, <3>1, <3>3, <4>1 DEF NextHour, SoundInv, SoundParts, PromisePart
      <4>3. base' .. (NextHour' - 1) = {}
        BY <4>2, NoneBelow
      <4>4. DoneTo(Saved)' = {}
        BY <4>3, SavedDoneNext DEF SavedIsDone
      <4>5. QED  BY <3>1, <3>2, <4>4
    <3>4. CASE ckpt.ts # None
      <4>1. NextHour' = ResumeHour(ckpt)
        BY <1>1, <3>1, <3>4 DEF NextHour, ResumeHour, StartTime
      <4>2. DoneTo(Saved)' = DoneTo(ckpt)
        BY <3>1, <3>4, <4>1, SavedDoneNext DEF SavedIsDone, DoneTo
      <4>3. DoneTo(ckpt)' = DoneTo(ckpt)
        BY <3>1, <3>4 DEF DoneTo
      <4>4. QED  BY <3>1, <4>2, <4>3
    <3>5. QED  BY <3>3, <3>4
  <2>2. CASE Refreshes(gaps)
    <3>1. ckpt.ts # None /\ Min(gaps) \in Int
      BY <2>2, ResetGap DEF SoundInv
    <3>2. /\ ckpt' = BackTo(ckpt, Min(gaps)) /\ base' = Min({base, Min(gaps)})
          /\ jumped' = jumped \cup (ResumeHour(ckpt) .. (Min(gaps) - 1))
      BY <1>0, <2>2 DEF StartAt
    <3>3. PICK gap \in Int : gap = Min(gaps)
      BY <3>1
    <3> HIDE DEF gaps
    <3>4. ckpt'.ts # None /\ ResumeHour(ckpt') = gap
          /\ ckpt'.cursor # None /\ CursorHour(ckpt'.cursor) = gap
      BY <1>2, <3>2, <3>3, BackToAgrees
    <3>5. ckpt'.records = ckpt.records
      BY <1>2, <3>2 DEF BackTo, Checkpoint
    <3>6. base' \in {base, gap} /\ base' <= base
      BY <1>2, <3>2, <3>3, EarlierOf
    <3>7. DoneTo(ckpt)' = (base' .. (gap - 1)) \cap Hours
      BY <3>4 DEF DoneTo
    <3>8. NextHour' = gap
      BY <1>1, <3>4 DEF NextHour
    <3>9. DoneTo(Saved)' = DoneTo(ckpt)'
      BY <3>7, <3>8, SavedDoneNext DEF SavedIsDone
    <3>10. ASSUME NEW h \in DoneTo(ckpt)' PROVE h \in DoneTo(ckpt) \cup jumped'
      <4>1. h \in Int /\ h \in Hours /\ base' = base /\ base <= h /\ h <= gap - 1
        BY <1>2, <3>6, <3>7, <3>10
      <4>2. ResumeHour(ckpt) \in Int
        <5>1. HourOf(ckpt.ts) \in Int
          BY <1>2, <3>1, TimeTypes DEF Checkpoint
        <5>2. ckpt.cursor # None => CursorHour(ckpt.cursor) \in Int
          BY <1>2, TimeTypes DEF Checkpoint, Cursors
        <5>3. QED  BY <3>1, <5>1, <5>2 DEF ResumeHour
      <4>3. CASE h < ResumeHour(ckpt)
        BY <1>2, <3>1, <4>1, <4>2, <4>3 DEF DoneTo
      <4>4. CASE h >= ResumeHour(ckpt)
        <5>1. h \in ResumeHour(ckpt) .. (gap - 1)
          BY <4>1, <4>2, <4>4
        <5>2. QED  BY <3>2, <3>3, <5>1
      <4>5. QED  BY <4>1, <4>2, <4>3, <4>4
    <3>11. QED  BY <3>2, <3>5, <3>9, <3>10
  <2>3. QED  BY <2>1, <2>2
<1>4. Reader!Grows
  BY <1>1, <1>2, <1>3, TableGrows DEF Grow
<1>5. DoneTo(Saved)' \in SUBSET Hours /\ total' \in Nat
  BY DEF DoneTo, SoundInv, LiveInv, TypeOK
<1>6. [done |-> DoneTo(Saved)', records |-> total'] # None
  BY <1>5, NoneAssumption
<1>7. DoneTo(ckpt)' \subseteq Hours
  BY DEF DoneTo
<1>8. Reader!Lower
  BY <1>3, <1>7 DEF Reader!Lower
<1>9. QED  BY <1>1, <1>3, <1>4, <1>6, <1>8 DEF Reader!Load

(* An insert adds the hours of one page and counts what was new.  *)
LEMMA InsertAdvances == ASSUME SoundInv, SoundInv', InsertOk PROVE Reader!Advance
<1>1. /\ live = "insert" /\ live' = "save" /\ fills' = fills \cup page.fills
      /\ total' = total + Inserted
      /\ UNCHANGED <<ckpt, swallowed, stepped, jumped, base>>
  BY DEF InsertOk, ghost
<1>2. Reader!Grows
  BY <1>1, TableGrows DEF Grow, SoundInv, LiveInv, TypeOK
<1>3. DoneTo(Saved)' \subseteq Reader!Done'
  <2>1. \A h \in DoneTo(Saved)' : h \in Hours /\ (Stored(h) \/ GivenUp(h))'
    BY <1>1, SavedDoneNext DEF SavedIsDone, DoneTo
  <2>2. QED  BY <2>1, ReaderDone
<1>4. fills' \ fills = page.fills \ fills
  BY <1>1
<1>5. total' = total + Cardinality(fills' \ fills)
  BY <1>1, <1>4 DEF Inserted
<1>6. /\ DoneTo(Saved) \in SUBSET Hours /\ total \in Nat
      /\ DoneTo(Saved)' \in SUBSET Hours /\ total' \in Nat
  BY DEF DoneTo, SoundInv, LiveInv, TypeOK
<1>7. /\ [done |-> DoneTo(Saved), records |-> total] # None
      /\ [done |-> DoneTo(Saved)', records |-> total'] # None
  BY <1>6, NoneAssumption
<1>8. DoneTo(ckpt)' = DoneTo(ckpt)
  BY <1>1 DEF DoneTo
<1>9. QED  BY <1>1, <1>2, <1>3, <1>5, <1>7, <1>8, SameSize DEF Reader!Advance

(* Anything else that changes what a reader sees leaves it as it was, or off. *)
LEMMA OtherLeaves ==
  ASSUME SoundInv, SoundInv', live # "off", Grow, UNCHANGED base,
         \/ live' = "off" /\ UNCHANGED ckpt
         \/ live' # "off" /\ UNCHANGED <<curStart, cursor, total>> /\ ckpt' \in {ckpt, Saved}
  PROVE  Reader!Leave
<1>1. Reader!Grows
  BY TableGrows DEF SoundInv, LiveInv, TypeOK
<1>2. DoneTo(Saved) \in SUBSET Hours /\ total \in Nat
  BY DEF DoneTo, SoundInv, LiveInv, TypeOK
<1>3. [done |-> DoneTo(Saved), records |-> total] # None
  BY <1>2, NoneAssumption
<1>4. CASE live' = "off" /\ UNCHANGED ckpt
  <2>1. DoneTo(ckpt)' = DoneTo(ckpt)
    BY <1>4 DEF DoneTo
  <2>2. QED  BY <1>1, <1>3, <1>4, <2>1 DEF Reader!Leave
<1>5. CASE live' # "off" /\ UNCHANGED <<curStart, cursor, total>> /\ ckpt' \in {ckpt, Saved}
  <2>1. DoneTo(Saved)' = DoneTo(Saved)
    BY <1>5 DEF DoneTo, Saved
  <2>2. [done |-> DoneTo(ckpt)', records |-> ckpt'.records]
          \in {[done |-> DoneTo(ckpt), records |-> ckpt.records],
               [done |-> DoneTo(Saved), records |-> total]}
    <3>1. CASE ckpt' = ckpt
      BY <3>1 DEF DoneTo
    <3>2. CASE ckpt' = Saved
      BY <3>2 DEF DoneTo, Saved
    <3>3. QED  BY <1>5, <3>1, <3>2
  <2>3. QED  BY <1>1, <1>3, <1>5, <2>1, <2>2 DEF Reader!Leave
<1>6. QED  BY <1>4, <1>5

LEMMA ReaderStep ==
  SoundInv /\ SoundInv' /\ [Next]_vars => [Reader!Next]_(Reader!vars)
<1> SUFFICES ASSUME SoundInv, SoundInv', [Next]_vars
             PROVE  [Reader!Next]_(Reader!vars)
  OBVIOUS
<1>1. CASE Tick \/ (\E h \in Hours : Publish(h)) \/ UNCHANGED vars
  <2>1. UNCHANGED <<fills, ckpt, live, curStart, cursor, total, swallowed, stepped,
                    jumped, base>>
    BY <1>1 DEF Tick, Publish, vars, db, task, ghost
  <2>2. DoneTo(ckpt)' = DoneTo(ckpt) /\ DoneTo(Saved)' = DoneTo(Saved)
    BY <2>1 DEF DoneTo, Saved
  <2>3. QED  BY <2>1, <2>2 DEF Reader!vars
<1>2. CASE Start
  BY <1>2, StartLoads DEF Reader!Next
<1>3. CASE InsertOk
  BY <1>3, InsertAdvances DEF Reader!Next
<1>4. CASE Crash \/ Shutdown
  <2>1. fills \subseteq fills'
    BY <1>4 DEF Crash, Shutdown, db
  <2>2. live # "off" /\ live' = "off" /\ Grow /\ UNCHANGED <<ckpt, base>>
    BY <1>4, <2>1 DEF Crash, Shutdown, Exit, Grow, db, ghost
  <2>3. QED  BY <2>2, OtherLeaves DEF Reader!Next
<1>5. CASE FetchCall \/ FetchReturn \/ FetchError \/ InsertError \/ Save
  <2>1. live # "off" /\ Grow /\ UNCHANGED base
    BY <1>5 DEF FetchCall, FetchReturn, FetchError, InsertError, Save, Grow, db, ghost
  <2>2. CASE FetchCall \/ FetchReturn \/ InsertError \/ Save
    <3>1. live' # "off" /\ UNCHANGED <<curStart, cursor, total>> /\ ckpt' \in {ckpt, Saved}
      BY <2>2 DEF FetchCall, FetchReturn, InsertError, Save, db
    <3>2. QED  BY <2>1, <3>1, OtherLeaves DEF Reader!Next
  <2>3. CASE FetchError
    <3>1. ckpt' = ckpt
      BY <2>3 DEF FetchError, db
    <3>2. CASE Exit
      BY <2>1, <3>1, <3>2, OtherLeaves DEF Reader!Next, Exit
    <3>3. CASE ~Exit
      BY <2>1, <2>3, <3>1, <3>3, OtherLeaves DEF Reader!Next, FetchError
    <3>4. QED  BY <3>2, <3>3
  <2>4. QED  BY <1>5, <2>2, <2>3
<1>6. QED  BY <1>1, <1>2, <1>3, <1>4, <1>5 DEF Next, LiveStep, LoopStep

(* The live process implements the abstract reader: a reader that knows no    *)
(* clock, no page and no cursor, and never takes an hour for done that is not *)
(* (run_continuous as a whole).                                               *)
THEOREM LiveImplementsReader == Spec => ImplementsReader
<1>1. Spec => []SoundInv
  BY SoundAlways
<1>2. QED  BY <1>1, ReaderInit, ReaderStep, PTL DEF Spec, ImplementsReader, Reader!Spec

-----------------------------------------------------------------------------
(* For systems that the live process is a part of: its start and its saves    *)
(* never lower the count, and while it is off another process may write the   *)
(* tables, if it leaves a row that can be trusted.                            *)
LEMMA LiveCountNeverFalls ==
  ASSUME SoundInv, [Next]_vars PROVE ckpt.records <= ckpt'.records
<1>1. ckpt \in Checkpoint /\ ckpt.records \in Nat
  BY DEF SoundInv, LiveInv, TypeOK, Checkpoint
<1>2. CASE live # "off"
  BY <1>1, <1>2, LiveForward
<1>3. CASE Start
  <2>1. PICK gap : ckpt' \in {ckpt, BackTo(ckpt, gap)}
    BY <1>3 DEF Start, StartAt
  <2>2. ckpt'.records = ckpt.records
    BY <1>1, <2>1 DEF BackTo, Checkpoint
  <2>3. QED  BY <1>1, <2>2
<1>4. CASE live = "off" /\ ~Start
  BY <1>1, <1>4
     DEF Next, LiveStep, LoopStep, Tick, Publish, Crash, Shutdown, FetchCall, FetchReturn,
     FetchError, InsertOk, InsertError, Save, vars, db
<1>5. QED  BY <1>2, <1>3, <1>4

LEMMA StepGrows == ASSUME [Next]_vars PROVE Grow
<1>1. fills \subseteq fills'
  BY DEF Next, LiveStep, LoopStep, Tick, Publish, Crash, Shutdown, Start, StartAt, FetchCall,
     FetchReturn,
     FetchError, InsertOk, InsertError, Save, vars, db
<1>2. UNCHANGED <<swallowed, stepped, jumped>> \/ Start \/ FetchReturn
  BY DEF Next, LiveStep, LoopStep, Tick, Publish, Crash, Shutdown, FetchCall, FetchError, InsertOk,
     InsertError, Save, vars, ghost
<1>3. QED  BY <1>1, <1>2 DEF Start, StartAt, FetchReturn, Grow

LEMMA OthersKeepTypes ==
  ASSUME LiveInv, fills \subseteq fills', UNCHANGED task,
         now' \in Nat, published' \subseteq Hours, faults' \in Nat,
         fills' \in Batches, ckpt' \in Checkpoint, ckpt'.records <= Cardinality(fills')
  PROVE  LiveInv'
<1>1. TypeOK'
  BY DEF LiveInv, TypeOK, task
<1>2. LiveCountsOK'
  <2>1. fills \in Batches /\ total \in Nat /\ total' = total
    BY DEF LiveInv, TypeOK, task
  <2>2. /\ Cardinality(fills) <= Cardinality(fills')
        /\ Cardinality(fills) \in Nat /\ Cardinality(fills') \in Nat
    BY <2>1, FS_Subset, FS_CardinalityType DEF Batches
  <2>3. QED  BY <2>1, <2>2 DEF LiveCountsOK, LiveInv
<1>3. QED  BY <1>1, <1>2 DEF LiveInv

LEMMA OthersMayWrite ==
  ASSUME SoundInv, live = "off", Grow, UNCHANGED task,
         now' \in Nat, published' \subseteq Hours, faults' \in Nat, base' \in Int,
         fills' \in Batches, ckpt' \in Checkpoint, ckpt'.records <= Cardinality(fills'),
         TimeAndCursorAgree(ckpt'), ckpt'.ts = None => ckpt'.cursor = None,
         ckpt'.ts # None => DoneBelow(ResumeHour(ckpt))'
  PROVE  SoundInv'
<1>1. live' = "off"
  BY DEF task
<1>2. LiveInv'
  BY OthersKeepTypes DEF SoundInv, Grow
<1>3. SoundParts'
  BY <1>1 DEF SoundParts, PositionPart, PagePart, PromisePart, ForwardPart
<1>4. QED  BY <1>2, <1>3 DEF SoundInv

(* While it is running another process may still insert fills, if it leaves   *)
(* the row alone.                                                             *)
LEMMA OthersInsert ==
  ASSUME SoundInv, Grow, UNCHANGED <<ckpt, base, task>>,
         now' \in Nat, published' \subseteq Hours, faults' \in Nat, fills' \in Batches
  PROVE  SoundInv'
<1>1. ckpt' \in Checkpoint /\ ckpt'.records <= Cardinality(fills')
  <2>1. /\ Cardinality(fills) <= Cardinality(fills')
        /\ Cardinality(fills) \in Nat /\ Cardinality(fills') \in Nat
    BY FS_Subset, FS_CardinalityType DEF Batches, SoundInv, LiveInv, TypeOK, Grow
  <2>2. ckpt \in Checkpoint /\ ckpt.records \in Nat /\ ckpt.records <= Cardinality(fills)
    BY DEF SoundInv, LiveInv, TypeOK, LiveCountsOK, Checkpoint
  <2>3. QED  BY <2>1, <2>2
<1>2. LiveInv'
  BY <1>1, OthersKeepTypes DEF SoundInv, Grow
<1>3. UNCHANGED <<live, curStart, cursor, total, page>> /\ NextHour' = NextHour
  BY DEF task, NextHour
<1>4. PositionPart' /\ ForwardPart'
  BY <1>3 DEF SoundInv, SoundParts, PositionPart, ForwardPart
<1>5. PagePart' /\ PromisePart'
  BY <1>3, DoneStays DEF SoundInv, SoundParts, PagePart, PromisePart, DoneBelow
<1>6. QED  BY <1>2, <1>4, <1>5 DEF SoundInv, SoundParts
=============================================================================
