--------------------------- MODULE BackfillProofs ---------------------------
(***************************************************************************)
(* Backfill proved, for every page size, retry limit, channel size,        *)
(* window, bucket and initial database:                                    *)
(*  - its types, the bound on records_processed, the dead branch that goes *)
(*    back to a gap, and saves that only go forward;                       *)
(*  - what its checkpoint may be trusted for: positions whose time and     *)
(*    cursor agree, and hours that were read, through pages in flight,     *)
(*    skips, resets, errors and crashes;                                   *)
(*  - from these and from the order of its pages, that it implements       *)
(*    CheckpointedReader, and that a run which reaches the end of its      *)
(*    window leaves out no hour of it;                                     *)
(*  - that the rounds of PeriodicBackfill together leave out none;         *)
(*  - that its guard against going back refuses no page, and no checkpoint *)
(*    gets ahead of the clock, under conditions that are stated;           *)
(*  - how far a run up to now has read when it returns Ok, which the       *)
(*    command relies on that then goes live.                               *)
(***************************************************************************)
EXTENDS PeriodicBackfill, IngestLemmas, SequenceTheorems

(* Not only the saved count, the one of the run in progress is bounded too:   *)
(* the next save takes it from there.                                         *)
CountsOK == /\ ckpt.records <= Cardinality(fills)
            /\ mem.records <= Cardinality(fills)
            /\ total <= Cardinality(fills)

IInv == TypeOK /\ CountsOK

-----------------------------------------------------------------------------
LEMMA InitInv == Init => IInv
<1> SUFFICES ASSUME Init PROVE IInv
  OBVIOUS
<1>1. fills \in Batches /\ ckpt \in Checkpoint /\ ckpt.records <= Cardinality(fills)
  BY BackfillAssumption DEF Init
<1>2. NewCheckpoint \in Checkpoint /\ NewCheckpoint.records = 0
  BY DEF NewCheckpoint, Checkpoint, Cursors
<1>3. Cardinality(fills) \in Nat
  BY <1>1, FS_CardinalityType DEF Batches
<1>4. CountsOK
  BY <1>1, <1>2, <1>3 DEF Init, CountsOK
<1>5. channel \in Seq(Pages)
  BY DEF Init
<1>6. EnvOK /\ DbOK
  BY <1>1, BackfillAssumption DEF Init, EnvOK, DbOK
<1>7. MainOK
  BY <1>2 DEF Init, MainOK
<1>8. FetcherOK
  BY <1>5 DEF Init, FetcherOK, Cursors
<1> QED BY <1>4, <1>6, <1>7, <1>8 DEF IInv, TypeOK

-----------------------------------------------------------------------------
(* Leaving run_backfill, by any of its exits, keeps the types. *)
LEMMA EndRunInv ==
  ASSUME TypeOK, CountsOK, NEW how \in {"ok", "complete", "failed"}, EndRun(how),
         UNCHANGED env, fills' \in Batches, ckpt' \in Checkpoint,
         ckpt'.records <= Cardinality(fills'), UNCHANGED runs, faults' \in Nat
  PROVE  IInv'
<1>1. NewCheckpoint \in Checkpoint /\ NewCheckpoint.records = 0
  BY DEF NewCheckpoint, Checkpoint, Cursors
<1>2. Cardinality(fills') \in Nat
  BY FS_CardinalityType DEF Batches
<1>3. CountsOK'
  BY <1>1, <1>2 DEF EndRun, CountsOK
<1>4. EnvOK' /\ DbOK'
  BY DEF TypeOK, EnvOK, DbOK, EndRun, env
<1>5. MainOK'
  BY <1>1 DEF TypeOK, MainOK, EndRun
<1>6. channel' \in Seq(Pages)
  BY DEF EndRun
<1>7. FetcherOK'
  BY <1>6 DEF FetcherOK, EndRun, Cursors
<1> QED BY <1>3, <1>4, <1>5, <1>7 DEF IInv, TypeOK

-----------------------------------------------------------------------------
(* A checkpoint moved back to a gap is a checkpoint with the same count. *)
LEMMA BackToType ==
  ASSUME NEW c \in Checkpoint, NEW gap \in Int
  PROVE  BackTo(c, gap) \in Checkpoint /\ BackTo(c, gap).records = c.records
<1>1. HourStart(gap) \in Int
  BY TimeTypes, Zenon
<1>2. CursorAt(HourStart(gap)) \in Cursors /\ HourStart(gap) - 1 \in Int
  BY <1>1, TimeTypes DEF Cursors
<1> QED BY <1>2 DEF BackTo, Checkpoint

(* A run begins with a checkpoint, refreshed or not. *)
LEMMA BeginRunInv ==
  ASSUME IInv, NEW w, w.start \in Nat, w.end \in Nat, BeginRun(w)
  PROVE  IInv'
<1> DEFINE gaps == GapsBelow(ckpt, w.start, w.end)
<1> USE DEF IInv, TypeOK
<1>1. w.start \in Nat /\ w.end \in Nat /\ RefreshGap \in Nat /\ ckpt \in Checkpoint
  BY BackfillAssumption DEF DbOK
<1>2. mem' \in Checkpoint /\ mem'.records = ckpt.records
  <2>1. CASE ~Refreshes(gaps)
    BY <1>1, <2>1 DEF BeginRun
  <2>2. CASE Refreshes(gaps)
    <3>1. mem' = BackTo(ckpt, Min(gaps))
      BY <2>2 DEF BeginRun
    <3>2. Cardinality(gaps) > RefreshGap
      BY <2>2 DEF Refreshes
    <3>3. CASE ckpt.ts = None
      <4>1. gaps = {}
        BY <3>3 DEF GapsBelow
      <4> QED BY <4>1, <3>2, <1>1, FS_EmptySet
    <3>4. CASE ckpt.ts # None
      <4>1. ckpt.ts \in Int
        BY <1>1, <3>4 DEF Checkpoint
      <4>2. PICK upto \in Int : gaps = Missing(fills, w.start, upto)
        BY <1>1, <3>4, <4>1 DEF GapsBelow
      <4> HIDE DEF gaps
      <4>3. Min(gaps) \in Int
        BY <1>1, <3>2, <4>2, FirstGapType
      <4> QED BY <1>1, <3>1, <4>3, BackToType
    <3> QED BY <3>3, <3>4
  <2> QED BY <2>1, <2>2
<1>3. ckpt' = mem' /\ UNCHANGED <<fills, total>>
  BY DEF BeginRun
<1>4. EnvOK' /\ DbOK' /\ CountsOK'
  BY <1>2, <1>3 DEF BeginRun, EnvOK, DbOK, CountsOK, env
<1>5. MainOK'
  BY <1>1, <1>2 DEF BeginRun, MainOK
<1>6. FetcherOK'
  BY DEF BeginRun, FetcherOK, task
<1> QED BY <1>4, <1>5, <1>6

(* The fetcher starts at an integer time with a cursor or none. *)
LEMMA DecideFetchInv ==
  ASSUME IInv, DecideFetch
  PROVE  IInv'
<1> USE DEF IInv, TypeOK
<1>1. /\ start \in Int /\ mem.cursor \in Cursors /\ mem.records \in Nat
      /\ mem.ts # None => mem.ts \in Int
  BY DEF MainOK, Checkpoint
<1>2. StartPosition \in Int /\ StartCursor \in Cursors
  <2>1. CASE ~GoesBack
    BY <1>1, <2>1 DEF StartPosition, StartCursor, ContinuesFromCheckpoint, Cursors
  <2>2. CASE GoesBack
    <3>1. Min(GapsAfterStart) \in Int
      <4>1. Cardinality(GapsAfterStart) > GoBackGap /\ GoBackGap \in Nat
        BY <2>2, BackfillAssumption DEF GoesBack
      <4>2. mem.ts \in Int
        BY <1>1, <2>2 DEF GoesBack, ContinuesFromCheckpoint
      <4>3. GapsAfterStart \subseteq Missing(fills, start, mem.ts)
        BY DEF GapsAfterStart
      <4> QED BY <1>1, <4>1, <4>2, <4>3, FirstGapType
    <3>2. HourStart(Min(GapsAfterStart)) \in Int
      BY <3>1, TimeTypes, Zenon
    <3>3. CursorAt(HourStart(Min(GapsAfterStart))) \in Cursors
      BY <3>2, TimeTypes, Zenon DEF Cursors
    <3> QED BY <2>2, <3>2, <3>3 DEF StartPosition, StartCursor
  <2> QED BY <2>1, <2>2
<1>3. EnvOK' /\ DbOK' /\ CountsOK'
  BY <1>1 DEF DecideFetch, EnvOK, DbOK, CountsOK, CarriedTotal, env, db, bound
<1>4. MainOK'
  BY <1>1 DEF DecideFetch, MainOK, CarriedTotal
<1>5. FetcherOK'
  BY <1>2 DEF DecideFetch, FetcherOK
<1> QED BY <1>3, <1>4, <1>5

-----------------------------------------------------------------------------
(* The steps of the fetcher leave the database and the main task alone. *)
LEMMA FetcherInv ==
  ASSUME IInv, FetcherStep
  PROVE  IInv'
<1> USE DEF IInv, TypeOK
<1>1. UNCHANGED <<env, db, run, result, runs>> /\ (faults' = faults \/ Fault)
  BY DEF FetcherStep, FetcherInit, FetcherReachesEnd, FetcherSkips, FetchCall,
         FetchReturn, FetchError, FetcherSend, bound
<1>2. EnvOK' /\ DbOK' /\ CountsOK' /\ MainOK'
  BY <1>1 DEF EnvOK, DbOK, CountsOK, MainOK, Fault, env, db, run
<1>3. HourEnd \in Int /\ ReadPosition(curStart, cursor) \in Int
  <2>1. HourOf(curStart) \in Int
    BY TimeTypes, Zenon DEF FetcherOK
  <2>2. HourOf(curStart) + 1 \in Int
    BY <2>1
  <2> QED BY <2>2, TimeTypes DEF HourEnd, ReadPosition, Cursors, FetcherOK
<1>4. FetcherOK'
  <2>1. CASE FetcherInit
    <3>1. Missing(fills, curStart, end) \in SUBSET Int
      BY MissingType DEF FetcherOK, MainOK
    <3> QED BY <2>1, <3>1 DEF FetcherInit, FetcherOK
  <2>2. CASE FetcherReachesEnd
    BY <2>2 DEF FetcherReachesEnd, FetcherOK
  <2>3. CASE FetcherSkips
    <3>1. CursorAt(HourEnd) \in Cursors
      BY <1>3, TimeTypes, Zenon DEF Cursors
    <3> QED BY <1>3, <2>3, <3>1 DEF FetcherSkips, FetcherOK
  <2>4. CASE FetchCall
    <3>1. now \in Int
      BY DEF EnvOK
    <3>2. HoursUntilNow(ReadPosition(curStart, cursor), now) \in 0..PageHours
      BY <1>3, <3>1, HoursUntilNowType
    <3> QED BY <2>4, <3>2 DEF FetchCall, FetcherOK
  <2>5. CASE FetchReturn
    <3> DEFINE pos == ReadPosition(curStart, cursor)
    <3>1. PICK failing : page' = FetchPage(pos, reading, published, failing, now)
      BY <2>5 DEF FetchReturn
    <3>2. reading \in 0..PageHours /\ now \in Int /\ published \in SUBSET Hours
      BY <2>5 DEF FetchReturn, FetcherOK, EnvOK
    <3>3. page' \in Pages
      BY <1>3, <3>1, <3>2, FetchPageType
    <3>4. cursor' \in Cursors /\ page'.fills \in Batches
      BY <2>5, <3>3 DEF FetchReturn, Pages
    <3>5. curStart' \in Int
      BY <1>3, <2>5, <3>4, BatchTypes DEF FetchReturn, NextStart
    <3> QED BY <2>5, <3>3, <3>4, <3>5 DEF FetchReturn, FetcherOK
  <2>6. CASE FetchError
    BY <2>6 DEF FetchError, FetcherOK
  <2>7. CASE FetcherSend
    BY <2>7 DEF FetcherSend, FetcherOK
  <2> QED BY <2>1, <2>2, <2>3, <2>4, <2>5, <2>6, <2>7 DEF FetcherStep
<1> QED BY <1>2, <1>4

-----------------------------------------------------------------------------
(* The steps of the main task: what is counted has been inserted. *)
LEMMA RecvInv ==
  ASSUME IInv, Recv
  PROVE  IInv'
<1> USE DEF IInv, TypeOK
<1>1. Head(channel) \in Pages /\ Tail(channel) \in Seq(Pages)
  BY HeadTailProperties DEF Recv, FetcherOK
<1>2. EnvOK' /\ DbOK' /\ CountsOK'
  BY DEF Recv, EnvOK, DbOK, CountsOK, env, db, bound
<1>3. MainOK'
  BY <1>1 DEF Recv, MainOK
<1>4. FetcherOK'
  BY <1>1 DEF Recv, FetcherOK, task
<1> QED BY <1>2, <1>3, <1>4

LEMMA InsertOkInv ==
  ASSUME IInv, InsertOk
  PROVE  IInv'
<1> USE DEF IInv, TypeOK
<1>1. /\ work.fills \in Batches /\ work.cursor \in Cursors /\ fills \in Batches
      /\ total \in Nat /\ mem \in Checkpoint /\ ckpt \in Checkpoint
  BY DEF InsertOk, MainOK, DbOK, Pages
<1>2. /\ Cardinality(fills) \in Nat /\ Inserted \in Nat
      /\ Cardinality(fills') = Cardinality(fills) + Inserted
  BY <1>1, InsertGrows DEF InsertOk, Inserted
<1>3. fills' \in Batches
  BY <1>1, BatchTypes DEF InsertOk
<1>4. mem' \in Checkpoint /\ mem'.records <= Cardinality(fills')
  <2>1. CASE ShouldUpdate
    <3>1. Max(work.fills) \in Int
      BY <1>1, <2>1, BatchTypes DEF ShouldUpdate
    <3>2. mem' = [cursor |-> work.cursor, ts |-> Max(work.fills),
                  records |-> total + Inserted]
      BY <2>1 DEF InsertOk, MemAfter
    <3>3. total + Inserted \in Nat /\ total + Inserted <= Cardinality(fills')
      BY <1>1, <1>2 DEF CountsOK
    <3> QED BY <1>1, <3>1, <3>2, <3>3 DEF Checkpoint
  <2>2. CASE ~ShouldUpdate
    <3>1. mem' = mem
      BY <2>2 DEF InsertOk, MemAfter
    <3>2. mem.records \in Nat /\ mem.records <= Cardinality(fills)
      BY <1>1 DEF Checkpoint, CountsOK
    <3> QED BY <1>1, <1>2, <3>1, <3>2
  <2> QED BY <2>1, <2>2
<1>5. ckpt' \in Checkpoint /\ ckpt'.records <= Cardinality(fills')
  <2>1. ckpt' = ckpt \/ ckpt' = mem'
    BY DEF InsertOk
  <2>2. ckpt.records \in Nat /\ ckpt.records <= Cardinality(fills)
    BY <1>1 DEF Checkpoint, CountsOK
  <2> QED BY <1>1, <1>2, <1>4, <2>1, <2>2
<1>6. CountsOK'
  BY <1>1, <1>2, <1>4, <1>5 DEF CountsOK, InsertOk
<1>7. EnvOK' /\ DbOK'
  BY <1>3, <1>5 DEF InsertOk, EnvOK, DbOK, env, bound
<1>8. MainOK'
  BY <1>1, <1>2, <1>4 DEF InsertOk, MainOK, ShouldUpdate
<1>9. FetcherOK'
  BY DEF InsertOk, FetcherOK, task
<1> QED BY <1>6, <1>7, <1>8, <1>9

LEMMA InsertErrorInv ==
  ASSUME IInv, InsertError
  PROVE  IInv'
<1> USE DEF IInv, TypeOK
<1>1. PICK stored \in Prefixes(work.fills) : fills' = fills \cup stored
  BY DEF InsertError
<1>2. work.fills \in Batches /\ fills \in Batches
  BY DEF InsertError, MainOK, DbOK, Pages
<1>3. stored \in Batches /\ fills' \in Batches
  BY <1>1, <1>2, BatchTypes
<1>4. Cardinality(fills) \in Nat /\ Cardinality(fills') \in Nat
      /\ Cardinality(fills) <= Cardinality(fills')
  <2>1. /\ Cardinality(fills) \in Nat /\ Cardinality(stored \ fills) \in Nat
        /\ Cardinality(fills') = Cardinality(fills) + Cardinality(stored \ fills)
    BY <1>1, <1>2, <1>3, InsertGrows, Zenon
  <2> QED BY <2>1
<1>5. /\ ckpt' = ckpt /\ UNCHANGED <<now, published, runs>> /\ faults' \in Nat
  BY DEF InsertError, Fault, EnvOK, env
<1>6. ckpt' \in Checkpoint /\ ckpt'.records <= Cardinality(fills')
  BY <1>4, <1>5 DEF DbOK, CountsOK, Checkpoint
<1>7. CASE EndRun("failed")
  BY <1>3, <1>5, <1>6, <1>7, EndRunInv DEF env
<1>8. CASE ~EndRun("failed")
  <2>1. /\ insertTries' = insertTries + 1
        /\ UNCHANGED <<main, start, end, mem, total, updated, work, task, channel,
                       result>>
    BY <1>8 DEF InsertError
  <2>2. EnvOK' /\ DbOK'
    BY <1>3, <1>5, <1>6, <2>1 DEF EnvOK, DbOK
  <2>3. CountsOK'
    BY <1>4, <1>6, <2>1 DEF CountsOK, MainOK, Checkpoint
  <2>4. MainOK' /\ FetcherOK'
    BY <2>1 DEF MainOK, FetcherOK, task
  <2> QED BY <2>2, <2>3, <2>4
<1> QED BY <1>7, <1>8

LEMMA FinishInv ==
  ASSUME IInv, Finish
  PROVE  IInv'
<1> USE DEF IInv, TypeOK
<1>1. PICK how \in {"ok", "failed"} : EndRun(how)
  BY DEF Finish
<1>2. ckpt' = ckpt \/ ckpt' = mem
  BY DEF Finish
<1>3. UNCHANGED <<env, fills, runs, faults>>
  BY DEF Finish, bound
<1>4. /\ fills' \in Batches /\ ckpt' \in Checkpoint
      /\ ckpt'.records <= Cardinality(fills') /\ faults' \in Nat
  BY <1>2, <1>3 DEF DbOK, MainOK, EnvOK, CountsOK
<1> QED BY <1>1, <1>3, <1>4, EndRunInv

-----------------------------------------------------------------------------
(* Every step keeps the inductive invariant. *)
LEMMA StepInv == IInv /\ [Next]_vars => IInv'
<1> SUFFICES ASSUME IInv, [Next]_vars PROVE IInv'
  OBVIOUS
<1> USE DEF IInv, TypeOK
<1>1. CASE Tick
  BY <1>1 DEF Tick, EnvOK, DbOK, MainOK, FetcherOK, CountsOK, db, run, task, bound
<1>2. ASSUME NEW h \in Hours, Publish(h) PROVE IInv'
  BY <1>2 DEF Publish, EnvOK, DbOK, MainOK, FetcherOK, CountsOK, db, run, task, bound
<1>3. CASE Crash
  BY <1>3, EndRunInv DEF Crash, Fault, EnvOK, DbOK, CountsOK, db
<1>4. ASSUME NEW w \in Windows, BeginRun(w) PROVE IInv'
  BY <1>4, BeginRunInv, BackfillAssumption
<1>5. CASE MainStep
  <2>1. CASE DecideComplete
    BY <2>1, EndRunInv DEF DecideComplete, EnvOK, DbOK, CountsOK, db, bound
  <2> QED BY <1>5, <2>1, DecideFetchInv, RecvInv, InsertOkInv, InsertErrorInv,
             FinishInv DEF MainStep
<1>6. CASE FetcherStep
  BY <1>6, FetcherInv
<1>7. CASE UNCHANGED vars
  BY <1>7 DEF vars, env, db, run, task, bound, EnvOK, DbOK, MainOK, FetcherOK,
              CountsOK
<1> QED BY <1>1, <1>2, <1>3, <1>4, <1>5, <1>6, <1>7 DEF Next, Rest

(* Type correctness: every variable of the pipeline keeps to its set, and a   *)
(* task that fetches, sends or inserts holds what it needs for it.            *)
THEOREM TypeCorrect == Spec => []TypeOK
<1>1. IInv => TypeOK
  BY DEF IInv
<1> QED BY <1>1, InitInv, StepInv, PTL DEF Spec

(* records_processed never counts a fill twice, whatever is retried, replayed *)
(* after a crash or fetched again, by however many runs.                      *)
THEOREM CountNeverExceedsTable == Spec => []RecordsBounded
<1>1. IInv => RecordsBounded
  BY DEF IInv, CountsOK, RecordsBounded
<1> QED BY <1>1, InitInv, StepInv, PTL DEF Spec

-----------------------------------------------------------------------------
(* When a run begins without a reset, the gaps below its checkpoint are no    *)
(* more than RefreshGap; after a reset there are none below it at all.        *)
LEMMA BeginRunGaps ==
  ASSUME IInv, NEW w \in Windows, BeginRun(w), RefreshGap <= GoBackGap
  PROVE  GoBackUnreachable'
<1> DEFINE gaps == GapsBelow(ckpt, w.start, w.end)
<1>1. /\ w.start \in Int /\ w.end \in Int /\ RefreshGap \in Nat /\ GoBackGap \in Nat
      /\ ckpt \in Checkpoint /\ fills \in Batches
  BY BackfillAssumption DEF IInv, TypeOK, DbOK
<1>2. start' = w.start /\ end' = w.end /\ fills' = fills
  BY DEF BeginRun
<1>3. SUFFICES ASSUME ~EndsBehindCheckpoint', GoesBack' PROVE FALSE
  BY DEF GoBackUnreachable
<1>4. /\ mem'.ts # None /\ ~(mem'.ts >= w.end)
      /\ GapsAfterStart' \subseteq Missing(fills, w.start, mem'.ts)
      /\ Cardinality(GapsAfterStart') > GoBackGap
  BY <1>2, <1>3 DEF EndsBehindCheckpoint, GoesBack, ContinuesFromCheckpoint,
                    GapsAfterStart
<1>5. CASE ~Refreshes(gaps)
  <2>1. mem' = ckpt /\ ckpt.ts \in Int /\ ckpt.ts < w.end
    BY <1>1, <1>4, <1>5 DEF BeginRun, Checkpoint
  <2>2. gaps = Missing(fills, w.start, ckpt.ts)
    BY <1>4, <2>1 DEF GapsBelow
  <2>3. IsFiniteSet(gaps) /\ Cardinality(gaps) <= RefreshGap
    <3>1. IsFiniteSet(gaps)
      BY <1>1, <2>1, <2>2, MissingFinite
    <3>2. Cardinality(gaps) \in Nat
      BY <3>1, FS_CardinalityType
    <3> QED BY <1>1, <1>5, <3>1, <3>2 DEF Refreshes
  <2>4. /\ Cardinality(GapsAfterStart') <= Cardinality(gaps)
        /\ Cardinality(GapsAfterStart') \in Nat /\ Cardinality(gaps) \in Nat
    <3>1. GapsAfterStart' \in SUBSET gaps
      BY <1>4, <2>1, <2>2
    <3> QED BY <2>3, <3>1, FS_Subset, FS_CardinalityType
  <2> QED BY <1>1, <1>4, <2>3, <2>4
<1>6. CASE Refreshes(gaps)
  <2>1. ckpt.ts # None
    <3>1. gaps = {} => Cardinality(gaps) = 0
      BY FS_EmptySet
    <3> QED BY <1>1, <1>6, <3>1 DEF GapsBelow, Refreshes
  <2>2. PICK upto \in Int : gaps = Missing(fills, w.start, upto)
    <3>1. ckpt.ts \in Int
      BY <1>1, <2>1 DEF Checkpoint
    <3> QED BY <1>1, <2>1, <3>1 DEF GapsBelow
  <2>3. IsFiniteSet(gaps) /\ gaps \in SUBSET Int /\ gaps # {}
    <3>1. Cardinality(gaps) > RefreshGap
      BY <1>6 DEF Refreshes
    <3>2. gaps # {}
      BY <1>1, <3>1, FS_EmptySet
    <3> QED BY <1>1, <2>2, <3>2, MissingFinite, MissingType
  <2>4. mem'.ts = HourStart(Min(gaps)) - 1
    BY <1>1, <1>6 DEF BeginRun, BackTo, Checkpoint
  <2> HIDE DEF gaps
  <2>5. Min(gaps) \in gaps /\ Min(gaps) \in Int /\ \A h \in gaps : Min(gaps) <= h
    BY <2>3, MinProperties
  <2>6. /\ HourStart(Min(gaps)) \in Int /\ mem'.ts \in Int
        /\ HourOf(mem'.ts) \in Int /\ HourOf(upto) \in Int
    <3>1. HourStart(Min(gaps)) \in Int /\ HourOf(upto) \in Int
      BY <2>5, TimeTypes, Zenon
    <3>2. mem'.ts \in Int
      BY <2>4, <3>1
    <3> QED BY <3>1, <3>2, TimeTypes, Zenon
  <2>7. HourOf(mem'.ts) < Min(gaps) /\ Min(gaps) < HourOf(upto)
    <3>1. mem'.ts < HourStart(Min(gaps))
      BY <2>4, <2>6
    <3>2. HourOf(mem'.ts) < Min(gaps)
      BY <2>5, <2>6, <3>1, HourBounds
    <3>3. HourOf(w.start) \in Int
      BY <1>1, TimeTypes
    <3>4. Min(gaps) \in HourOf(w.start) .. (HourOf(upto) - 1)
      BY <2>2, <2>5 DEF Missing
    <3> QED BY <2>5, <2>6, <3>2, <3>3, <3>4
  <2>8. ASSUME NEW h \in Missing(fills, w.start, mem'.ts) PROVE FALSE
    <3>1. HourOf(w.start) \in Int
      BY <1>1, TimeTypes
    <3>2. h \in Int /\ h < HourOf(mem'.ts)
      BY <2>6, <3>1 DEF Missing
    <3>3. h < Min(gaps) /\ h < HourOf(upto)
      BY <2>5, <2>6, <2>7, <3>2
    <3>4. h \in gaps
      BY <1>1, <2>2, <2>6, <3>3, MissingByHour
    <3> QED BY <2>5, <3>2, <3>3, <3>4
  <2>9. GapsAfterStart' = {}
    BY <1>4, <2>8
  <2> QED BY <1>1, <1>4, <2>9, FS_EmptySet
<1> QED BY <1>5, <1>6

LEMMA GoBackStep ==
  ASSUME RefreshGap <= GoBackGap, IInv, GoBackUnreachable, [Next]_vars
  PROVE  GoBackUnreachable'
<1>1. CASE UNCHANGED <<main, start, end, mem, fills>>
  BY <1>1 DEF GoBackUnreachable, EndsBehindCheckpoint, GoesBack,
              ContinuesFromCheckpoint, GapsAfterStart
<1>2. ASSUME NEW w \in Windows, BeginRun(w) PROVE GoBackUnreachable'
  BY <1>2, BeginRunGaps
<1>3. CASE main' # "decide"
  BY <1>3 DEF GoBackUnreachable
<1>4. Tick \/ (\E h \in Hours : Publish(h)) \/ FetcherStep \/ UNCHANGED vars
        => UNCHANGED <<main, start, end, mem, fills>>
  BY DEF Tick, Publish, FetcherStep, FetcherInit, FetcherReachesEnd, FetcherSkips,
         FetchCall, FetchReturn, FetchError, FetcherSend, vars, run, db
<1>5. MainStep \/ Crash => main' # "decide"
  BY DEF MainStep, Crash, EndRun, DecideComplete, DecideFetch, Recv, InsertOk,
         InsertError, Finish
<1> QED BY <1>1, <1>2, <1>3, <1>4, <1>5 DEF Next, Rest

(* The branch that goes back to the first gap is dead for every window and    *)
(* table, as long as its threshold is not below the one of the reset, as 24   *)
(* is not below 12 (pipeline.rs 60, 147).                                     *)
THEOREM GoBackIsDead == RefreshGap <= GoBackGap => (Spec => []GoBackUnreachable)
<1> SUFFICES ASSUME RefreshGap <= GoBackGap PROVE Spec => []GoBackUnreachable
  OBVIOUS
<1>1. Init => GoBackUnreachable
  BY DEF Init, GoBackUnreachable
<1>2. IInv /\ GoBackUnreachable /\ [Next]_vars => GoBackUnreachable'
  BY GoBackStep
<1> QED BY <1>1, <1>2, InitInv, StepInv, PTL DEF Spec

-----------------------------------------------------------------------------
(* What a run would save next is not behind what is saved: the checkpoint in  *)
(* memory began as the saved one, and the running count as its count.         *)
RunAhead ==
  /\ main # "idle" => /\ ckpt.records <= mem.records
                      /\ ckpt.ts # None => mem.ts # None /\ ckpt.ts <= mem.ts
  /\ main \in {"recv", "insert"} => mem.records <= total

Forward == main # "idle" => /\ ckpt'.records >= ckpt.records
                            /\ ckpt.ts # None => ckpt'.ts >= ckpt.ts

LEMMA InsertForward ==
  ASSUME IInv, RunAhead, InsertOk
  PROVE  RunAhead' /\ Forward
<1>1. /\ work.fills \in Batches /\ fills \in Batches /\ total \in Nat
      /\ mem \in Checkpoint /\ ckpt \in Checkpoint /\ main = "insert" /\ main' = "recv"
  BY DEF IInv, TypeOK, MainOK, DbOK, Pages, InsertOk
<1>2. Inserted \in Nat /\ total' = total + Inserted
  BY <1>1, InsertGrows DEF InsertOk, Inserted
<1>3. /\ mem.records \in Nat /\ ckpt.records \in Nat
      /\ mem.ts # None => mem.ts \in Int
      /\ ckpt.ts # None => ckpt.ts \in Int
  BY <1>1 DEF Checkpoint
<1>4. /\ ckpt.records <= mem.records /\ mem.records <= total
      /\ ckpt.ts # None => mem.ts # None /\ ckpt.ts <= mem.ts
  BY <1>1 DEF RunAhead
<1>5. /\ mem.records <= mem'.records /\ mem'.records <= total' /\ mem'.records \in Nat
      /\ mem.ts # None => mem'.ts # None /\ mem.ts <= mem'.ts /\ mem'.ts \in Int
  <2>1. CASE ShouldUpdate
    <3>1. Max(work.fills) \in Int /\ (mem.ts # None => Max(work.fills) >= mem.ts)
      BY <1>1, <2>1, BatchTypes DEF ShouldUpdate
    <3>2. mem' = [cursor |-> work.cursor, ts |-> Max(work.fills),
                  records |-> total + Inserted]
      BY <2>1 DEF InsertOk, MemAfter
    <3>3. Max(work.fills) # None
      BY <3>1, NoneAssumption
    <3> QED BY <1>1, <1>2, <1>3, <1>4, <3>1, <3>2, <3>3
  <2>2. CASE ~ShouldUpdate
    <3>1. mem' = mem
      BY <2>2 DEF InsertOk, MemAfter
    <3> QED BY <1>1, <1>2, <1>3, <1>4, <3>1
  <2> QED BY <2>1, <2>2
<1>6. ckpt' = ckpt \/ ckpt' = mem'
  BY DEF InsertOk
<1>7. Forward
  BY <1>3, <1>4, <1>5, <1>6 DEF Forward
<1>8. RunAhead'
  <2>1. CASE ckpt' = ckpt
    BY <1>1, <1>3, <1>4, <1>5, <2>1 DEF RunAhead
  <2>2. CASE ckpt' = mem'
    <3>1. mem'.ts # None => mem'.ts \in Int
      <4>1. CASE ShouldUpdate
        BY <1>1, <4>1, BatchTypes DEF ShouldUpdate, InsertOk, MemAfter
      <4>2. CASE ~ShouldUpdate
        BY <1>3, <4>2 DEF InsertOk, MemAfter
      <4> QED BY <4>1, <4>2
    <3> QED BY <1>1, <1>5, <2>2, <3>1 DEF RunAhead
  <2> QED BY <1>6, <2>1, <2>2
<1> QED BY <1>7, <1>8

LEMMA StepForward == IInv /\ RunAhead /\ [Next]_vars => RunAhead' /\ Forward
<1> SUFFICES ASSUME IInv, RunAhead, [Next]_vars PROVE RunAhead' /\ Forward
  OBVIOUS
<1>1. /\ mem \in Checkpoint /\ ckpt \in Checkpoint /\ mem.records \in Nat
      /\ ckpt.records \in Nat /\ (ckpt.ts # None => ckpt.ts \in Int)
      /\ (mem.ts # None => mem.ts \in Int)
  BY DEF IInv, TypeOK, MainOK, DbOK, Checkpoint
<1>2. CASE UNCHANGED <<main, mem, ckpt, total>>
  BY <1>1, <1>2 DEF RunAhead, Forward
<1>3. ASSUME NEW w \in Windows, BeginRun(w) PROVE RunAhead' /\ Forward
  <2>1. main = "idle" /\ main' = "decide" /\ ckpt' = mem'
    BY <1>3 DEF BeginRun
  <2>2. mem' \in Checkpoint
    BY <1>3, <2>1, BeginRunInv, BackfillAssumption DEF IInv, TypeOK, MainOK
  <2>3. mem'.records \in Nat /\ (mem'.ts # None => mem'.ts \in Int)
    BY <2>2 DEF Checkpoint
  <2> QED BY <2>1, <2>3 DEF RunAhead, Forward
<1>4. CASE DecideFetch
  <2>1. /\ main = "decide" /\ main' = "recv" /\ total' = mem.records
        /\ mem' = mem /\ ckpt' = ckpt
    BY <1>4 DEF DecideFetch, CarriedTotal, db
  <2> QED BY <1>1, <2>1 DEF RunAhead, Forward
<1>5. CASE Recv
  <2>1. /\ main = "recv" /\ main' = "insert" /\ total' = total
        /\ mem' = mem /\ ckpt' = ckpt
    BY <1>5 DEF Recv, db
  <2> QED BY <1>1, <2>1 DEF RunAhead, Forward
<1>6. CASE Crash \/ DecideComplete
  <2>1. main' = "idle" /\ ckpt' = ckpt
    BY <1>6 DEF Crash, DecideComplete, EndRun, db
  <2> QED BY <1>1, <2>1 DEF RunAhead, Forward
<1>7. CASE InsertError
  <2>1. ckpt' = ckpt /\ (main' = "idle" \/ UNCHANGED <<main, mem, total>>)
    BY <1>7 DEF InsertError, EndRun
  <2> QED BY <1>1, <1>2, <2>1 DEF RunAhead, Forward
<1>8. CASE Finish
  <2>1. main = "recv" /\ main' = "idle" /\ (ckpt' = mem \/ ckpt' = ckpt)
    BY <1>8 DEF Finish, EndRun
  <2> QED BY <1>1, <2>1 DEF RunAhead, Forward
<1>9. CASE Tick \/ (\E h \in Hours : Publish(h)) \/ FetcherStep \/ UNCHANGED vars
  BY <1>2, <1>9 DEF Tick, Publish, FetcherStep, FetcherInit, FetcherReachesEnd,
     FetcherSkips, FetchCall, FetchReturn, FetchError, FetcherSend, vars, run, db
<1> QED BY <1>3, <1>4, <1>5, <1>6, <1>7, <1>8, <1>9, InsertForward
           DEF Next, MainStep, Rest

(* No step of a run saves a checkpoint that is earlier or counts less than    *)
(* the one that is saved; only the reset at its beginning goes back.          *)
THEOREM SavesGoForward == Spec => SavesMoveForward
<1>1. Init => RunAhead
  BY DEF Init, RunAhead
<1>2. Spec => [](IInv /\ RunAhead)
  BY <1>1, InitInv, StepInv, StepForward, PTL DEF Spec
<1>3. IInv /\ RunAhead /\ [Next]_vars
        => [main # "idle" => /\ ckpt'.records >= ckpt.records
                             /\ ckpt.ts # None => ckpt'.ts >= ckpt.ts]_vars
  BY StepForward DEF Forward
<1> QED BY <1>2, <1>3, PTL DEF Spec, SavesMoveForward

-----------------------------------------------------------------------------
(* Every fill of a page lies before the page's cursor. *)
EndsBeforeCursor(got) ==
  got.cursor # None => \A f \in got.fills : f < CursorTime(got.cursor)

(* The two halves agree in each place a position is kept or travels through:  *)
(* the row, the checkpoint in memory, the fetcher, and the pages on their way.*)
Positions ==
  /\ TimeAndCursorAgree(ckpt) /\ TimeAndCursorAgree(mem)
  /\ fetcher # "off" /\ cursor # None => HourOf(curStart) <= CursorHour(cursor)
  /\ main = "insert" => EndsBeforeCursor(work)
  /\ \A i \in DOMAIN channel : EndsBeforeCursor(channel[i])
  /\ fetcher = "send" => EndsBeforeCursor(page)

LEMMA NewAgrees == TimeAndCursorAgree(NewCheckpoint)
  BY DEF TimeAndCursorAgree, NewCheckpoint

(* A checkpoint moved back to a gap keeps a time one tick before its cursor.  *)
LEMMA BackToAgrees ==
  ASSUME NEW c \in Checkpoint, NEW gap \in Int
  PROVE  /\ TimeAndCursorAgree(BackTo(c, gap)) /\ ResumeHour(BackTo(c, gap)) = gap
         /\ BackTo(c, gap).ts = HourStart(gap) - 1
         /\ BackTo(c, gap).cursor \in [date : Int, hour : Int]
<1>1. HourStart(gap) \in Int
  BY TimeTypes
<1>2. /\ CursorAt(HourStart(gap)) \in [date : Int, hour : Int]
      /\ CursorHour(CursorAt(HourStart(gap))) = gap
  BY <1>1, TimeTypes, CursorRoundTrip, HourBounds
<1>3. CursorAt(HourStart(gap)) # None
  BY <1>2, NoneAssumption
<1>4. /\ BackTo(c, gap).cursor = CursorAt(HourStart(gap))
      /\ BackTo(c, gap).ts = HourStart(gap) - 1
  BY DEF BackTo, Checkpoint
<1> QED BY <1>1, <1>2, <1>3, <1>4 DEF TimeAndCursorAgree, ResumeHour, CursorTime

(* The gaps that make a run reset its checkpoint are hours before the one it  *)
(* would have resumed at.                                                     *)
LEMMA ResetGoesBack ==
  ASSUME IInv, Positions, NEW w, w.start \in Nat, w.end \in Nat,
         Refreshes(GapsBelow(ckpt, w.start, w.end))
  PROVE  /\ Min(GapsBelow(ckpt, w.start, w.end)) \in Int
         /\ Min(GapsBelow(ckpt, w.start, w.end)) < ResumeHour(ckpt)
<1> DEFINE gaps == GapsBelow(ckpt, w.start, w.end)
<1>1. /\ w.start \in Int /\ w.end \in Int /\ RefreshGap \in Nat /\ ckpt \in Checkpoint
  BY BackfillAssumption DEF IInv, TypeOK, DbOK
<1>2. Cardinality(gaps) > RefreshGap
  BY DEF Refreshes
<1>3. gaps # {}
  BY <1>1, <1>2, FS_EmptySet
<1>4. ckpt.ts \in Int
  BY <1>1, <1>3 DEF GapsBelow, Checkpoint
<1>5. PICK upto \in Int : upto <= ckpt.ts /\ gaps = Missing(fills, w.start, upto)
  BY <1>1, <1>3, <1>4 DEF GapsBelow
<1> HIDE DEF gaps
<1>6. IsFiniteSet(gaps) /\ gaps \in SUBSET Int
  BY <1>1, <1>5, MissingFinite, MissingType
<1>7. Min(gaps) \in gaps /\ Min(gaps) \in Int
  BY <1>3, <1>6, MinProperties
<1>8. Min(gaps) < HourOf(upto) /\ HourOf(upto) \in Int
  <2>1. HourOf(w.start) \in Int /\ HourOf(upto) \in Int
    BY <1>1, TimeTypes
  <2>2. Min(gaps) \in HourOf(w.start) .. (HourOf(upto) - 1)
    BY <1>5, <1>7 DEF Missing
  <2> QED BY <1>7, <2>1, <2>2
<1>9. HourOf(upto) <= ResumeHour(ckpt) /\ ResumeHour(ckpt) \in Int
  <2>1. HourOf(upto) <= HourOf(ckpt.ts) /\ HourOf(ckpt.ts) \in Int
    BY <1>4, <1>5, HourMonotonic, TimeTypes
  <2>2. CASE ckpt.cursor = None
    BY <1>4, <1>8, <2>1, <2>2, NoneAssumption DEF ResumeHour
  <2>3. CASE ckpt.cursor # None
    <3>1. ckpt.cursor \in [date : Int, hour : Int]
      BY <1>1, <2>3 DEF Checkpoint, Cursors
    <3>2. ckpt.ts < CursorTime(ckpt.cursor)
      BY <1>3, <2>3 DEF Positions, TimeAndCursorAgree, gaps, GapsBelow
    <3>3. CursorHour(ckpt.cursor) \in Int
      BY <3>1, TimeTypes
    <3>4. HourOf(ckpt.ts) < CursorHour(ckpt.cursor)
      BY <1>4, <3>2, <3>3, HourBounds DEF CursorTime
    <3> QED BY <1>8, <2>1, <2>3, <3>3, <3>4 DEF ResumeHour
  <2> QED BY <2>2, <2>3
<1> QED BY <1>7, <1>8, <1>9 DEF gaps

-----------------------------------------------------------------------------
(* Positions, action by action. *)
LEMMA PositionsOf ==
  ASSUME IInv
  PROVE  /\ curStart \in Int /\ HourOf(curStart) \in Int
         /\ cursor # None => cursor \in [date : Int, hour : Int] /\ CursorHour(cursor) \in Int
         /\ ReadPosition(curStart, cursor) \in Int
         /\ HourOf(ReadPosition(curStart, cursor)) \in Int
         /\ HourOf(ReadPosition(curStart, cursor))
              = IF cursor = None THEN HourOf(curStart) ELSE CursorHour(cursor)
         /\ HourEnd \in Int /\ HourOf(HourEnd) = HourOf(curStart) + 1
<1>1. curStart \in Int /\ HourOf(curStart) \in Int
  BY TimeTypes DEF IInv, TypeOK, FetcherOK
<1>2. cursor # None => /\ cursor \in [date : Int, hour : Int] /\ CursorHour(cursor) \in Int
                       /\ CursorTime(cursor) \in Int
                       /\ HourOf(CursorTime(cursor)) = CursorHour(cursor)
  BY TimeTypes, CursorTimeHour DEF IInv, TypeOK, FetcherOK, Cursors
<1>3. HourEnd \in Int /\ HourOf(HourEnd) = HourOf(curStart) + 1
  BY <1>1, TimeTypes, HourBounds DEF HourEnd
<1> QED BY <1>1, <1>2, <1>3 DEF ReadPosition

LEMMA PositionsBeginRun ==
  ASSUME IInv, Positions, NEW w, w.start \in Nat, w.end \in Nat, BeginRun(w)
  PROVE  Positions'
<1> DEFINE gaps == GapsBelow(ckpt, w.start, w.end)
<1>1. TimeAndCursorAgree(mem')
  <2>1. CASE Refreshes(gaps)
    <3>1. mem' = BackTo(ckpt, Min(gaps)) /\ ckpt \in Checkpoint /\ Min(gaps) \in Int
      BY <2>1, ResetGoesBack DEF BeginRun, IInv, TypeOK, DbOK
    <3> QED BY <3>1, BackToAgrees
  <2>2. CASE ~Refreshes(gaps)
    BY <2>2 DEF BeginRun, Positions
  <2> QED BY <2>1, <2>2
<1>2. /\ ckpt' = mem' /\ main' = "decide"
      /\ UNCHANGED <<fetcher, curStart, cursor, work, channel, page>>
  BY DEF BeginRun, task
<1> QED BY <1>1, <1>2 DEF Positions, EndsBeforeCursor

LEMMA PositionsDecideFetch ==
  ASSUME IInv, Positions, DecideFetch
  PROVE  Positions'
<1>1. UNCHANGED <<ckpt, mem, work, channel, page>> /\ main' = "recv" /\ fetcher' = "init"
      /\ curStart' = StartPosition /\ cursor' = StartCursor
  BY DEF DecideFetch, db
<1>2. StartCursor # None => HourOf(StartPosition) <= CursorHour(StartCursor)
  <2>1. CASE GoesBack
    <3>1. /\ start \in Int /\ mem.ts \in Int
          /\ GapsAfterStart \subseteq Missing(fills, start, mem.ts)
          /\ Cardinality(GapsAfterStart) > GoBackGap /\ GoBackGap \in Nat
      BY <2>1, BackfillAssumption
         DEF GoesBack, ContinuesFromCheckpoint, GapsAfterStart, IInv, TypeOK, MainOK, Checkpoint
    <3>2. Min(GapsAfterStart) \in Int
      BY <3>1, FirstGapType
    <3>3. HourStart(Min(GapsAfterStart)) \in Int
      BY <3>2, TimeTypes
    <3>4. /\ StartPosition = HourStart(Min(GapsAfterStart))
          /\ StartCursor = CursorAt(HourStart(Min(GapsAfterStart)))
      BY <2>1 DEF StartPosition, StartCursor
    <3>5. HourOf(StartPosition) \in Int /\ CursorHour(StartCursor) = HourOf(StartPosition)
      BY <3>3, <3>4, CursorRoundTrip, TimeTypes
    <3> QED BY <3>5
  <2>2. CASE ~GoesBack /\ ContinuesFromCheckpoint
    <3>1. StartPosition = mem.ts /\ StartCursor = mem.cursor
      BY <2>2 DEF StartPosition, StartCursor
    <3> SUFFICES ASSUME mem.cursor # None PROVE HourOf(mem.ts) <= CursorHour(mem.cursor)
      BY <3>1
    <3>2. mem.ts \in Int /\ mem.cursor \in [date : Int, hour : Int]
      BY <2>2 DEF ContinuesFromCheckpoint, IInv, TypeOK, MainOK, Checkpoint, Cursors
    <3>3. CursorHour(mem.cursor) \in Int /\ HourOf(mem.ts) \in Int
      BY <3>2, TimeTypes
    <3>4. mem.ts < CursorTime(mem.cursor)
      BY <2>2 DEF Positions, TimeAndCursorAgree, ContinuesFromCheckpoint
    <3>5. HourOf(mem.ts) < CursorHour(mem.cursor)
      BY <3>2, <3>3, <3>4, HourBounds DEF CursorTime
    <3> QED BY <3>3, <3>5
  <2>3. CASE ~GoesBack /\ ~ContinuesFromCheckpoint
    BY <2>3 DEF StartCursor
  <2> QED BY <2>1, <2>2, <2>3
<1>3. cursor' # None => HourOf(curStart') <= CursorHour(cursor')
  BY <1>1, <1>2
<1> QED BY <1>1, <1>3 DEF Positions, EndsBeforeCursor

LEMMA PositionsFetchReturn ==
  ASSUME IInv, Positions, FetchReturn
  PROVE  Positions' /\ EndsBeforeCursor(page')
<1> DEFINE pos == ReadPosition(curStart, cursor)
<1>1. PICK failing : /\ page' = FetchPage(pos, reading, published, failing, now)
                     /\ ~FetchFails(pos, reading, failing)
  BY DEF FetchReturn
<1>2. /\ fetcher = "fetch" /\ fetcher' = "send"
      /\ cursor' = page'.cursor /\ curStart' = NextStart(page')
      /\ UNCHANGED <<ckpt, mem, main, work, channel>>
  BY DEF FetchReturn, db, run
<1>3. reading \in 0..PageHours /\ now \in Int /\ published \in SUBSET Hours /\ pos \in Int
  BY <1>2, PositionsOf DEF IInv, TypeOK, FetcherOK, EnvOK
<1>4. page' \in Pages
  BY <1>1, <1>3, FetchPageType
<1>5. page'.cursor # None =>
        /\ page'.cursor \in [date : Int, hour : Int]
        /\ HourOf(pos) + 1 <= CursorHour(page'.cursor)
        /\ \A f \in page'.fills : f \in Int /\ f < CursorTime(page'.cursor)
  <2>1. CASE page' = EndOfData
    BY <2>1 DEF EndOfData
  <2>2. CASE page' # EndOfData
    <3>1. ReadsToCursor(pos, reading, published, failing, page')
      BY <1>1, <1>3, <2>2, PageReadsToCursor
    <3> QED BY <3>1 DEF ReadsToCursor
  <2> QED BY <2>1, <2>2
<1>6. page'.cursor # None => HourOf(curStart') <= CursorHour(page'.cursor)
  <2> SUFFICES ASSUME page'.cursor # None
               PROVE  HourOf(curStart') <= CursorHour(page'.cursor)
    OBVIOUS
  <2>1. CursorHour(page'.cursor) \in Int
    BY <1>5, TimeTypes
  <2>2. CASE page'.fills # {}
    <3>1. curStart' = Max(page'.fills) /\ Max(page'.fills) \in page'.fills
      BY <1>2, <1>4, <2>2, BatchTypes DEF NextStart, Pages
    <3>2. curStart' \in Int /\ curStart' < CursorTime(page'.cursor)
      BY <1>5, <3>1
    <3>3. HourOf(curStart') < CursorHour(page'.cursor) /\ HourOf(curStart') \in Int
      BY <2>1, <3>2, HourBounds, TimeTypes DEF CursorTime
    <3> QED BY <2>1, <3>3
  <2>3. CASE page'.fills = {}
    <3>1. curStart' = HourEnd
      BY <1>2, <2>3 DEF NextStart
    <3>2. HourOf(HourEnd) = HourOf(curStart) + 1 /\ HourOf(curStart) \in Int
          /\ HourOf(pos) \in Int
      BY PositionsOf
    <3>3. HourOf(curStart) <= HourOf(pos)
      BY <1>2, PositionsOf DEF Positions
    <3> QED BY <1>5, <2>1, <3>1, <3>2, <3>3
  <2> QED BY <2>2, <2>3
<1>7. EndsBeforeCursor(page')
  BY <1>5 DEF EndsBeforeCursor
<1> QED BY <1>2, <1>6, <1>7 DEF Positions, EndsBeforeCursor

LEMMA PositionsFetcher ==
  ASSUME IInv, Positions, FetcherStep
  PROVE  Positions'
<1>1. UNCHANGED <<ckpt, mem, main, work>>
  BY DEF FetcherStep, FetcherInit, FetcherReachesEnd, FetcherSkips, FetchCall,
         FetchReturn, FetchError, FetcherSend, db, run
<1>2. CASE FetchReturn
  BY <1>2, PositionsFetchReturn
<1>3. CASE FetcherInit \/ FetcherReachesEnd \/ FetchCall \/ FetchError
  <2>1. /\ UNCHANGED <<curStart, cursor, channel>> /\ fetcher # "off" /\ fetcher' # "send"
    BY <1>3 DEF FetcherInit, FetcherReachesEnd, FetchCall, FetchError
  <2> QED BY <1>1, <2>1 DEF Positions, EndsBeforeCursor
<1>4. CASE FetcherSkips
  <2>1. /\ curStart' = HourEnd /\ cursor' = CursorAt(HourEnd) /\ UNCHANGED channel
        /\ fetcher' # "send"
    BY <1>4 DEF FetcherSkips
  <2>2. CursorHour(cursor') = HourOf(curStart') /\ HourOf(curStart') \in Int
    BY <2>1, PositionsOf, CursorRoundTrip, TimeTypes
  <2>3. HourOf(curStart') <= CursorHour(cursor')
    BY <2>2
  <2> QED BY <1>1, <2>1, <2>3 DEF Positions, EndsBeforeCursor
<1>5. CASE FetcherSend
  <2>1. /\ UNCHANGED <<curStart, cursor>> /\ channel' = Append(channel, page)
        /\ fetcher = "send" /\ fetcher' # "send"
    BY <1>5 DEF FetcherSend
  <2>2. channel \in Seq(Pages) /\ page \in Pages
    BY <2>1 DEF IInv, TypeOK, FetcherOK
  <2>3. \A i \in DOMAIN channel' : EndsBeforeCursor(channel'[i])
    <3>1. DOMAIN channel' = 1..(Len(channel) + 1) /\ DOMAIN channel = 1..Len(channel)
          /\ channel'[Len(channel) + 1] = page
          /\ \A i \in 1..Len(channel) : channel'[i] = channel[i]
      BY <2>1, <2>2, AppendProperties
    <3>2. Len(channel) \in Nat
      BY <2>2
    <3>3. EndsBeforeCursor(page) /\ \A i \in 1..Len(channel) : EndsBeforeCursor(channel[i])
      BY <2>1, <3>1 DEF Positions
    <3> QED BY <3>1, <3>2, <3>3
  <2> QED BY <1>1, <2>1, <2>3 DEF Positions, EndsBeforeCursor
<1> QED BY <1>2, <1>3, <1>4, <1>5 DEF FetcherStep

LEMMA PositionsMain ==
  ASSUME IInv, Positions, Recv \/ InsertOk
  PROVE  Positions'
<1>1. UNCHANGED <<fetcher, curStart, cursor, page>>
  BY DEF Recv, InsertOk, task
<1>2. CASE Recv
  <2>1. /\ UNCHANGED <<ckpt, mem>> /\ work' = Head(channel) /\ channel' = Tail(channel)
        /\ channel # <<>>
    BY <1>2 DEF Recv, db
  <2>2. channel \in Seq(Pages)
    BY DEF IInv, TypeOK, FetcherOK
  <2>3. work' = channel[1] /\ Len(channel) \in Nat \ {0} /\ DOMAIN channel = 1..Len(channel)
        /\ DOMAIN channel' = 1..(Len(channel) - 1)
        /\ \A i \in 1..(Len(channel) - 1) : channel'[i] = channel[i + 1]
    BY <2>1, <2>2, HeadTailProperties
  <2>4. \A i \in 1..Len(channel) : EndsBeforeCursor(channel[i])
    BY <2>3 DEF Positions
  <2>5. EndsBeforeCursor(work') /\ \A i \in DOMAIN channel' : EndsBeforeCursor(channel'[i])
    BY <2>3, <2>4
  <2> QED BY <1>1, <2>1, <2>5 DEF Positions, EndsBeforeCursor
<1>3. CASE InsertOk
  <2>1. /\ main' = "recv" /\ UNCHANGED channel /\ mem' = MemAfter(Inserted)
        /\ (ckpt' = ckpt \/ ckpt' = mem') /\ work \in Pages /\ main = "insert"
    BY <1>3 DEF InsertOk, IInv, TypeOK, MainOK
  <2>2. TimeAndCursorAgree(mem')
    <3>1. CASE ShouldUpdate
      <4>1. mem'.ts = Max(work.fills) /\ mem'.cursor = work.cursor
        BY <2>1, <3>1 DEF MemAfter
      <4>2. Max(work.fills) \in work.fills
        BY <2>1, <3>1, BatchTypes DEF ShouldUpdate, Pages
      <4> QED BY <2>1, <4>1, <4>2 DEF Positions, EndsBeforeCursor, TimeAndCursorAgree
    <3>2. CASE ~ShouldUpdate
      BY <2>1, <3>2 DEF MemAfter, Positions
    <3> QED BY <3>1, <3>2
  <2> QED BY <1>1, <2>1, <2>2 DEF Positions, EndsBeforeCursor
<1> QED BY <1>2, <1>3

(* A run that is over has no position; the row is the one that was saved. *)
LEMMA PositionsEndRun ==
  ASSUME Positions, NEW how, EndRun(how), ckpt' = ckpt \/ ckpt' = mem
  PROVE  Positions'
<1>1. /\ main' = "idle" /\ fetcher' = "off" /\ mem' = NewCheckpoint /\ channel' = <<>>
  BY DEF EndRun
<1>2. TimeAndCursorAgree(ckpt') /\ TimeAndCursorAgree(mem')
  BY <1>1, NewAgrees DEF Positions
<1> QED BY <1>1, <1>2 DEF Positions

LEMMA PositionsStep == IInv /\ Positions /\ [Next]_vars => Positions'
<1> SUFFICES ASSUME IInv, Positions, [Next]_vars PROVE Positions'
  OBVIOUS
<1>1. CASE UNCHANGED <<ckpt, mem, fetcher, curStart, cursor, main, work, channel, page>>
  BY <1>1 DEF Positions, EndsBeforeCursor
<1>2. CASE Tick \/ (\E h \in Hours : Publish(h)) \/ UNCHANGED vars
  BY <1>1, <1>2 DEF Tick, Publish, vars, db, run, task
<1>3. CASE Crash \/ DecideComplete
  BY <1>3, PositionsEndRun DEF Crash, DecideComplete, db
<1>4. CASE Finish
  BY <1>4, PositionsEndRun DEF Finish
<1>5. CASE InsertError
  <2>1. CASE EndRun("failed")
    BY <1>5, <2>1, PositionsEndRun DEF InsertError
  <2>2. CASE ~EndRun("failed")
    BY <1>1, <1>5, <2>2 DEF InsertError, task
  <2> QED BY <2>1, <2>2
<1>6. ASSUME NEW w \in Windows, BeginRun(w) PROVE Positions'
  BY <1>6, PositionsBeginRun, BackfillAssumption
<1> QED BY <1>2, <1>3, <1>4, <1>5, <1>6, PositionsDecideFetch,
           PositionsMain, PositionsFetcher DEF Next, MainStep, Rest

LEMMA PositionsInit == Init => Positions
<1> SUFFICES ASSUME Init PROVE Positions
  OBVIOUS
<1>1. TimeAndCursorAgree(ckpt) /\ mem = NewCheckpoint
  BY BackfillAssumption DEF Init
<1> QED BY <1>1, NewAgrees DEF Init, Positions

(* Time and cursor agree, over midnight, empty pages, skips and resets: the   *)
(* time a run resumes from is never beyond the hour its cursor names.         *)
THEOREM CursorStaysAhead == Spec => []CursorAhead
<1>1. Positions => CursorAhead
  BY DEF Positions, CursorAhead
<1> QED BY <1>1, PositionsInit, PositionsStep, InitInv, StepInv, PTL DEF Spec

-----------------------------------------------------------------------------
(* Where the fills of an hour can be: in the table, or nowhere because the    *)
(* hour was given up; or on their way in a page that the main task, the       *)
(* channel or the fetcher holds.                                              *)
Read(h) == Stored(h) \/ h \in swallowed \/ h \in stepped
InHand(h) == main = "insert" /\ File[h] \subseteq work.fills
InChannel(h, upto) == \E j \in 1..upto : File[h] \subseteq channel[j].fills
Pending(h) == Read(h) \/ InHand(h) \/ InChannel(h, Len(channel))

HoursTo(h) == (runBase .. (h - 1)) \cap Hours

(* The row and the checkpoint in memory speak of hours that were read.  A     *)
(* page, when its turn comes, follows pages that have all the hours before    *)
(* it; and the fetcher's position is behind hours read or on their way.       *)
RowPart == \A h \in Promised(ckpt, base) \cap Hours : Read(h)
MemPart == updated => \A h \in HoursTo(CursorHour(mem.cursor)) : Read(h)
WorkPart ==
  main = "insert" /\ work.cursor # None =>
    \A h \in HoursTo(CursorHour(work.cursor)) : Read(h) \/ InHand(h)
ChannelPart ==
  \A i \in DOMAIN channel : channel[i].cursor # None =>
    \A h \in HoursTo(CursorHour(channel[i].cursor)) :
      Read(h) \/ InHand(h) \/ InChannel(h, i)
PagePart ==
  fetcher = "send" =>
    /\ page.cursor = cursor /\ (page.hasMore => cursor # None)
    /\ cursor # None =>
         \A h \in HoursTo(CursorHour(cursor)) : Pending(h) \/ File[h] \subseteq page.fills
PositionPart ==
  fetcher \in {"init", "loop", "fetch", "retry"} =>
    \A h \in HoursTo(HourOf(ReadPosition(curStart, cursor))) : Pending(h)
Modes ==
  /\ base \in Int /\ runBase \in Int
  /\ main \in {"idle", "decide"} => fetcher = "off" /\ channel = <<>> /\ ~updated
  /\ main = "decide" => mem = ckpt
  /\ updated => mem.cursor # None
  /\ main = "insert" /\ work.fills # {} => work.cursor # None
  /\ \A i \in DOMAIN channel : channel[i].fills # {} => channel[i].cursor # None
  /\ fetcher = "send" /\ page.fills # {} => page.cursor # None

Coverage == RowPart /\ MemPart /\ WorkPart /\ ChannelPart /\ PagePart
            /\ PositionPart /\ Modes

SInv == IInv /\ Positions /\ Coverage

Grow == fills \subseteq fills' /\ swallowed \subseteq swallowed' /\ stepped \subseteq stepped'

LEMMA ReadStays == ASSUME Grow PROVE \A h : Read(h) => Read(h)'
  BY DEF Grow, Read, Stored

(* Steps that touch neither the pages on their way nor what a run began with. *)
LEMMA WayStays ==
  ASSUME Coverage, Grow, UNCHANGED <<main, work, channel, runBase>>
  PROVE  /\ WorkPart' /\ ChannelPart'
         /\ \A h : Pending(h) => Pending(h)'
         /\ \A h : InHand(h) <=> InHand(h)'
         /\ \A h, n : InChannel(h, n) <=> InChannel(h, n)'
<1>1. \A h : Read(h) => Read(h)'
  BY ReadStays
<1>2. (\A h : InHand(h) <=> InHand(h)') /\ (\A h, n : InChannel(h, n) <=> InChannel(h, n)')
  BY DEF InHand, InChannel
<1>3. WorkPart'
  BY <1>1, <1>2 DEF Coverage, WorkPart, HoursTo
<1>4. ChannelPart'
  BY <1>1, <1>2 DEF Coverage, ChannelPart, HoursTo
<1> QED BY <1>1, <1>2, <1>3, <1>4 DEF Pending

LEMMA SameCoverage ==
  ASSUME Coverage, Grow,
         UNCHANGED <<main, work, channel, runBase, ckpt, base, updated, mem, fetcher,
                     curStart, cursor, page>>
  PROVE  Coverage'
<1>1. /\ WorkPart' /\ ChannelPart'
      /\ \A h : Pending(h) => Pending(h)'
  BY WayStays
<1>2. \A h : Read(h) => Read(h)'
  BY ReadStays
<1>3. RowPart' /\ MemPart'
  BY <1>2 DEF Coverage, RowPart, MemPart, HoursTo, Promised
<1>4. PagePart'
  BY <1>1 DEF Coverage, PagePart, HoursTo
<1>5. PositionPart'
  BY <1>1 DEF Coverage, PositionPart, HoursTo
<1>6. Modes'
  BY DEF Coverage, Modes
<1> QED BY <1>1, <1>3, <1>4, <1>5, <1>6 DEF Coverage

(* When a run ends, only the row is left to be true. *)
LEMMA CoverageEndRun ==
  ASSUME Coverage, NEW how, EndRun(how), RowPart', base' \in Int, UNCHANGED runBase
  PROVE  Coverage'
<1>1. /\ main' = "idle" /\ fetcher' = "off" /\ updated' = FALSE /\ channel' = <<>>
  BY DEF EndRun
<1>2. MemPart' /\ WorkPart' /\ PagePart' /\ PositionPart'
  BY <1>1 DEF MemPart, WorkPart, PagePart, PositionPart
<1>3. DOMAIN channel' = {}
  BY <1>1
<1>4. ChannelPart' /\ Modes'
  BY <1>1, <1>3 DEF ChannelPart, Modes, Coverage
<1> QED BY <1>2, <1>4 DEF Coverage

LEMMA CoverageEnds ==
  ASSUME SInv, Crash \/ DecideComplete \/ Finish
  PROVE  Coverage'
<1> USE DEF SInv
<1>1. PICK how : EndRun(how)
  BY DEF Crash, DecideComplete, Finish
<1>2. Grow /\ UNCHANGED <<runBase, fills>>
  BY DEF Crash, DecideComplete, Finish, db, ghost, Grow
<1>3. \A h : Read(h) => Read(h)'
  BY <1>2, ReadStays
<1>4. CASE UNCHANGED <<ckpt, base>>
  <2>1. RowPart' /\ base' \in Int
    BY <1>3, <1>4 DEF Coverage, RowPart, Promised, Modes
  <2> QED BY <1>1, <1>2, <2>1, CoverageEndRun
<1>5. CASE updated /\ ckpt' = mem /\ base' = runBase
  <2>1. mem.cursor # None /\ ResumeHour(mem) = CursorHour(mem.cursor)
    BY <1>5 DEF Coverage, Modes, ResumeHour
  <2>2. \A h \in Promised(mem, runBase) \cap Hours : Read(h)
    BY <1>5, <2>1 DEF Coverage, MemPart, HoursTo, Promised
  <2>3. RowPart'
    BY <1>3, <1>5, <2>2 DEF RowPart, Promised
  <2>4. base' \in Int
    BY <1>5 DEF Coverage, Modes
  <2> QED BY <1>1, <1>2, <2>3, <2>4, CoverageEndRun
<1> QED BY <1>4, <1>5 DEF Crash, DecideComplete, Finish, db, ghost

LEMMA CoverageInsertError == ASSUME SInv, InsertError PROVE Coverage'
<1> USE DEF SInv
<1>1. Grow /\ UNCHANGED <<ckpt, base, runBase>>
  BY DEF InsertError, ghost, Grow
<1>2. CASE EndRun("failed")
  <2>1. RowPart' /\ base' \in Int
    BY <1>1, ReadStays DEF Coverage, RowPart, Promised, Modes
  <2> QED BY <1>1, <1>2, <2>1, CoverageEndRun
<1>3. CASE ~EndRun("failed")
  <2>1. UNCHANGED <<main, work, channel, updated, mem, fetcher, curStart, cursor, page>>
    BY <1>3 DEF InsertError, task
  <2> QED BY <1>1, <2>1, SameCoverage
<1> QED BY <1>2, <1>3

-----------------------------------------------------------------------------
(* A run begins: a reset takes back what the row says. *)
LEMMA CoverageBeginRun ==
  ASSUME SInv, NEW w, w.start \in Nat, w.end \in Nat, BeginRun(w)
  PROVE  Coverage'
<1> DEFINE gaps == GapsBelow(ckpt, w.start, w.end)
<1> USE DEF SInv
<1>1. /\ main = "idle" /\ main' = "decide" /\ ckpt' = mem'
      /\ UNCHANGED <<fills, swallowed, stepped, runBase, updated, channel, fetcher, page>>
  BY DEF BeginRun, task
<1>2. Grow
  BY <1>1 DEF Grow
<1>3. RowPart' /\ base' \in Int
  <2>1. CASE ~Refreshes(gaps)
    <3>1. ckpt' = ckpt /\ base' = base
      BY <1>1, <2>1 DEF BeginRun
    <3> QED BY <1>2, <3>1, ReadStays DEF Coverage, RowPart, Promised, Modes
  <2>2. CASE Refreshes(gaps)
    <3> DEFINE gap == Min(gaps)
    <3>1. gap \in Int /\ gap < ResumeHour(ckpt) /\ ckpt \in Checkpoint /\ base \in Int
      BY <2>2, ResetGoesBack DEF IInv, TypeOK, DbOK, Coverage, Modes
    <3>2. ckpt' = BackTo(ckpt, gap) /\ base' = Min({base, gap})
      BY <1>1, <2>2 DEF BeginRun
    <3> HIDE DEF gap
    <3>3. ResumeHour(ckpt') = gap
      BY <3>1, <3>2, BackToAgrees
    <3>4. base' \in {base, gap} /\ base' <= gap /\ base' \in Int
      BY <3>1, <3>2, EarlierOf
    <3>5. ResumeHour(ckpt) \in Int
      <4>1. ckpt.cursor # None => CursorHour(ckpt.cursor) \in Int
        BY <3>1, TimeTypes DEF Checkpoint, Cursors
      <4>2. ckpt.ts # None => HourOf(ckpt.ts) \in Int
        BY <3>1, TimeTypes DEF Checkpoint
      <4> QED BY <4>1, <4>2 DEF ResumeHour
    <3>6. ASSUME NEW h \in Promised(ckpt', base') \cap Hours
          PROVE  h \in Promised(ckpt, base)
      <4>1. h \in Int /\ base' <= h /\ h <= gap - 1
        BY <3>1, <3>3, <3>4, <3>6 DEF Promised
      <4>2. base' = base
        BY <3>1, <3>4, <4>1
      <4> QED BY <3>1, <3>5, <4>1, <4>2 DEF Promised
    <3>7. RowPart'
      BY <1>2, <3>6, ReadStays DEF Coverage, RowPart
    <3> QED BY <3>4, <3>7
  <2> QED BY <2>1, <2>2
<1>4. fetcher' = "off" /\ channel' = <<>> /\ updated' = FALSE
  <2>1. updated \in BOOLEAN
    BY DEF IInv, TypeOK, MainOK
  <2> QED BY <1>1, <2>1 DEF Coverage, Modes
<1>5. MemPart' /\ WorkPart' /\ PagePart' /\ PositionPart'
  BY <1>1, <1>4 DEF MemPart, WorkPart, PagePart, PositionPart
<1>6. DOMAIN channel' = {}
  BY <1>4
<1>7. ChannelPart' /\ Modes'
  BY <1>1, <1>3, <1>4, <1>6 DEF ChannelPart, Modes, Coverage
<1> QED BY <1>3, <1>5, <1>7 DEF Coverage

(* A run takes over the promise of the row it goes on from, or begins its own *)
(* where it begins to read.                                                   *)
LEMMA ResumeTypes ==
  ASSUME NEW c \in Checkpoint, TimeAndCursorAgree(c), c.ts # None
  PROVE  /\ c.ts \in Int /\ HourOf(c.ts) \in Int /\ ResumeHour(c) \in Int
         /\ HourOf(c.ts) <= ResumeHour(c)
         /\ ReadPosition(c.ts, c.cursor) \in Int
         /\ HourOf(ReadPosition(c.ts, c.cursor)) = ResumeHour(c)
<1>1. c.ts \in Int /\ HourOf(c.ts) \in Int
  BY TimeTypes DEF Checkpoint
<1>2. CASE c.cursor = None
  BY <1>1, <1>2 DEF ResumeHour, ReadPosition
<1>3. CASE c.cursor # None
  <2>1. c.cursor \in [date : Int, hour : Int]
    BY <1>3 DEF Checkpoint, Cursors
  <2>2. /\ CursorHour(c.cursor) \in Int /\ CursorTime(c.cursor) \in Int
        /\ HourOf(CursorTime(c.cursor)) = CursorHour(c.cursor)
    BY <2>1, TimeTypes, CursorTimeHour
  <2>3. c.ts < CursorTime(c.cursor)
    BY <1>3 DEF TimeAndCursorAgree
  <2>4. HourOf(c.ts) < CursorHour(c.cursor)
    BY <1>1, <2>2, <2>3, HourBounds DEF CursorTime
  <2> QED BY <1>1, <1>3, <2>2, <2>4 DEF ResumeHour, ReadPosition
<1> QED BY <1>2, <1>3

LEMMA CoverageDecideFetch ==
  ASSUME SInv, DecideFetch
  PROVE  Coverage'
<1> USE DEF SInv
<1>1. /\ main = "decide" /\ main' = "recv" /\ fetcher' = "init" /\ updated' = FALSE
      /\ UNCHANGED <<fills, ckpt, base, swallowed, stepped, channel>>
      /\ curStart' = StartPosition /\ cursor' = StartCursor
      /\ runBase' = IF ContinuesFromCheckpoint THEN base ELSE HourOf(StartPosition)
  BY DEF DecideFetch, db
<1>2. Grow /\ channel' = <<>> /\ DOMAIN channel' = {}
  BY <1>1 DEF Coverage, Modes, Grow
<1>3. RowPart'
  BY <1>1, <1>2, ReadStays DEF Coverage, RowPart, Promised
<1>4. MemPart' /\ WorkPart' /\ ChannelPart' /\ PagePart'
  BY <1>1, <1>2 DEF MemPart, WorkPart, ChannelPart, PagePart
<1>5. /\ mem = ckpt /\ mem \in Checkpoint /\ TimeAndCursorAgree(mem) /\ start \in Int
      /\ base \in Int
  BY <1>1 DEF Coverage, Modes, Positions, IInv, TypeOK, MainOK
<1> DEFINE posHour == HourOf(ReadPosition(StartPosition, StartCursor))
<1> DEFINE Behind == /\ runBase' \in Int
                     /\ \A h \in (runBase' .. (posHour - 1)) \cap Hours : Read(h)
<1>6. ASSUME ~ContinuesFromCheckpoint PROVE Behind
  <2>1. StartPosition = start /\ StartCursor = None /\ runBase' = HourOf(start)
    BY <1>1, <1>6 DEF StartPosition, StartCursor, GoesBack
  <2>2. posHour = HourOf(start) /\ HourOf(start) \in Int
    BY <1>5, <2>1, TimeTypes DEF ReadPosition
  <2>3. runBase' .. (posHour - 1) = {} /\ runBase' \in Int
    <3> HIDE DEF posHour
    <3> QED BY <2>1, <2>2
  <2> QED BY <2>3
<1>7. ASSUME ContinuesFromCheckpoint PROVE Behind
  <2>1. mem.ts # None /\ runBase' = base
    BY <1>1, <1>7 DEF ContinuesFromCheckpoint
  <2>2. /\ mem.ts \in Int /\ HourOf(mem.ts) \in Int /\ ResumeHour(mem) \in Int
        /\ HourOf(mem.ts) <= ResumeHour(mem)
        /\ HourOf(ReadPosition(mem.ts, mem.cursor)) = ResumeHour(mem)
    BY <1>5, <2>1, ResumeTypes
  <2>3. posHour \in Int /\ posHour <= ResumeHour(mem)
    <3>1. CASE ~GoesBack
      BY <1>7, <2>2, <3>1 DEF StartPosition, StartCursor
    <3>2. CASE GoesBack
      <4> DEFINE gap == Min(GapsAfterStart)
      <4>1. /\ GapsAfterStart \subseteq Missing(fills, start, mem.ts)
            /\ Cardinality(GapsAfterStart) > GoBackGap /\ GoBackGap \in Nat
        BY <3>2, BackfillAssumption DEF GoesBack, GapsAfterStart
      <4>2. GapsAfterStart # {}
        BY <4>1, FS_EmptySet
      <4>3. IsFiniteSet(GapsAfterStart) /\ GapsAfterStart \in SUBSET Int
        BY <1>5, <2>2, <4>1, MissingFinite, MissingType, FS_Subset
      <4>4. gap \in GapsAfterStart /\ gap \in Int
        BY <4>2, <4>3, MinProperties
      <4> HIDE DEF gap
      <4>5. gap < HourOf(mem.ts)
        <5>1. HourOf(start) \in Int
          BY <1>5, TimeTypes
        <5>2. gap \in HourOf(start) .. (HourOf(mem.ts) - 1)
          BY <4>1, <4>4 DEF Missing
        <5> QED BY <2>2, <4>4, <5>1, <5>2
      <4>6. HourStart(gap) \in Int
        BY <4>4, TimeTypes
      <4>7. /\ CursorAt(HourStart(gap)) \in [date : Int, hour : Int]
            /\ CursorHour(CursorAt(HourStart(gap))) = gap
        BY <4>4, <4>6, TimeTypes, CursorRoundTrip, HourBounds
      <4>8. CursorAt(HourStart(gap)) # None
        BY <4>7, NoneAssumption
      <4>9. /\ StartPosition = HourStart(gap) /\ StartCursor = CursorAt(HourStart(gap))
        BY <3>2 DEF StartPosition, StartCursor, gap
      <4>10. posHour = gap
        BY <4>7, <4>8, <4>9, CursorTimeHour DEF ReadPosition
      <4> QED BY <2>2, <4>4, <4>5, <4>10
    <3> QED BY <3>1, <3>2
  <2>4. \A h \in (base .. (posHour - 1)) \cap Hours : Read(h)
    <3>1. \A h \in Promised(mem, base) \cap Hours : Read(h)
      BY <1>5 DEF Coverage, RowPart
    <3> HIDE DEF posHour
    <3>2. base .. (posHour - 1) \subseteq base .. (ResumeHour(mem) - 1)
      BY <1>5, <2>2, <2>3
    <3> QED BY <3>1, <3>2 DEF Promised
  <2> QED BY <1>5, <2>1, <2>4
<1>8. Behind
  BY <1>6, <1>7
<1> HIDE DEF posHour
<1>9. PositionPart'
  <2>1. HourOf(ReadPosition(curStart, cursor))' = posHour
    BY <1>1 DEF posHour
  <2> QED BY <1>2, <1>8, <2>1, ReadStays DEF PositionPart, HoursTo, Pending
<1>10. Modes'
  BY <1>1, <1>2, <1>8 DEF Coverage, Modes
<1> QED BY <1>3, <1>4, <1>9, <1>10 DEF Coverage

-----------------------------------------------------------------------------
(* The steps of the fetcher: the position moves over hours that are in its    *)
(* page, were given up, or lie behind it already.                             *)
LEMMA FetcherKeeps ==
  ASSUME SInv, FetcherStep
  PROVE  /\ UNCHANGED <<main, work, runBase, base, ckpt, updated, mem, fills, start, end>>
         /\ fetcher # "off" /\ main \notin {"idle", "decide"} /\ Grow /\ RowPart' /\ MemPart'
         /\ \A h : Read(h) => Read(h)'
<1>1. /\ UNCHANGED <<main, work, runBase, base, ckpt, updated, mem, fills, start, end>>
      /\ fetcher # "off" /\ Grow
  BY DEF FetcherStep, FetcherInit, FetcherReachesEnd, FetcherSkips, FetchCall,
         FetchReturn, FetchError, FetcherSend, db, run, ghost, Grow
<1>2. \A h : Read(h) => Read(h)'
  BY <1>1, ReadStays
<1>3. main \notin {"idle", "decide"}
  BY <1>1 DEF SInv, Coverage, Modes
<1> QED BY <1>1, <1>2, <1>3 DEF SInv, Coverage, RowPart, MemPart, HoursTo, Promised

LEMMA CoverageFetchReturn == ASSUME SInv, FetchReturn PROVE Coverage'
<1> USE DEF SInv
<1> DEFINE pos == ReadPosition(curStart, cursor)
<1>1. /\ UNCHANGED <<main, work, runBase, base, ckpt, updated, mem, fills>>
      /\ Grow /\ RowPart' /\ MemPart' /\ main \notin {"idle", "decide"}
      /\ \A h : Read(h) => Read(h)'
  BY FetcherKeeps DEF FetcherStep
<1>2. PICK failing :
        /\ ~FetchFails(pos, reading, failing)
        /\ page' = FetchPage(pos, reading, published, failing, now)
        /\ swallowed' = swallowed \cup (failing \cap published)
  BY DEF FetchReturn
<1>3. /\ fetcher = "fetch" /\ fetcher' = "send" /\ cursor' = page'.cursor
      /\ stepped' = stepped \cup (HoursCovered(pos, reading) \ published)
      /\ UNCHANGED channel
  BY DEF FetchReturn
<1>4. reading \in 0..PageHours /\ now \in Int /\ published \in SUBSET Hours /\ pos \in Int
      /\ HourOf(pos) \in Int /\ runBase \in Int
  BY <1>3, PositionsOf DEF IInv, TypeOK, FetcherOK, EnvOK, Coverage, Modes
<1>5. /\ WorkPart' /\ ChannelPart' /\ \A h : Pending(h) => Pending(h)'
  BY <1>1, <1>3, WayStays
<1>6. \A h \in HoursTo(HourOf(pos)) : Pending(h)'
  BY <1>3, <1>5 DEF Coverage, PositionPart
<1>7. CASE page' = EndOfData
  <2>1. cursor' = None /\ page'.cursor = None /\ page'.hasMore = FALSE /\ page'.fills = {}
    BY <1>3, <1>7 DEF EndOfData
  <2>2. PagePart' /\ PositionPart'
    BY <1>3, <2>1 DEF PagePart, PositionPart
  <2>3. Modes'
    BY <1>1, <1>3, <2>1 DEF Coverage, Modes
  <2> QED BY <1>1, <1>5, <2>2, <2>3 DEF Coverage
<1>8. CASE page' # EndOfData
  <2>1. /\ page'.cursor \in [date : Int, hour : Int]
        /\ HourOf(pos) + 1 <= CursorHour(page'.cursor)
        /\ HoursCovered(pos, reading) = HourOf(pos) .. (CursorHour(page'.cursor) - 1)
        /\ \A h \in HoursCovered(pos, reading) \cap (published \ failing) :
             File[h] \subseteq page'.fills
    <3>1. ReadsToCursor(pos, reading, published, failing, page')
      BY <1>2, <1>4, <1>8, PageReadsToCursor
    <3> QED BY <3>1 DEF ReadsToCursor
  <2>2. cursor' # None /\ CursorHour(cursor') \in Int
    BY <1>3, <2>1, NoneAssumption, TimeTypes
  <2>3. ASSUME NEW h \in HoursTo(CursorHour(cursor))'
        PROVE  Pending(h)' \/ File[h] \subseteq page'.fills
    <3>1. h \in Int /\ h \in Hours /\ runBase <= h /\ h < CursorHour(cursor')
      BY <1>1, <1>4, <2>2, SourceAssumption DEF HoursTo
    <3>2. CASE h < HourOf(pos)
      BY <1>4, <1>6, <3>1, <3>2 DEF HoursTo
    <3>3. CASE h >= HourOf(pos)
      <4>1. h \in HoursCovered(pos, reading)
        BY <1>3, <1>4, <2>1, <2>2, <3>1, <3>3
      <4>2. CASE h \in published \ failing
        BY <2>1, <4>1, <4>2
      <4>3. CASE h \in failing \cap published
        BY <1>2, <4>3 DEF Pending, Read
      <4>4. CASE h \notin published
        BY <1>3, <4>1, <4>4 DEF Pending, Read
      <4> QED BY <4>2, <4>3, <4>4
    <3> QED BY <1>4, <3>1, <3>2, <3>3
  <2>4. PagePart' /\ PositionPart'
    BY <1>3, <2>2, <2>3 DEF PagePart, PositionPart
  <2>5. Modes'
    BY <1>1, <1>3, <2>2 DEF Coverage, Modes
  <2> QED BY <1>1, <1>5, <2>4, <2>5 DEF Coverage
<1> QED BY <1>7, <1>8

LEMMA SkipsToNextHour ==
  ASSUME SInv, FetcherSkips
  PROVE  HourOf(ReadPosition(curStart, cursor))' = HourOf(curStart) + 1
<1>1. curStart' = HourEnd /\ cursor' = CursorAt(HourEnd)
  BY DEF FetcherSkips
<1>2. HourEnd \in Int /\ HourOf(HourEnd) = HourOf(curStart) + 1
  BY PositionsOf DEF SInv
<1>3. /\ CursorAt(HourEnd) \in [date : Int, hour : Int]
      /\ CursorHour(CursorAt(HourEnd)) = HourOf(curStart) + 1
  BY <1>2, TimeTypes, CursorRoundTrip
<1>4. ReadPosition(curStart', cursor') = CursorTime(CursorAt(HourEnd))
  BY <1>1, <1>3, NoneAssumption DEF ReadPosition
<1> QED BY <1>3, <1>4, CursorTimeHour

LEMMA CoverageFetcherSkips == ASSUME SInv, FetcherSkips PROVE Coverage'
<1> USE DEF SInv
<1>1. /\ UNCHANGED <<main, work, runBase, base, ckpt, updated, mem, fills>>
      /\ Grow /\ RowPart' /\ MemPart' /\ main \notin {"idle", "decide"}
      /\ \A h : Read(h) => Read(h)'
  BY FetcherKeeps DEF FetcherStep
<1>2. /\ fetcher = "loop" /\ fetcher' = "loop" /\ UNCHANGED <<channel, page>>
      /\ curStart' = HourEnd /\ cursor' = CursorAt(HourEnd)
      /\ stepped' = stepped \cup {HourOf(curStart)}
  BY DEF FetcherSkips
<1>3. /\ WorkPart' /\ ChannelPart' /\ \A h : Pending(h) => Pending(h)'
  BY <1>1, <1>2, WayStays
<1> DEFINE pos == ReadPosition(curStart, cursor)
<1>4. /\ HourOf(pos) \in Int /\ HourOf(curStart) \in Int /\ runBase \in Int
      /\ HourOf(curStart) <= HourOf(pos)
      /\ HourEnd \in Int /\ HourOf(HourEnd) = HourOf(curStart) + 1
  BY <1>2, PositionsOf DEF Positions, Coverage, Modes
<1>5. HourOf(ReadPosition(curStart, cursor))' = HourOf(curStart) + 1
  BY SkipsToNextHour
<1> HIDE DEF pos
<1>6. PositionPart'
  <2> SUFFICES ASSUME NEW h \in (runBase .. HourOf(curStart)) \cap Hours
               PROVE  Pending(h)'
    BY <1>1, <1>4, <1>5 DEF PositionPart, HoursTo
  <2>1. CASE h = HourOf(curStart)
    BY <1>2, <2>1 DEF Pending, Read
  <2>2. CASE h < HourOf(curStart)
    <3>1. h \in HoursTo(HourOf(pos))
      BY <1>4, <2>2 DEF HoursTo
    <3> QED BY <1>2, <1>3, <3>1 DEF Coverage, PositionPart, pos
  <2> QED BY <1>4, <2>1, <2>2
<1>7. PagePart' /\ Modes'
  BY <1>1, <1>2 DEF PagePart, Coverage, Modes
<1> QED BY <1>1, <1>3, <1>6, <1>7 DEF Coverage

LEMMA SentIsPending ==
  ASSUME SInv, FetcherSend
  PROVE  \A h : Pending(h) \/ File[h] \subseteq page.fills => Pending(h)'
<1>1. /\ \A h : Read(h) => Read(h)'
      /\ UNCHANGED <<main, work>> /\ channel' = Append(channel, page)
  BY FetcherKeeps DEF FetcherStep, FetcherSend
<1>2. channel \in Seq(Pages) /\ page \in Pages
  BY DEF FetcherSend, SInv, IInv, TypeOK, FetcherOK
<1>3. /\ Len(channel) \in Nat /\ Len(channel') = Len(channel) + 1
      /\ channel'[Len(channel) + 1] = page
      /\ \A i \in 1..Len(channel) : channel'[i] = channel[i]
  BY <1>1, <1>2, AppendProperties
<1> SUFFICES ASSUME NEW h, Pending(h) \/ File[h] \subseteq page.fills PROVE Pending(h)'
  OBVIOUS
<1>4. CASE InChannel(h, Len(channel))
  <2>1. PICK j \in 1..Len(channel) : File[h] \subseteq channel[j].fills
    BY <1>4 DEF InChannel
  <2>2. j \in 1..Len(channel') /\ channel'[j] = channel[j]
    BY <1>3, <2>1
  <2> QED BY <2>1, <2>2 DEF Pending, InChannel
<1>5. CASE Read(h) \/ InHand(h)
  BY <1>1, <1>5 DEF Pending, InHand
<1>6. CASE File[h] \subseteq page.fills
  BY <1>3, <1>6 DEF Pending, InChannel
<1> QED BY <1>4, <1>5, <1>6 DEF Pending

LEMMA CoverageFetcherSend == ASSUME SInv, FetcherSend PROVE Coverage'
<1> USE DEF SInv
<1>1. /\ UNCHANGED <<main, work, runBase, base, ckpt, updated, mem, fills>>
      /\ Grow /\ RowPart' /\ MemPart' /\ main \notin {"idle", "decide"}
      /\ \A h : Read(h) => Read(h)'
  BY FetcherKeeps DEF FetcherStep
<1>2. /\ fetcher = "send" /\ UNCHANGED <<curStart, cursor>>
      /\ channel' = Append(channel, page)
      /\ fetcher' = IF page.hasMore THEN "loop" ELSE "done"
  BY DEF FetcherSend
<1>3. channel \in Seq(Pages) /\ page \in Pages
  BY <1>2 DEF IInv, TypeOK, FetcherOK
<1>4. /\ Len(channel) \in Nat /\ Len(channel') = Len(channel) + 1
      /\ DOMAIN channel = 1..Len(channel) /\ DOMAIN channel' = 1..(Len(channel) + 1)
      /\ channel'[Len(channel) + 1] = page
      /\ \A i \in 1..Len(channel) : channel'[i] = channel[i]
  BY <1>2, <1>3, AppendProperties
<1>5. /\ \A h : InHand(h) <=> InHand(h)'
      /\ \A i \in 0..Len(channel) : \A h : InChannel(h, i) => InChannel(h, i)'
  BY <1>1, <1>4 DEF InHand, InChannel
<1>6. \A h : Pending(h) => Pending(h)'
  BY SentIsPending
<1>7. \A h : File[h] \subseteq page.fills => Pending(h)'
  BY SentIsPending
<1>8. page.cursor = cursor /\ (page.hasMore => cursor # None)
  BY <1>2 DEF Coverage, PagePart
<1>9. cursor # None => \A h \in HoursTo(CursorHour(cursor)) : Pending(h)'
  BY <1>2, <1>6, <1>7 DEF Coverage, PagePart
<1>10. WorkPart'
  BY <1>1, <1>5 DEF Coverage, WorkPart, HoursTo
<1>11. ChannelPart'
  <2> SUFFICES ASSUME NEW i \in 1..(Len(channel) + 1), channel'[i].cursor # None,
                      NEW h \in HoursTo(CursorHour(channel'[i].cursor))
               PROVE  Read(h)' \/ InHand(h)' \/ InChannel(h, i)'
    BY <1>1, <1>4 DEF ChannelPart, HoursTo
  <2>1. CASE i = Len(channel) + 1
    <3>1. channel'[i].cursor = cursor
      BY <1>4, <1>8, <2>1
    <3>2. Pending(h)'
      BY <1>9, <3>1
    <3> QED BY <1>4, <2>1, <3>2 DEF Pending
  <2>2. CASE i \in 1..Len(channel)
    <3>1. channel'[i] = channel[i]
      BY <1>4, <2>2
    <3>2. Read(h) \/ InHand(h) \/ InChannel(h, i)
      BY <1>4, <2>2, <3>1 DEF Coverage, ChannelPart
    <3> QED BY <1>1, <1>4, <1>5, <2>2, <3>2
  <2> QED BY <1>4, <2>1, <2>2
<1>12. PagePart'
  BY <1>2 DEF PagePart
<1>13. PositionPart'
  <2>1. CASE ~page.hasMore
    BY <1>2, <2>1 DEF PositionPart
  <2>2. CASE page.hasMore
    <3>1. cursor # None
      BY <1>8, <2>2
    <3>2. HourOf(ReadPosition(curStart, cursor)) = CursorHour(cursor)
      BY <3>1, PositionsOf
    <3> QED BY <1>1, <1>2, <1>9, <3>1, <3>2 DEF PositionPart, HoursTo
  <2> QED BY <2>1, <2>2
<1>14. Modes'
  <2>1. \A i \in DOMAIN channel' : channel'[i].fills # {} => channel'[i].cursor # None
    BY <1>2, <1>4 DEF Coverage, Modes
  <2> QED BY <1>1, <1>2, <2>1 DEF Coverage, Modes
<1> QED BY <1>1, <1>10, <1>11, <1>12, <1>13, <1>14 DEF Coverage

LEMMA CoverageFetcher == ASSUME SInv, FetcherStep PROVE Coverage'
<1> USE DEF SInv
<1>1. CASE FetcherInit \/ FetcherReachesEnd \/ FetchCall \/ FetchError
  <2>1. /\ UNCHANGED <<main, work, runBase, base, ckpt, updated, mem>>
        /\ Grow /\ RowPart' /\ MemPart' /\ main \notin {"idle", "decide"}
    BY FetcherKeeps
  <2>2. /\ UNCHANGED <<channel, curStart, cursor, page>> /\ fetcher' # "send"
        /\ fetcher' \in {"init", "loop", "fetch", "retry"}
             => fetcher \in {"init", "loop", "fetch", "retry"}
    BY <1>1 DEF FetcherInit, FetcherReachesEnd, FetchCall, FetchError
  <2>3. /\ WorkPart' /\ ChannelPart' /\ \A h : Pending(h) => Pending(h)'
    BY <2>1, <2>2, WayStays
  <2>4. PagePart' /\ PositionPart' /\ Modes'
    BY <2>1, <2>2, <2>3 DEF PagePart, PositionPart, Modes, Coverage, HoursTo
  <2> QED BY <2>1, <2>3, <2>4 DEF Coverage
<1> QED BY <1>1, CoverageFetchReturn, CoverageFetcherSkips, CoverageFetcherSend
        DEF FetcherStep

-----------------------------------------------------------------------------
(* The main task: a page is taken out of the channel, and inserted. *)
LEMMA CoverageRecv == ASSUME SInv, Recv PROVE Coverage'
<1> USE DEF SInv
<1>1. /\ main = "recv" /\ main' = "insert" /\ channel # <<>>
      /\ work' = Head(channel) /\ channel' = Tail(channel)
      /\ UNCHANGED <<ckpt, fills, mem, updated, fetcher, curStart, cursor, page,
                     swallowed, stepped, runBase, base>>
  BY DEF Recv, db, task, ghost
<1>2. channel \in Seq(Pages)
  BY DEF IInv, TypeOK, FetcherOK
<1>3. /\ Len(channel) \in Nat \ {0} /\ DOMAIN channel = 1..Len(channel)
      /\ work' = channel[1] /\ Len(channel') = Len(channel) - 1
      /\ DOMAIN channel' = 1..(Len(channel) - 1)
      /\ \A i \in 1..(Len(channel) - 1) : channel'[i] = channel[i + 1]
  BY <1>1, <1>2, HeadTailProperties
<1>4. \A h : Read(h) <=> Read(h)'
  BY <1>1 DEF Read, Stored
<1>5. \A h : ~InHand(h)
  BY <1>1 DEF InHand
<1>6. ASSUME NEW h, NEW i \in 1..Len(channel), InChannel(h, i)
      PROVE  InHand(h)' \/ InChannel(h, i - 1)'
  <2>1. PICK j \in 1..i : File[h] \subseteq channel[j].fills
    BY <1>6 DEF InChannel
  <2>2. CASE j = 1
    BY <1>1, <1>3, <2>1, <2>2 DEF InHand
  <2>3. CASE j # 1
    <3>1. j - 1 \in 1..(i - 1) /\ j - 1 \in 1..(Len(channel) - 1) /\ (j - 1) + 1 = j
      BY <1>3, <2>3
    <3>2. channel'[j - 1] = channel[j]
      BY <1>3, <3>1
    <3> QED BY <2>1, <3>1, <3>2 DEF InChannel
  <2> QED BY <2>2, <2>3
<1>7. ASSUME NEW h, Pending(h) PROVE Pending(h)'
  BY <1>3, <1>4, <1>5, <1>6, <1>7 DEF Pending
<1>8. ASSUME NEW i \in 1..Len(channel), channel[i].cursor # None,
             NEW h \in HoursTo(CursorHour(channel[i].cursor))
      PROVE  Read(h)' \/ InHand(h)' \/ InChannel(h, i - 1)'
  <2>1. Read(h) \/ InChannel(h, i)
    BY <1>3, <1>5, <1>8 DEF Coverage, ChannelPart
  <2> QED BY <1>4, <1>6, <2>1
<1>9. WorkPart'
  <2> SUFFICES ASSUME work'.cursor # None, NEW h \in HoursTo(CursorHour(work'.cursor))
               PROVE  Read(h)' \/ InHand(h)'
    BY <1>1 DEF WorkPart, HoursTo
  <2>1. 1 \in 1..Len(channel)
    BY <1>3
  <2>2. Read(h)' \/ InHand(h)' \/ InChannel(h, 1 - 1)'
    BY <1>3, <1>8, <2>1
  <2>3. ~InChannel(h, 1 - 1)'
    BY DEF InChannel
  <2> QED BY <2>2, <2>3
<1>10. ChannelPart'
  <2> SUFFICES ASSUME NEW i \in 1..(Len(channel) - 1), channel'[i].cursor # None,
                      NEW h \in HoursTo(CursorHour(channel'[i].cursor))
               PROVE  Read(h)' \/ InHand(h)' \/ InChannel(h, i)'
    BY <1>1, <1>3 DEF ChannelPart, HoursTo
  <2>1. i + 1 \in 1..Len(channel) /\ channel'[i] = channel[i + 1] /\ (i + 1) - 1 = i
    BY <1>3
  <2>2. Read(h)' \/ InHand(h)' \/ InChannel(h, (i + 1) - 1)'
    BY <1>8, <2>1
  <2> QED BY <2>1, <2>2
<1>11. RowPart' /\ MemPart'
  BY <1>1, <1>4 DEF Coverage, RowPart, MemPart, Promised, HoursTo
<1>12. PagePart'
  BY <1>1, <1>7 DEF Coverage, PagePart, HoursTo
<1>13. PositionPart'
  BY <1>1, <1>7 DEF Coverage, PositionPart, HoursTo
<1>14. Modes'
  <2>1. work'.fills # {} => work'.cursor # None
    BY <1>3 DEF Coverage, Modes
  <2>2. \A i \in DOMAIN channel' : channel'[i].fills # {} => channel'[i].cursor # None
    <3> SUFFICES ASSUME NEW i \in 1..(Len(channel) - 1)
                 PROVE  channel'[i].fills # {} => channel'[i].cursor # None
      BY <1>3
    <3>1. i + 1 \in DOMAIN channel /\ channel'[i] = channel[i + 1]
      BY <1>3
    <3> QED BY <3>1 DEF Coverage, Modes
  <2> QED BY <1>1, <2>1, <2>2 DEF Coverage, Modes
<1> QED BY <1>9, <1>10, <1>11, <1>12, <1>13, <1>14 DEF Coverage

LEMMA CoverageInsertOk == ASSUME SInv, InsertOk PROVE Coverage'
<1> USE DEF SInv
<1>1. /\ main = "insert" /\ main' = "recv" /\ fills' = fills \cup work.fills
      /\ mem' = MemAfter(Inserted) /\ updated' = (updated \/ ShouldUpdate)
      /\ \/ UNCHANGED <<ckpt, base>>
         \/ ShouldUpdate /\ ckpt' = mem' /\ base' = runBase
      /\ UNCHANGED <<channel, fetcher, curStart, cursor, page, swallowed, stepped,
                     runBase>>
  BY DEF InsertOk, task
<1>2. Grow
  BY <1>1 DEF Grow
<1>3. \A h : Read(h) => Read(h)'
  BY <1>2, ReadStays
<1>4. \A h : InHand(h) => Read(h)'
  BY <1>1 DEF InHand, Read, Stored
<1>5. \A h, n : InChannel(h, n) <=> InChannel(h, n)'
  BY <1>1 DEF InChannel
<1>6. \A h : Pending(h) => Pending(h)'
  BY <1>1, <1>3, <1>4, <1>5 DEF Pending
<1>7. WorkPart'
  BY <1>1 DEF WorkPart
<1>8. ChannelPart'
  BY <1>1, <1>3, <1>4, <1>5 DEF Coverage, ChannelPart, HoursTo
<1>9. PagePart' /\ PositionPart'
  BY <1>1, <1>6 DEF Coverage, PagePart, PositionPart, HoursTo
<1>10. ASSUME ShouldUpdate
       PROVE  /\ mem'.cursor # None
              /\ \A h \in HoursTo(CursorHour(mem'.cursor)) : Read(h)'
  <2>1. mem'.cursor = work.cursor /\ work.cursor # None
    BY <1>1, <1>10 DEF MemAfter, ShouldUpdate, Coverage, Modes
  <2> QED BY <1>1, <1>3, <1>4, <2>1 DEF Coverage, WorkPart
<1>11. MemPart' /\ (updated' => mem'.cursor # None)
  <2>1. CASE ShouldUpdate
    BY <1>1, <1>10, <2>1 DEF MemPart, HoursTo
  <2>2. CASE ~ShouldUpdate
    <3>1. mem' = mem /\ updated' = updated
      <4>1. updated \in BOOLEAN
        BY DEF IInv, TypeOK, MainOK
      <4> QED BY <1>1, <2>2, <4>1 DEF MemAfter
    <3> QED BY <1>1, <1>3, <3>1 DEF Coverage, MemPart, HoursTo, Modes
  <2> QED BY <2>1, <2>2
<1>12. RowPart' /\ base' \in Int
  <2>1. CASE UNCHANGED <<ckpt, base>>
    BY <1>3, <2>1 DEF Coverage, RowPart, Promised, Modes
  <2>2. CASE ShouldUpdate /\ ckpt' = mem' /\ base' = runBase
    <3>1. ResumeHour(ckpt') = CursorHour(mem'.cursor)
      BY <1>10, <2>2 DEF ResumeHour
    <3> QED BY <1>10, <2>2, <3>1 DEF Coverage, RowPart, Promised, HoursTo, Modes
  <2> QED BY <1>1, <2>1, <2>2
<1>13. Modes'
  BY <1>1, <1>11, <1>12 DEF Coverage, Modes
<1> QED BY <1>7, <1>8, <1>9, <1>11, <1>12, <1>13 DEF Coverage

LEMMA CoverageStep == SInv /\ [Next]_vars => Coverage'
<1> SUFFICES ASSUME SInv, [Next]_vars PROVE Coverage'
  OBVIOUS
<1>1. CASE Tick \/ (\E h \in Hours : Publish(h)) \/ UNCHANGED vars
  <2>1. Grow /\ UNCHANGED <<main, work, channel, runBase, ckpt, base, updated, mem,
                            fetcher, curStart, cursor, page>>
    BY <1>1 DEF Tick, Publish, vars, db, run, task, ghost, Grow
  <2> QED BY <2>1, SameCoverage DEF SInv
<1>2. ASSUME NEW w \in Windows, BeginRun(w) PROVE Coverage'
  BY <1>2, CoverageBeginRun, BackfillAssumption
<1> QED BY <1>1, <1>2, CoverageEnds, CoverageInsertError,
           CoverageDecideFetch, CoverageFetcher, CoverageRecv, CoverageInsertOk
        DEF Next, MainStep, Rest

LEMMA CoverageInit == Init => Coverage
<1> SUFFICES ASSUME Init PROVE Coverage
  OBVIOUS
<1>1. ckpt \in Checkpoint /\ base = ResumeHour(ckpt)
  BY BackfillAssumption DEF Init
<1>2. base \in Int
  <2>1. ckpt.cursor # None => CursorHour(ckpt.cursor) \in Int
    BY <1>1, TimeTypes DEF Checkpoint, Cursors
  <2>2. ckpt.ts # None => HourOf(ckpt.ts) \in Int
    BY <1>1, TimeTypes DEF Checkpoint
  <2> QED BY <1>1, <2>1, <2>2 DEF ResumeHour
<1>3. Promised(ckpt, base) = {}
  BY <1>1, <1>2 DEF Promised
<1>4. RowPart
  BY <1>3 DEF RowPart
<1>5. DOMAIN channel = {} /\ channel = <<>>
  BY DEF Init
<1> QED BY <1>2, <1>4, <1>5 DEF Init, Coverage, MemPart, WorkPart, ChannelPart,
           PagePart, PositionPart, Modes

LEMMA SoundInit == Init => SInv
  BY InitInv, PositionsInit, CoverageInit DEF SInv

LEMMA SoundStep == SInv /\ [Next]_vars => SInv'
  BY StepInv, PositionsStep, CoverageStep DEF SInv

LEMMA SoundnessInvariant == Spec => []SInv
  BY SoundInit, SoundStep, PTL DEF Spec

(* The checkpoint never promises what the table does not hold, for every      *)
(* page size, channel, window, bucket and sequence of errors and crashes:     *)
(* every hour it says has been read is stored, failed in a parallel page, or  *)
(* was stepped over.                                                          *)
THEOREM CheckpointIsSound == Spec => []CheckpointSound
<1>1. SInv => CheckpointSound
  BY DEF SInv, Coverage, RowPart, Read, CheckpointSound
<1> QED BY <1>1, SoundnessInvariant, PTL
-----------------------------------------------------------------------------
(* The order of pages: although a skip or an empty page can take the fetcher  *)
(* back, no page that has fills ends before a fill that is already on its way *)
(* or saved, so that once a run has saved a page none is refused any more.    *)
FromFile(f) == f \in Int /\ f \in File[HourOf(f)]
NotBehind(f, got) == got.fills # {} => f <= Max(got.fills)

(* Fill f is not after any page behind place k of the channel. *)
Ahead(f, k) ==
  /\ FromFile(f)
  /\ \A j \in DOMAIN channel : j > k => NotBehind(f, channel[j])
  /\ fetcher = "send" => NotBehind(f, page)
  /\ fetcher \in {"init", "loop", "fetch", "retry", "send"} => f <= curStart

MemOrder == updated => Ahead(mem.ts, 0) /\ (main = "insert" => NotBehind(mem.ts, work))
WorkOrder == main = "insert" => \A f \in work.fills : Ahead(f, 0)
ChannelOrder == \A i \in DOMAIN channel : \A f \in channel[i].fills : Ahead(f, i)
PageOrder == fetcher = "send" => \A f \in page.fills : FromFile(f) /\ f <= curStart
CountPart == updated => mem.records = total
Order == MemOrder /\ WorkOrder /\ ChannelOrder /\ PageOrder /\ CountPart

LEMMA OrderOff ==
  ASSUME main \notin {"recv", "insert"}, ~updated, channel = <<>>, fetcher = "off"
  PROVE  Order
<1>1. DOMAIN channel = {}
  OBVIOUS
<1> QED BY <1>1 DEF Order, MemOrder, WorkOrder, ChannelOrder, PageOrder, CountPart

LEMMA OrderOffNext ==
  ASSUME main' \notin {"recv", "insert"}, ~updated', channel' = <<>>, fetcher' = "off"
  PROVE  Order'
<1>1. DOMAIN channel' = {}
  OBVIOUS
<1> QED BY <1>1 DEF Order, MemOrder, WorkOrder, ChannelOrder, PageOrder, CountPart

(* A step of the fetcher that keeps what is on its way keeps its order. *)
LEMMA OrderKept ==
  ASSUME Order, UNCHANGED <<main, work, mem, updated, total, channel>>,
         fetcher' # "send",
         \A f : \A k : Ahead(f, k) => Ahead(f, k)'
  PROVE  Order'
BY DEF Order, MemOrder, WorkOrder, ChannelOrder, PageOrder, CountPart, NotBehind

LEMMA OrderFetchReturn == ASSUME SInv, Order, FetchReturn PROVE Order'
<1> DEFINE pos == ReadPosition(curStart, cursor)
<1>1. PICK failing : page' = FetchPage(pos, reading, published, failing, now)
  BY DEF FetchReturn
<1>2. /\ fetcher = "fetch" /\ fetcher' = "send" /\ curStart' = NextStart(page')
      /\ UNCHANGED <<main, work, mem, updated, total, channel>>
  BY DEF FetchReturn, run
<1>3. /\ reading \in 0..PageHours /\ now \in Int /\ published \in SUBSET Hours
      /\ pos \in Int /\ HourOf(pos) \in Int /\ curStart \in Int
      /\ HourOf(curStart) \in Int /\ HourOf(curStart) <= HourOf(pos)
      /\ HourEnd \in Int /\ HourOf(HourEnd) = HourOf(curStart) + 1
  BY <1>2, PositionsOf DEF SInv, IInv, TypeOK, FetcherOK, EnvOK, Positions
<1>4. page' \in Pages /\ HasWholeHours(pos, page')
  BY <1>1, <1>3, FetchPageType, PageIsWhole
<1> HIDE DEF pos
<1>5. page'.fills \in Batches
  BY <1>4 DEF Pages
<1>6. page'.fills # {} => /\ curStart' = Max(page'.fills) /\ Max(page'.fills) \in Int
                          /\ \A f \in page'.fills : f <= Max(page'.fills)
  BY <1>2, <1>5, BatchTypes, MaxProperties DEF NextStart, Batches
<1>7. page'.fills = {} => curStart' = HourEnd
  BY <1>2 DEF NextStart
<1>8. ASSUME NEW f, FromFile(f), f <= curStart PROVE NotBehind(f, page') /\ f <= curStart'
  <2>1. f \in Int /\ f \in File[HourOf(f)] /\ HourOf(f) \in Int
    BY <1>8, TimeTypes DEF FromFile
  <2>2. HourOf(f) <= HourOf(curStart)
    BY <1>3, <1>8, <2>1, HourMonotonic
  <2>3. HourOf(f) <= HourOf(pos)
    BY <1>3, <2>1, <2>2
  <2>4. CASE page'.fills # {}
    <3>1. f <= Max(page'.fills)
      BY <1>3, <1>4, <2>1, <2>3, <2>4, WholePageGoesOn
    <3> QED BY <1>6, <2>4, <3>1 DEF NotBehind
  <2>5. CASE page'.fills = {}
    <3>1. curStart < HourEnd
      BY <1>3, HourBounds DEF HourEnd
    <3> QED BY <1>3, <1>7, <1>8, <2>1, <2>5, <3>1 DEF NotBehind
  <2> QED BY <2>4, <2>5
<1>9. ASSUME NEW f, NEW k, Ahead(f, k) PROVE Ahead(f, k)'
  <2>1. FromFile(f) /\ f <= curStart
    BY <1>2, <1>9 DEF Ahead
  <2>2. NotBehind(f, page)' /\ f <= curStart'
    BY <1>8, <2>1 DEF NotBehind
  <2> QED BY <1>2, <1>9, <2>1, <2>2 DEF Ahead, NotBehind, FromFile
<1>10. PageOrder'
  BY <1>4, <1>6 DEF PageOrder, HasWholeHours, FromFile
<1> QED BY <1>2, <1>9, <1>10
        DEF Order, MemOrder, WorkOrder, ChannelOrder, CountPart, NotBehind

LEMMA OrderFetcherSend == ASSUME SInv, Order, FetcherSend PROVE Order'
<1>1. /\ fetcher = "send" /\ UNCHANGED curStart /\ fetcher' \in {"loop", "done"}
      /\ channel' = Append(channel, page)
      /\ UNCHANGED <<main, work, mem, updated, total>>
  BY DEF FetcherSend, run
<1>2. channel \in Seq(Pages) /\ page \in Pages
  BY <1>1 DEF SInv, IInv, TypeOK, FetcherOK
<1>3. /\ Len(channel) \in Nat /\ DOMAIN channel = 1..Len(channel)
      /\ DOMAIN channel' = 1..(Len(channel) + 1) /\ channel'[Len(channel) + 1] = page
      /\ \A i \in 1..Len(channel) : channel'[i] = channel[i]
  BY <1>1, <1>2, AppendProperties
<1>4. ASSUME NEW f, NEW k, Ahead(f, k) PROVE Ahead(f, k)'
  <2>1. ASSUME NEW j \in 1..(Len(channel) + 1), j > k PROVE NotBehind(f, channel'[j])
    <3>1. CASE j = Len(channel) + 1
      BY <1>1, <1>3, <1>4, <3>1 DEF Ahead
    <3>2. CASE j \in 1..Len(channel)
      BY <1>3, <1>4, <2>1, <3>2 DEF Ahead
    <3> QED BY <1>3, <3>1, <3>2
  <2> QED BY <1>1, <1>3, <1>4, <2>1 DEF Ahead, NotBehind, FromFile
<1>5. ASSUME NEW f \in page.fills, NEW k, k = Len(channel) + 1 PROVE Ahead(f, k)'
  <2>1. FromFile(f) /\ f <= curStart
    BY <1>1, <1>5 DEF Order, PageOrder
  <2>2. \A j \in DOMAIN channel' : ~(j > k)
    BY <1>3, <1>5
  <2> QED BY <1>1, <2>1, <2>2 DEF Ahead, FromFile
<1>6. ChannelOrder'
  <2> SUFFICES ASSUME NEW i \in 1..(Len(channel) + 1), NEW f \in channel'[i].fills
               PROVE  Ahead(f, i)'
    BY <1>3 DEF ChannelOrder
  <2>1. CASE i = Len(channel) + 1
    BY <1>3, <1>5, <2>1
  <2>2. CASE i \in 1..Len(channel)
    BY <1>3, <1>4, <2>2 DEF Order, ChannelOrder
  <2> QED BY <1>3, <2>1, <2>2
<1>7. MemOrder' /\ WorkOrder' /\ PageOrder' /\ CountPart'
  BY <1>1, <1>4 DEF Order, MemOrder, WorkOrder, PageOrder, CountPart, NotBehind
<1> QED BY <1>6, <1>7 DEF Order

LEMMA OrderFetcher == ASSUME SInv, Order, FetcherStep PROVE Order'
<1>1. CASE FetcherInit \/ FetcherReachesEnd \/ FetchCall \/ FetchError
  <2>1. /\ UNCHANGED <<main, work, mem, updated, total, channel, curStart, page>>
        /\ fetcher \in {"init", "loop", "fetch", "retry"} /\ fetcher' # "send"
    BY <1>1 DEF FetcherInit, FetcherReachesEnd, FetchCall, FetchError, run
  <2>2. \A f : \A k : Ahead(f, k) => Ahead(f, k)'
    BY <2>1 DEF Ahead, NotBehind, FromFile
  <2> QED BY <2>1, <2>2, OrderKept
<1>2. CASE FetcherSkips
  <2>1. /\ UNCHANGED <<main, work, mem, updated, total, channel>>
        /\ fetcher = "loop" /\ fetcher' = "loop" /\ curStart' = HourEnd
    BY <1>2 DEF FetcherSkips, run
  <2>2. curStart \in Int /\ HourEnd \in Int /\ curStart < HourEnd
    <3>1. curStart \in Int /\ HourEnd \in Int
      BY PositionsOf DEF SInv
    <3> QED BY <3>1, HourBounds DEF HourEnd
  <2>3. \A f : \A k : Ahead(f, k) => Ahead(f, k)'
    BY <2>1, <2>2 DEF Ahead, NotBehind, FromFile
  <2> QED BY <2>1, <2>3, OrderKept
<1> QED BY <1>1, <1>2, OrderFetchReturn, OrderFetcherSend DEF FetcherStep

LEMMA OrderRecv == ASSUME SInv, Order, Recv PROVE Order'
<1>1. /\ main = "recv" /\ main' = "insert" /\ channel # <<>>
      /\ work' = Head(channel) /\ channel' = Tail(channel)
      /\ UNCHANGED <<mem, updated, total, fetcher, curStart, page>>
  BY DEF Recv, task
<1>2. channel \in Seq(Pages)
  BY DEF SInv, IInv, TypeOK, FetcherOK
<1>3. /\ Len(channel) \in Nat \ {0} /\ DOMAIN channel = 1..Len(channel)
      /\ work' = channel[1] /\ Len(channel') = Len(channel) - 1
      /\ DOMAIN channel' = 1..(Len(channel) - 1)
      /\ \A i \in 1..(Len(channel) - 1) : channel'[i] = channel[i + 1]
  BY <1>1, <1>2, HeadTailProperties
<1>4. ASSUME NEW f, NEW k \in Nat, NEW m \in Nat, k <= m + 1, Ahead(f, k)
      PROVE  Ahead(f, m)'
  <2>1. ASSUME NEW j \in 1..(Len(channel) - 1), j > m PROVE NotBehind(f, channel'[j])
    <3>1. j + 1 \in DOMAIN channel /\ j + 1 > k /\ channel'[j] = channel[j + 1]
      BY <1>3, <1>4, <2>1
    <3> QED BY <1>4, <3>1 DEF Ahead
  <2> QED BY <1>1, <1>3, <1>4, <2>1 DEF Ahead, NotBehind, FromFile
<1>5. MemOrder'
  <2> SUFFICES ASSUME updated PROVE Ahead(mem.ts, 0)' /\ NotBehind(mem.ts, work)'
    BY <1>1 DEF MemOrder
  <2>1. Ahead(mem.ts, 0)
    BY DEF Order, MemOrder
  <2>2. NotBehind(mem.ts, channel[1])
    <3>1. 1 \in DOMAIN channel /\ 1 > 0
      BY <1>3
    <3> QED BY <2>1, <3>1 DEF Ahead
  <2>3. Ahead(mem.ts, 0)'
    <3>1. 0 <= 0 + 1 /\ 0 \in Nat /\ mem'.ts = mem.ts
      BY <1>1
    <3> QED BY <1>4, <2>1, <3>1 DEF Ahead
  <2> QED BY <1>1, <1>3, <2>2, <2>3 DEF NotBehind
<1>6. WorkOrder'
  <2>1. 1 \in DOMAIN channel /\ 1 \in Nat /\ 0 \in Nat /\ 1 <= 0 + 1
    BY <1>3
  <2>2. \A f \in channel[1].fills : Ahead(f, 1)
    BY <2>1 DEF Order, ChannelOrder
  <2> QED BY <1>3, <1>4, <2>1, <2>2 DEF WorkOrder
<1>7. ChannelOrder'
  <2> SUFFICES ASSUME NEW i \in 1..(Len(channel) - 1), NEW f \in channel'[i].fills
               PROVE  Ahead(f, i)'
    BY <1>3 DEF ChannelOrder
  <2>1. i + 1 \in DOMAIN channel /\ channel'[i] = channel[i + 1]
        /\ i \in Nat /\ i + 1 \in Nat /\ i + 1 <= i + 1
    BY <1>3
  <2>2. Ahead(f, i + 1)
    BY <2>1 DEF Order, ChannelOrder
  <2> QED BY <1>4, <2>1, <2>2
<1>8. PageOrder' /\ CountPart'
  BY <1>1 DEF Order, PageOrder, CountPart, FromFile
<1> QED BY <1>5, <1>6, <1>7, <1>8 DEF Order

(* Once a run has saved a page in memory it refuses none. *)
LEMMA NoneRefused ==
  ASSUME SInv, Order, main = "insert", updated, work.fills # {}
  PROVE  ShouldUpdate
<1>1. mem.ts \in Int /\ mem.ts <= Max(work.fills)
  BY DEF Order, MemOrder, NotBehind, Ahead, FromFile
<1>2. work.fills \in Batches
  BY DEF SInv, IInv, TypeOK, MainOK, Pages
<1>3. Max(work.fills) \in Int
  BY <1>2, BatchTypes
<1> QED BY <1>1, <1>3 DEF ShouldUpdate

LEMMA OrderInsertOk == ASSUME SInv, Order, InsertOk PROVE Order'
<1>1. /\ main = "insert" /\ main' = "recv" /\ total' = total + Inserted
      /\ mem' = MemAfter(Inserted) /\ updated' = (updated \/ ShouldUpdate)
      /\ UNCHANGED <<channel, fetcher, curStart, page>>
  BY DEF InsertOk, task
<1>2. \A f : \A k : Ahead(f, k) => Ahead(f, k)'
  BY <1>1 DEF Ahead, NotBehind, FromFile
<1>3. /\ work.fills \in Batches /\ updated \in BOOLEAN /\ total \in Nat
  BY <1>1 DEF SInv, IInv, TypeOK, MainOK, Pages
<1>4. WorkOrder' /\ ChannelOrder' /\ PageOrder'
  BY <1>1, <1>2 DEF Order, WorkOrder, ChannelOrder, PageOrder, FromFile
<1>5. CASE ShouldUpdate
  <2>1. mem'.ts = Max(work.fills) /\ mem'.records = total + Inserted
    BY <1>1, <1>5 DEF MemAfter
  <2>2. Max(work.fills) \in work.fills
    BY <1>3, <1>5, BatchTypes DEF ShouldUpdate
  <2>3. Ahead(Max(work.fills), 0)
    BY <1>1, <2>2 DEF Order, WorkOrder
  <2>4. Ahead(mem.ts, 0)'
    BY <1>2, <2>1, <2>3 DEF Ahead
  <2> QED BY <1>1, <1>4, <2>1, <2>4 DEF Order, MemOrder, CountPart
<1>6. CASE ~ShouldUpdate
  <2>1. mem' = mem /\ updated' = updated
    BY <1>1, <1>3, <1>6 DEF MemAfter
  <2>2. updated => Inserted = 0
    <3>1. SUFFICES ASSUME updated PROVE Inserted = 0
      OBVIOUS
    <3>2. work.fills = {}
      BY <1>1, <1>6, <3>1, NoneRefused
    <3>3. work.fills \ fills = {}
      BY <3>2
    <3> QED BY <3>3, FS_EmptySet DEF Inserted
  <2>3. updated => Ahead(mem.ts, 0)'
    BY <1>2, <2>1 DEF Order, MemOrder, Ahead
  <2> QED BY <1>1, <1>3, <1>4, <2>1, <2>2, <2>3 DEF Order, MemOrder, CountPart
<1> QED BY <1>5, <1>6

LEMMA OrderStep == SInv /\ Order /\ [Next]_vars => Order'
<1> SUFFICES ASSUME SInv, Order, [Next]_vars PROVE Order'
  OBVIOUS
<1>1. CASE UNCHANGED <<main, work, mem, updated, total, channel, fetcher, curStart, page>>
  BY <1>1 DEF Order, MemOrder, WorkOrder, ChannelOrder, PageOrder, CountPart, Ahead,
              NotBehind, FromFile
<1>2. CASE Tick \/ (\E h \in Hours : Publish(h)) \/ UNCHANGED vars
  BY <1>1, <1>2 DEF Tick, Publish, vars, run, task
<1>3. ASSUME NEW how, EndRun(how) PROVE Order'
  BY <1>3, OrderOffNext DEF EndRun
<1>4. CASE Crash \/ DecideComplete \/ Finish
  BY <1>3, <1>4 DEF Crash, DecideComplete, Finish
<1>5. CASE InsertError
  <2>1. EndRun("failed")
        \/ UNCHANGED <<main, work, mem, updated, total, channel, fetcher, curStart, page>>
    BY <1>5 DEF InsertError, task
  <2> QED BY <1>1, <1>3, <2>1
<1>6. ASSUME NEW w \in Windows, BeginRun(w) PROVE Order'
  <2>1. /\ main = "idle" /\ main' = "decide" /\ UNCHANGED <<updated, channel, fetcher>>
    BY <1>6 DEF BeginRun, task
  <2>2. ~updated' /\ channel' = <<>> /\ fetcher' = "off"
    BY <2>1 DEF SInv, Coverage, Modes
  <2> QED BY <2>1, <2>2, OrderOffNext
<1>7. CASE DecideFetch
  <2>1. main' = "recv" /\ ~updated' /\ fetcher' = "init" /\ channel' = <<>>
    BY <1>7 DEF DecideFetch, SInv, Coverage, Modes
  <2>2. DOMAIN channel' = {}
    BY <2>1
  <2> QED BY <2>1, <2>2
          DEF Order, MemOrder, WorkOrder, ChannelOrder, PageOrder, CountPart
<1> QED BY <1>2, <1>4, <1>5, <1>6, <1>7, OrderFetcher, OrderRecv, OrderInsertOk
        DEF Next, MainStep, Rest

LEMMA OrderInit == Init => Order
  BY OrderOff DEF Init
-----------------------------------------------------------------------------
(* Each step of a run is a step of a CheckpointedReader, or none.  What the   *)
(* reader has done is behind the position a run began at until it saves a     *)
(* page, and that position stays what it was: the branch that goes back is    *)
(* dead when the run decides, and more fills only leave fewer gaps.           *)
NoGoBack == main \in {"recv", "insert"} /\ ~updated => ~GoesBack

RInv == SInv /\ Order /\ GoBackUnreachable /\ NoGoBack

LEMMA GapsShrink ==
  ASSUME IInv, IInv', fills \subseteq fills', UNCHANGED <<mem, start>>, ~GoesBack
  PROVE  ~GoesBack'
<1> SUFFICES ASSUME ContinuesFromCheckpoint, GoesBack' PROVE FALSE
  BY DEF GoesBack, ContinuesFromCheckpoint
<1>1. /\ fills' \in Batches /\ start \in Int /\ mem.ts \in Int /\ GoBackGap \in Nat
  BY BackfillAssumption
     DEF IInv, TypeOK, DbOK, MainOK, Checkpoint, ContinuesFromCheckpoint
<1>2. Missing(fills', start, mem.ts) \subseteq Missing(fills, start, mem.ts)
  BY <1>1, MissingShrinks
<1>3. GapsAfterStart' \in SUBSET GapsAfterStart
  BY <1>2 DEF GapsAfterStart
<1>4. GapsAfterStart \in SUBSET Missing(fills, start, mem.ts)
  BY DEF GapsAfterStart
<1>5. IsFiniteSet(GapsAfterStart)
  BY <1>1, <1>4, MissingFinite, FS_Subset
<1>6. /\ Cardinality(GapsAfterStart') <= Cardinality(GapsAfterStart)
      /\ Cardinality(GapsAfterStart') \in Nat /\ Cardinality(GapsAfterStart) \in Nat
  BY <1>3, <1>5, FS_Subset, FS_CardinalityType
<1> QED BY <1>1, <1>6 DEF GoesBack

LEMMA NoGoBackStep == IInv /\ IInv' /\ GoBackUnreachable /\ NoGoBack /\ [Next]_vars => NoGoBack'
<1> SUFFICES ASSUME IInv, IInv', GoBackUnreachable, NoGoBack, [Next]_vars PROVE NoGoBack'
  OBVIOUS
<1>1. CASE main' \notin {"recv", "insert"}
  BY <1>1 DEF NoGoBack
<1>2. ASSUME main' = main, UNCHANGED <<updated, mem, start>>, fills \subseteq fills'
      PROVE  NoGoBack'
  BY <1>2, GapsShrink DEF NoGoBack
<1>3. CASE Tick \/ (\E h \in Hours : Publish(h)) \/ FetcherStep \/ UNCHANGED vars
  <2>1. main' = main /\ UNCHANGED <<updated, mem, start, fills>>
    BY <1>3 DEF Tick, Publish, FetcherStep, FetcherInit, FetcherReachesEnd, FetcherSkips,
           FetchCall, FetchReturn, FetchError, FetcherSend, vars, run, db
  <2> QED BY <1>2, <2>1
<1>4. CASE DecideFetch
  <2>1. /\ main = "decide" /\ ~EndsBehindCheckpoint /\ UNCHANGED <<mem, start, fills>>
    BY <1>4 DEF DecideFetch, db
  <2>2. ~GoesBack'
    BY <2>1, GapsShrink DEF GoBackUnreachable
  <2> QED BY <2>2 DEF NoGoBack
<1>5. CASE Recv
  <2>1. main = "recv" /\ UNCHANGED <<updated, mem, start, fills>>
    BY <1>5 DEF Recv, db
  <2> QED BY <2>1, GapsShrink DEF NoGoBack
<1>6. CASE InsertOk
  <2> SUFFICES ASSUME ~updated' PROVE ~GoesBack'
    BY DEF NoGoBack
  <2>1. main = "insert" /\ ~updated /\ mem' = mem /\ start' = start /\ fills \subseteq fills'
    BY <1>6 DEF InsertOk, MemAfter
  <2> QED BY <2>1, GapsShrink DEF NoGoBack
<1>7. CASE InsertError
  BY <1>1, <1>2, <1>7 DEF InsertError, EndRun
<1> QED BY <1>1, <1>3, <1>4, <1>5, <1>6, <1>7
        DEF Next, MainStep, Rest, Crash, BeginRun, DecideComplete, Finish, EndRun

(* The reader's own copies of the standard operators are these. *)
LEMMA SameSize ==
  \A S : /\ Reader!IsFiniteSet(S) <=> IsFiniteSet(S)
         /\ Reader!Cardinality(S) = Cardinality(S)
BY DEF Reader!IsFiniteSet, IsFiniteSet, Reader!Cardinality, Cardinality

(* Whether the main task is at its loop, and what it has inserted of its pass.*)
Looping == main \in {"recv", "insert"}
Inserts == (runBase .. (ReadTo - 1)) \cap Hours

LEMMA ReaderDone ==
  /\ Reader!Done = {h \in Hours : Read(h)}
  /\ Reader!Done' = {h \in Hours : Read(h)'}
BY DEF Reader!Done, Reader!AllHours, Hours, Read, Stored

LEMMA TableGrows ==
  ASSUME Grow, fills' \in Batches
  PROVE  Reader!Grows
<1>1. fills \subseteq fills' /\ IsFiniteSet(fills')
  BY DEF Grow, Batches
<1>2. (swallowed \cup stepped) \cap Hours \subseteq (swallowed' \cup stepped') \cap Hours
  BY DEF Grow
<1>3. (swallowed' \cup stepped') \cap Hours \subseteq Reader!AllHours
  BY DEF Reader!AllHours, Hours
<1> QED BY <1>1, <1>2, <1>3, SameSize DEF Reader!Grows

SavesSomething == [done |-> Inserts, records |-> total] # None

LEMMA ReaderRuns == RInv => SavesSomething
<1> SUFFICES ASSUME RInv PROVE SavesSomething
  OBVIOUS
<1>1. Inserts \in SUBSET Hours /\ total \in Nat
  BY DEF RInv, SInv, IInv, TypeOK, MainOK, Inserts
<1> QED BY <1>1, NoneAssumption DEF SavesSomething

LEMMA ReaderRunsNext == RInv' => SavesSomething'
  BY ReaderRuns, PTL

(* What the main task has inserted does not change before it saves a page.    *)
LEMMA InsertsKept ==
  ASSUME RInv, RInv', Looping, Looping', UNCHANGED <<mem, start, updated, runBase>>
  PROVE  Inserts' = Inserts
<1>1. CASE updated
  BY <1>1 DEF Inserts, ReadTo
<1>2. CASE ~updated
  <2>1. ~GoesBack /\ ~GoesBack'
    BY <1>2 DEF RInv, NoGoBack, Looping
  <2>2. StartPosition' = StartPosition /\ StartCursor' = StartCursor
    BY <2>1 DEF StartPosition, StartCursor, ContinuesFromCheckpoint
  <2> QED BY <1>2, <2>2 DEF Inserts, ReadTo, ReadPosition
<1> QED BY <1>1, <1>2

LEMMA ReaderInit == Init => Reader!Init
<1> SUFFICES ASSUME Init PROVE Reader!Init
  OBVIOUS
<1>1. /\ main = "idle" /\ fills \in Batches /\ ckpt \in Checkpoint /\ IInv
      /\ base = ResumeHour(ckpt) /\ Coverage
  BY InitInv, CoverageInit DEF Init, IInv, TypeOK, DbOK
<1>2. Promised(ckpt, base) = {}
  <2>1. base \in Int
    BY <1>1 DEF Coverage, Modes
  <2> QED BY <1>1, <2>1 DEF Promised
<1>3. ckpt.records \in 0..Cardinality(fills) /\ IsFiniteSet(fills)
  BY <1>1, FS_CardinalityType DEF IInv, CountsOK, Checkpoint, Batches
<1>4. (swallowed \cup stepped) \cap Hours \subseteq Reader!AllHours
  BY DEF Reader!AllHours, Hours
<1> QED BY <1>1, <1>2, <1>3, <1>4, SameSize DEF Reader!Init

(* A run that begins takes back what the row says, or leaves it.  *)
LEMMA BeginResets ==
  ASSUME RInv, RInv', NEW w \in Windows, BeginRun(w)
  PROVE  Reader!Reset
<1> DEFINE gaps == GapsBelow(ckpt, w.start, w.end)
<1>1. /\ main = "idle" /\ main' = "decide" /\ ckpt' = mem'
      /\ UNCHANGED <<fills, swallowed, stepped>>
  BY DEF BeginRun
<1>2. /\ ckpt \in Checkpoint /\ base \in Int /\ fills' \in Batches
      /\ ResumeHour(ckpt) \in Int
  <2>1. ckpt \in Checkpoint /\ base \in Int /\ fills' \in Batches
    BY DEF RInv, SInv, IInv, TypeOK, DbOK, Coverage, Modes
  <2>2. ckpt.cursor # None => CursorHour(ckpt.cursor) \in Int
    BY <2>1, TimeTypes DEF Checkpoint, Cursors
  <2>3. ckpt.ts # None => HourOf(ckpt.ts) \in Int
    BY <2>1, TimeTypes DEF Checkpoint
  <2> QED BY <2>1, <2>2, <2>3 DEF ResumeHour
<1>3. ckpt'.records = ckpt.records /\ Promised(ckpt, base)' \subseteq Promised(ckpt, base)
  <2>1. CASE ~Refreshes(gaps)
    BY <1>1, <2>1 DEF BeginRun, Promised
  <2>2. CASE Refreshes(gaps)
    <3> DEFINE gap == Min(gaps)
    <3>1. gap \in Int /\ gap < ResumeHour(ckpt)
      BY <2>2, ResetGoesBack, BackfillAssumption DEF RInv, SInv
    <3>2. ckpt' = BackTo(ckpt, gap) /\ base' = Min({base, gap})
      BY <1>1, <2>2 DEF BeginRun
    <3> HIDE DEF gap
    <3>3. ResumeHour(ckpt') = gap /\ ckpt'.records = ckpt.records
      BY <1>2, <3>1, <3>2, BackToAgrees DEF BackTo, Checkpoint
    <3>4. base' \in {base, gap} /\ base' <= gap
      BY <1>2, <3>1, <3>2, EarlierOf
    <3>5. CASE base' = base
      BY <1>2, <3>1, <3>3, <3>5 DEF Promised
    <3>6. CASE base' = gap
      BY <3>1, <3>3, <3>6 DEF Promised
    <3> QED BY <3>3, <3>4, <3>5, <3>6
  <2> QED BY <2>1, <2>2
<1>4. Reader!Grows
  BY <1>1, <1>2, TableGrows DEF Grow
<1>5. Reader!Lower
  BY <1>3 DEF Reader!Lower
<1> QED BY <1>1, <1>4, <1>5 DEF Reader!Reset

(* A run that decides to fetch loads the row.  *)
LEMMA DecideLoads ==
  ASSUME RInv, RInv', DecideFetch
  PROVE  Reader!Load
<1>1. /\ main = "decide" /\ main' = "recv" /\ ~updated' /\ total' = mem.records
      /\ UNCHANGED <<fills, ckpt, base, swallowed, stepped, mem, start>>
      /\ runBase' = IF ContinuesFromCheckpoint THEN base ELSE HourOf(StartPosition)
  BY DEF DecideFetch, CarriedTotal, db
<1>2. /\ mem = ckpt /\ mem \in Checkpoint /\ TimeAndCursorAgree(mem) /\ start \in Int
      /\ base \in Int /\ fills' \in Batches
  BY <1>1 DEF RInv, SInv, IInv, TypeOK, MainOK, DbOK, Positions, Coverage, Modes
<1>3. ~GoesBack'
  BY <1>1 DEF RInv, NoGoBack
<1>4. Inserts' \subseteq Promised(ckpt, base)' \cap Hours
  <2>1. ReadTo' = HourOf(ReadPosition(StartPosition', StartCursor'))
    BY <1>1 DEF ReadTo, ReadPosition
  <2>2. CASE ContinuesFromCheckpoint
    <3>1. mem.ts # None /\ StartPosition' = mem.ts /\ StartCursor' = mem.cursor
      BY <1>1, <1>3, <2>2 DEF StartPosition, StartCursor, ContinuesFromCheckpoint
    <3>2. ReadTo' = ResumeHour(mem)
      BY <1>2, <2>1, <3>1, ResumeTypes
    <3> QED BY <1>1, <1>2, <2>2, <3>2 DEF Inserts, Promised
  <2>3. CASE ~ContinuesFromCheckpoint
    <3>1. /\ StartPosition' = start /\ StartCursor' = None /\ StartPosition = start
      BY <1>1, <1>3, <2>3 DEF StartPosition, StartCursor, ContinuesFromCheckpoint, GoesBack
    <3>2. ReadTo' = HourOf(start) /\ runBase' = HourOf(start) /\ HourOf(start) \in Int
      BY <1>1, <1>2, <2>1, <2>3, <3>1, TimeTypes DEF ReadPosition
    <3>3. runBase' .. (ReadTo' - 1) = {}
      BY <3>2
    <3> QED BY <3>3 DEF Inserts
  <2> QED BY <2>2, <2>3
<1>5. Reader!Grows
  BY <1>1, <1>2, TableGrows DEF Grow
<1>6. [done |-> Inserts', records |-> total'] # None
  BY ReaderRunsNext DEF SavesSomething
<1>7. Reader!Lower
  BY <1>1 DEF Reader!Lower, Promised, ResumeHour
<1> QED BY <1>1, <1>2, <1>4, <1>5, <1>6, <1>7 DEF Reader!Load, Inserts

LEMMA InsertAdvances == ASSUME RInv, RInv', InsertOk PROVE Reader!Advance
<1>1. /\ main = "insert" /\ main' = "recv" /\ fills' = fills \cup work.fills
      /\ total' = total + Inserted /\ mem' = MemAfter(Inserted)
      /\ updated' = (updated \/ ShouldUpdate)
      /\ \/ UNCHANGED <<ckpt, base>>
         \/ ShouldUpdate /\ ckpt' = mem' /\ base' = runBase
      /\ UNCHANGED <<start, swallowed, stepped, runBase>>
  BY DEF InsertOk
<1>2. Reader!Grows
  BY <1>1, TableGrows DEF Grow, RInv, SInv, IInv, TypeOK, DbOK
<1>3. ASSUME updated' PROVE Inserts' = HoursTo(CursorHour(mem.cursor))'
  BY <1>3 DEF Inserts, ReadTo, HoursTo
<1>4. Inserts' \subseteq Inserts \cup Reader!Done'
  <2>1. CASE updated'
    <3>1. \A h \in Inserts' : h \in Hours /\ Read(h)'
      BY <1>3, <2>1 DEF RInv, SInv, Coverage, MemPart, HoursTo
    <3> QED BY <3>1, ReaderDone
  <2>2. CASE ~updated'
    <3>1. mem' = mem /\ updated' = updated
      BY <1>1, <2>2 DEF MemAfter, RInv, SInv, IInv, TypeOK, MainOK
    <3> QED BY <1>1, <3>1, InsertsKept DEF Looping
  <2> QED BY <2>1, <2>2
<1>5. fills' \ fills = work.fills \ fills
  BY <1>1
<1>6. total' = total + Cardinality(fills' \ fills)
  BY <1>1, <1>5 DEF Inserted
<1>7. [done |-> Inserts, records |-> total] # None
  BY ReaderRuns DEF SavesSomething
<1>8. [done |-> Inserts', records |-> total'] # None
  BY ReaderRunsNext DEF SavesSomething
<1>9. \/ Promised(ckpt, base)' = Promised(ckpt, base) /\ ckpt'.records = ckpt.records
      \/ Promised(ckpt, base)' \cap Hours = Inserts' /\ ckpt'.records = total'
  <2>1. CASE UNCHANGED <<ckpt, base>>
    BY <2>1 DEF Promised
  <2>2. CASE ShouldUpdate /\ ckpt' = mem' /\ base' = runBase
    <3>1. updated' /\ mem'.cursor # None /\ mem'.records = total'
      BY <1>1, <2>2 DEF RInv, SInv, Coverage, Modes, Order, CountPart
    <3>2. ResumeHour(ckpt') = CursorHour(mem'.cursor)
      BY <2>2, <3>1 DEF ResumeHour
    <3> QED BY <1>1, <1>3, <2>2, <3>1, <3>2 DEF Promised, HoursTo
  <2> QED BY <1>1, <2>1, <2>2
<1> QED BY <1>1, <1>2, <1>4, <1>6, <1>7, <1>8, <1>9, SameSize DEF Reader!Advance, Inserts

(* A step that ends the run, with a save or not, or that leaves fills behind. *)
LEMMA OtherLeaves ==
  ASSUME RInv, RInv', Looping, Grow,
         \/ ~Looping' /\ UNCHANGED <<ckpt, base>>
         \/ ~Looping' /\ updated /\ ckpt' = mem /\ base' = runBase
         \/ Looping' /\ UNCHANGED <<ckpt, base, mem, start, updated, runBase, total>>
  PROVE  Reader!Leave
<1>1. Reader!Grows
  BY TableGrows DEF RInv, SInv, IInv, TypeOK, DbOK
<1>2. [done |-> Inserts, records |-> total] # None
  BY ReaderRuns DEF SavesSomething
<1>3. CASE ~Looping' /\ UNCHANGED <<ckpt, base>>
  <2>1. Promised(ckpt, base)' = Promised(ckpt, base)
    BY <1>3 DEF Promised
  <2> QED BY <1>1, <1>2, <1>3, <2>1 DEF Reader!Leave, Looping, Inserts
<1>4. CASE ~Looping' /\ updated /\ ckpt' = mem /\ base' = runBase
  <2>1. mem.cursor # None /\ mem.records = total
    BY <1>4 DEF RInv, SInv, Coverage, Modes, Order, CountPart
  <2>2. Promised(ckpt, base)' = runBase .. (CursorHour(mem.cursor) - 1)
    BY <1>4, <2>1 DEF Promised, ResumeHour
  <2>3. Promised(ckpt, base)' \cap Hours = Inserts
    BY <1>4, <2>2 DEF Inserts, ReadTo
  <2> QED BY <1>1, <1>2, <1>4, <2>1, <2>3 DEF Reader!Leave, Looping, Inserts
<1>5. CASE Looping' /\ UNCHANGED <<ckpt, base, mem, start, updated, runBase, total>>
  <2>1. Inserts' = Inserts /\ Promised(ckpt, base)' = Promised(ckpt, base)
    BY <1>5, InsertsKept DEF Promised
  <2> QED BY <1>1, <1>2, <1>5, <2>1 DEF Reader!Leave, Looping, Inserts
<1> QED BY <1>3, <1>4, <1>5

LEMMA ReaderStep == RInv /\ RInv' /\ [Next]_vars => [Reader!Next]_(Reader!vars)
<1> SUFFICES ASSUME RInv, RInv', [Next]_vars PROVE [Reader!Next]_(Reader!vars)
  OBVIOUS
<1>1. ASSUME ~Looping, ~Looping', UNCHANGED <<fills, ckpt, base, swallowed, stepped>>
      PROVE  UNCHANGED Reader!vars
  BY <1>1 DEF Reader!vars, Looping, Promised
<1>2. ASSUME Looping, Looping',
             UNCHANGED <<fills, ckpt, base, mem, start, updated, runBase, total>>, Grow
      PROVE  Reader!Leave
  BY <1>2, OtherLeaves
<1>3. CASE UNCHANGED <<main, fills, ckpt, base, mem, start, updated, runBase, total>> /\ Grow
  <2>1. CASE Looping
    BY <1>2, <1>3, <2>1 DEF Looping, Reader!Next
  <2>2. CASE ~Looping
    <3>1. main \in {"idle", "decide"}
      BY <2>2 DEF Looping, RInv, SInv, IInv, TypeOK, MainOK
    <3>2. UNCHANGED <<swallowed, stepped>>
      BY <1>3, <3>1, FetcherKeeps DEF Next, MainStep, Rest, Tick, Publish, Crash, BeginRun,
         DecideComplete, DecideFetch, Recv, InsertOk, InsertError, Finish, EndRun, vars,
         ghost, RInv
    <3> QED BY <1>1, <1>3, <2>2, <3>2 DEF Looping
  <2> QED BY <2>1, <2>2
<1>4. CASE Tick \/ (\E h \in Hours : Publish(h)) \/ UNCHANGED vars
  <2>1. UNCHANGED <<main, fills, ckpt, base, mem, start, updated, runBase, total>> /\ Grow
    BY <1>4 DEF Tick, Publish, vars, db, run, ghost, Grow
  <2> QED BY <1>3, <2>1
<1>5. CASE FetcherStep
  <2>1. UNCHANGED <<main, fills, ckpt, base, mem, start, updated, runBase, total>> /\ Grow
    <3>1. UNCHANGED total
      BY <1>5 DEF FetcherStep, FetcherInit, FetcherReachesEnd, FetcherSkips, FetchCall,
         FetchReturn, FetchError, FetcherSend, run
    <3> QED BY <1>5, <3>1, FetcherKeeps DEF RInv
  <2> QED BY <1>3, <2>1
<1>6. ASSUME NEW w \in Windows, BeginRun(w) PROVE Reader!Next
  BY <1>6, BeginResets DEF Reader!Next
<1>7. CASE DecideFetch
  BY <1>7, DecideLoads DEF Reader!Next
<1>8. CASE InsertOk
  BY <1>8, InsertAdvances DEF Reader!Next
<1>9. CASE DecideComplete \/ Crash
  <2>1. /\ ~Looping' /\ UNCHANGED <<fills, ckpt, base, swallowed, stepped>>
    BY <1>9 DEF DecideComplete, Crash, EndRun, Looping, db, ghost
  <2>2. CASE Looping
    BY <2>1, <2>2, OtherLeaves DEF Reader!Next, Grow
  <2> QED BY <1>1, <2>1, <2>2
<1>10. CASE Recv
  <2>1. /\ Looping /\ Looping' /\ Grow
        /\ UNCHANGED <<fills, ckpt, base, mem, start, updated, runBase, total>>
    BY <1>10 DEF Recv, Looping, db, ghost, Grow
  <2> QED BY <1>2, <2>1 DEF Reader!Next
<1>11. CASE InsertError
  <2>1. Looping /\ Grow /\ UNCHANGED <<ckpt, base, runBase>>
    BY <1>11 DEF InsertError, Looping, ghost, Grow
  <2>2. ~Looping' \/ (Looping' /\ UNCHANGED <<mem, start, updated, total>>)
    BY <1>11, <2>1 DEF InsertError, EndRun, Looping
  <2> QED BY <2>1, <2>2, OtherLeaves DEF Reader!Next
<1>12. CASE Finish
  <2>1. /\ Looping /\ ~Looping' /\ Grow
    <3>1. main = "recv" /\ main' = "idle" /\ UNCHANGED <<fills, swallowed, stepped>>
      BY <1>12 DEF Finish, EndRun
    <3> QED BY <3>1 DEF Looping, Grow
  <2>2. UNCHANGED <<ckpt, base>> \/ (updated /\ ckpt' = mem /\ base' = runBase)
    BY <1>12 DEF Finish
  <2> QED BY <2>1, <2>2, OtherLeaves DEF Reader!Next
<1> QED BY <1>4, <1>5, <1>6, <1>7, <1>8, <1>9, <1>10, <1>11, <1>12
        DEF Next, MainStep, Rest

LEMMA RunInvariant ==
  RefreshGap <= GoBackGap => (Init => RInv) /\ (RInv /\ [Next]_vars => RInv')
<1> SUFFICES ASSUME RefreshGap <= GoBackGap
             PROVE  (Init => RInv) /\ (RInv /\ [Next]_vars => RInv')
  OBVIOUS
<1>1. Init => RInv
  BY InitInv, PositionsInit, CoverageInit, OrderInit
     DEF RInv, SInv, NoGoBack, GoBackUnreachable, Init
<1>2. SInv /\ [Next]_vars => SInv'
  BY SoundStep
<1>3. IInv /\ GoBackUnreachable /\ [Next]_vars => GoBackUnreachable'
  BY GoBackStep
<1>4. RInv /\ [Next]_vars => RInv'
  BY <1>2, <1>3, OrderStep, NoGoBackStep DEF RInv, SInv
<1> QED BY <1>1, <1>4

(* The backfill implements the abstract reader, whose position no clock, page,*)
(* channel or skip decides, for every window, channel size, page size, bucket *)
(* and sequence of errors and crashes (run_backfill and spawn_fetcher).       *)
THEOREM BackfillImplementsReader ==
  RefreshGap <= GoBackGap => (Spec => ImplementsReader)
<1> SUFFICES ASSUME RefreshGap <= GoBackGap PROVE Spec => ImplementsReader
  OBVIOUS
<1>1. (Init => RInv) /\ (RInv /\ [Next]_vars => RInv')
  BY RunInvariant
<1>2. Spec => []RInv
  BY <1>1, PTL DEF Spec
<1> QED BY <1>2, ReaderInit, ReaderStep, PTL DEF Spec, ImplementsReader, Reader!Spec
-----------------------------------------------------------------------------
(* A fetcher gets past the end of its window only over hours that it read or  *)
(* that were given up: the position it goes on from says so up to the hour of *)
(* the time, and a page read to its cursor for the rest of the last hour.     *)
ProperWindows == \A w \in Windows : w.start < w.end

InWindow == HoursTo(HourOf(end - 1) + 1)
EndPart ==
  /\ main # "idle" => start < end
  /\ fetcher \in {"fetch", "retry"} => curStart < end
  /\ fetcher \in {"init", "loop", "done"} /\ curStart >= end =>
       \A h \in InWindow : Pending(h)
  /\ fetcher = "send" /\ curStart >= end =>
       \A h \in InWindow : Pending(h) \/ File[h] \subseteq page.fills

LEMMA EndKept ==
  ASSUME EndPart, UNCHANGED <<start, end, fetcher, curStart, runBase, page>>,
         main' # "idle" => main # "idle", \A h : Pending(h) => Pending(h)'
  PROVE  EndPart'
BY DEF EndPart, InWindow, HoursTo

(* What is on its way stays so when the main task takes or inserts a page. *)
LEMMA PendingStays ==
  ASSUME SInv, Recv \/ InsertOk
  PROVE  \A h : Pending(h) => Pending(h)'
<1>1. CASE InsertOk
  <2>1. /\ main = "insert" /\ fills' = fills \cup work.fills
        /\ UNCHANGED <<channel, swallowed, stepped>>
    BY <1>1 DEF InsertOk
  <2> QED BY <2>1 DEF Pending, InHand, InChannel, Read, Stored
<1>2. CASE Recv
  <2>1. /\ main = "recv" /\ main' = "insert" /\ channel # <<>>
        /\ work' = Head(channel) /\ channel' = Tail(channel)
        /\ UNCHANGED <<fills, swallowed, stepped>>
    BY <1>2 DEF Recv, db, ghost
  <2>2. channel \in Seq(Pages)
    BY DEF SInv, IInv, TypeOK, FetcherOK
  <2>3. /\ Len(channel) \in Nat \ {0} /\ work' = channel[1]
        /\ Len(channel') = Len(channel) - 1
        /\ \A i \in 1..(Len(channel) - 1) : channel'[i] = channel[i + 1]
    BY <2>1, <2>2, HeadTailProperties
  <2> SUFFICES ASSUME NEW h, Pending(h) PROVE Pending(h)'
    OBVIOUS
  <2>4. CASE Read(h)
    BY <2>1, <2>4 DEF Pending, Read, Stored
  <2>5. CASE InChannel(h, Len(channel))
    <3>1. PICK j \in 1..Len(channel) : File[h] \subseteq channel[j].fills
      BY <2>5 DEF InChannel
    <3>2. CASE j = 1
      BY <2>1, <2>3, <3>1, <3>2 DEF Pending, InHand
    <3>3. CASE j # 1
      <4>1. j - 1 \in 1..(Len(channel) - 1) /\ (j - 1) + 1 = j
        BY <2>3, <3>3
      <4>2. j - 1 \in 1..Len(channel') /\ channel'[j - 1] = channel[j]
        BY <2>3, <4>1
      <4> QED BY <3>1, <4>2 DEF Pending, InChannel
    <3> QED BY <3>2, <3>3
  <2> QED BY <2>1, <2>4, <2>5 DEF Pending, InHand
<1> QED BY <1>1, <1>2

LEMMA EndDecideFetch == ASSUME RInv, EndPart, DecideFetch PROVE EndPart'
<1>1. /\ main = "decide" /\ fetcher' = "init" /\ ~EndsBehindCheckpoint
      /\ UNCHANGED <<start, end>> /\ curStart' = StartPosition
  BY DEF DecideFetch
<1>2. ~GoesBack
  BY <1>1 DEF RInv, GoBackUnreachable
<1>3. start \in Int /\ end \in Int /\ mem \in Checkpoint /\ start < end
  BY <1>1 DEF EndPart, RInv, SInv, IInv, TypeOK, MainOK
<1>4. StartPosition \in Int /\ StartPosition < end
  <2>1. CASE ContinuesFromCheckpoint
    <3>1. mem.ts \in Int /\ StartPosition = mem.ts
      BY <1>2, <1>3, <2>1 DEF StartPosition, ContinuesFromCheckpoint, Checkpoint
    <3> QED BY <1>1, <1>3, <2>1, <3>1 DEF EndsBehindCheckpoint, ContinuesFromCheckpoint
  <2>2. CASE ~ContinuesFromCheckpoint
    BY <1>2, <1>3, <2>2 DEF StartPosition
  <2> QED BY <2>1, <2>2
<1> QED BY <1>1, <1>3, <1>4 DEF EndPart

LEMMA EndFetchReturn == ASSUME SInv, SInv', EndPart, FetchReturn PROVE EndPart'
<1> DEFINE pos == ReadPosition(curStart, cursor)
<1>1. PICK failing : /\ page' = FetchPage(pos, reading, published, failing, now)
                     /\ ~FetchFails(pos, reading, failing)
  BY DEF FetchReturn
<1>2. /\ fetcher = "fetch" /\ fetcher' = "send" /\ cursor' = page'.cursor
      /\ curStart' = NextStart(page')
      /\ stepped' = stepped \cup (HoursCovered(pos, reading) \ published)
      /\ UNCHANGED <<main, work, channel, runBase, start, end>>
  BY DEF FetchReturn, run
<1>3. /\ reading \in 0..PageHours /\ now \in Int /\ published \in SUBSET Hours
      /\ pos \in Int /\ HourOf(pos) \in Int /\ curStart \in Int
      /\ HourOf(curStart) \in Int /\ HourOf(curStart) <= HourOf(pos)
      /\ HourEnd \in Int /\ HourOf(HourEnd) = HourOf(curStart) + 1 /\ end \in Int
      /\ runBase \in Int
  <2>1. IInv /\ runBase \in Int
    BY DEF SInv, Coverage, Modes
  <2>2. /\ reading \in 0..PageHours /\ now \in Int /\ published \in SUBSET Hours
        /\ end \in Int
    BY <1>2, <2>1 DEF IInv, TypeOK, MainOK, FetcherOK, EnvOK
  <2>3. /\ pos \in Int /\ HourOf(pos) \in Int /\ curStart \in Int
        /\ HourOf(curStart) \in Int
        /\ HourEnd \in Int /\ HourOf(HourEnd) = HourOf(curStart) + 1
        /\ cursor # None => CursorHour(cursor) \in Int
        /\ HourOf(pos) = IF cursor = None THEN HourOf(curStart) ELSE CursorHour(cursor)
    BY <2>1, PositionsOf
  <2>4. cursor # None => HourOf(curStart) <= CursorHour(cursor)
    BY <1>2 DEF SInv, Positions
  <2>5. HourOf(curStart) <= HourOf(pos)
    BY <2>3, <2>4
  <2> QED BY <2>1, <2>2, <2>3, <2>5
<1>4. HourOf(end - 1) \in Int
  BY <1>3, TimeTypes
<1>5. /\ page' \in Pages /\ EndsBeforeCursor(page')
      /\ \/ page' = EndOfData /\ HourOf(pos) \in HoursCovered(pos, reading) \ published
         \/ ReadsToCursor(pos, reading, published, failing, page')
  BY <1>1, <1>3, FetchPageType, PageReadsToCursor, PositionsFetchReturn DEF SInv
<1>6. \A h : Pending(h) => Pending(h)'
  BY <1>2, FetcherKeeps, WayStays DEF FetcherStep, SInv
<1>7. ASSUME curStart' >= end, NEW h \in InWindow'
      PROVE  (Pending(h) \/ File[h] \subseteq page.fills)'
  <2>1. h \in Int /\ h \in Hours /\ runBase <= h /\ h <= HourOf(end - 1)
    BY <1>2, <1>3, <1>4, <1>7 DEF InWindow, HoursTo
  <2>2. CASE page' = EndOfData
    <3>1. curStart' = HourEnd /\ HourOf(pos) \in HoursCovered(pos, reading) \ published
      <4>1. ~ReadsToCursor(pos, reading, published, failing, page')
        BY <2>2, NoneAssumption DEF EndOfData, ReadsToCursor
      <4> QED BY <1>2, <1>5, <2>2, <4>1 DEF NextStart, EndOfData
    <3>2. HourOf(end - 1) <= HourOf(curStart)
      <4>1. end - 1 < HourStart(HourOf(curStart) + 1) /\ end - 1 \in Int
        BY <1>3, <1>7, <3>1 DEF HourEnd
      <4>2. HourOf(end - 1) < HourOf(curStart) + 1
        BY <1>3, <4>1, HourBounds
      <4> QED BY <1>3, <1>4, <4>2
    <3>3. CASE h = HourOf(pos)
      BY <1>2, <3>1, <3>3 DEF Pending, Read
    <3>4. CASE h # HourOf(pos)
      <4>1. h \in HoursTo(HourOf(pos))
        BY <1>3, <1>4, <2>1, <3>2, <3>4 DEF HoursTo
      <4> QED BY <1>2, <1>6, <4>1 DEF SInv, Coverage, PositionPart
    <3> QED BY <3>3, <3>4
  <2>3. CASE page' # EndOfData
    <3>1. /\ page'.cursor \in [date : Int, hour : Int]
          /\ HourOf(pos) + 1 <= CursorHour(page'.cursor)
      BY <1>5, <2>3 DEF ReadsToCursor
    <3>2. cursor' # None /\ CursorHour(cursor') \in Int
      BY <1>2, <3>1, NoneAssumption, TimeTypes
    <3>3. end - 1 < HourStart(CursorHour(cursor')) /\ end - 1 \in Int
      <4>1. CASE page'.fills # {}
        <5>1. page'.fills \in Batches
          BY <1>5 DEF Pages
        <5>2. curStart' \in page'.fills /\ curStart' \in Int
          BY <1>2, <4>1, <5>1, BatchTypes DEF NextStart
        <5>3. curStart' < HourStart(CursorHour(cursor')) /\ HourStart(CursorHour(cursor')) \in Int
          BY <1>2, <1>5, <3>2, <5>2, TimeTypes DEF EndsBeforeCursor, CursorTime
        <5> QED BY <1>3, <1>7, <5>2, <5>3
      <4>2. CASE page'.fills = {}
        <5>1. curStart' = HourEnd /\ HourOf(curStart) + 1 <= CursorHour(cursor')
          BY <1>2, <1>3, <3>1, <3>2, <4>2 DEF NextStart
        <5>2. end - 1 < HourStart(HourOf(curStart) + 1) /\ end - 1 \in Int
          BY <1>3, <1>7, <5>1 DEF HourEnd
        <5>3. HourOf(end - 1) < HourOf(curStart) + 1
          BY <1>3, <5>2, HourBounds
        <5>4. HourOf(end - 1) < CursorHour(cursor')
          BY <1>3, <1>4, <3>2, <5>1, <5>3
        <5> QED BY <3>2, <5>2, <5>4, HourBounds
      <4> QED BY <4>1, <4>2
    <3>4. HourOf(end - 1) < CursorHour(cursor')
      BY <3>2, <3>3, HourBounds
    <3>5. h \in HoursTo(CursorHour(cursor))'
      BY <1>2, <1>3, <1>4, <2>1, <3>2, <3>4 DEF HoursTo
    <3> QED BY <1>2, <3>2, <3>5 DEF SInv, Coverage, PagePart
  <2> QED BY <2>2, <2>3
<1> QED BY <1>2, <1>7 DEF EndPart

LEMMA EndFetcher == ASSUME SInv, SInv', EndPart, FetcherStep PROVE EndPart'
<1>1. /\ UNCHANGED <<main, work, runBase, start, end>> /\ Grow
      /\ main \notin {"idle", "decide"}
  BY FetcherKeeps
<1>2. start < end /\ end \in Int /\ curStart \in Int
  BY <1>1 DEF EndPart, SInv, IInv, TypeOK, MainOK, FetcherOK
<1>3. CASE FetcherInit \/ FetcherReachesEnd \/ FetchCall \/ FetchError
  <2>1. UNCHANGED <<curStart, channel, page>>
    BY <1>3 DEF FetcherInit, FetcherReachesEnd, FetchCall, FetchError
  <2>2. \A h : Pending(h) => Pending(h)'
    BY <1>1, <2>1, WayStays DEF SInv
  <2>3. CASE FetcherInit \/ FetcherReachesEnd
    <3>1. fetcher \in {"init", "loop"} /\ fetcher' \in {"loop", "done"}
      BY <2>3 DEF FetcherInit, FetcherReachesEnd
    <3> QED BY <1>1, <2>1, <2>2, <3>1 DEF EndPart, InWindow, HoursTo
  <2>4. CASE FetchCall \/ FetchError
    <3>1. fetcher' \in {"fetch", "retry", "failed"} /\ curStart < end
      BY <2>4 DEF FetchCall, FetchError, EndPart
    <3> QED BY <1>1, <2>1, <3>1 DEF EndPart
  <2> QED BY <1>3, <2>3, <2>4
<1>4. CASE FetcherSkips
  <2>1. /\ fetcher' = "loop" /\ curStart' = HourEnd
        /\ HourOf(ReadPosition(curStart, cursor))' = HourOf(curStart) + 1
    BY <1>4, SkipsToNextHour DEF FetcherSkips
  <2>2. /\ HourEnd \in Int /\ HourOf(curStart) \in Int /\ HourOf(end - 1) \in Int
        /\ runBase \in Int
    BY <1>2, PositionsOf, TimeTypes DEF SInv, Coverage, Modes
  <2>3. ASSUME curStart' >= end, NEW h \in InWindow' PROVE Pending(h)'
    <3>1. end - 1 < HourStart(HourOf(curStart) + 1) /\ end - 1 \in Int
      BY <1>2, <2>1, <2>2, <2>3 DEF HourEnd
    <3>2. HourOf(end - 1) < HourOf(curStart) + 1
      BY <2>2, <3>1, HourBounds
    <3>3. h \in HoursTo(HourOf(ReadPosition(curStart, cursor)))'
      BY <1>1, <2>1, <2>2, <2>3, <3>2 DEF InWindow, HoursTo
    <3> QED BY <2>1, <3>3 DEF SInv, Coverage, PositionPart
  <2> QED BY <1>1, <2>1, <2>3 DEF EndPart
<1>5. CASE FetcherSend
  <2>1. /\ fetcher = "send" /\ UNCHANGED curStart /\ fetcher' \in {"loop", "done"}
    BY <1>5 DEF FetcherSend
  <2>2. \A h : Pending(h) \/ File[h] \subseteq page.fills => Pending(h)'
    BY <1>5, SentIsPending
  <2> QED BY <1>1, <2>1, <2>2 DEF EndPart, InWindow, HoursTo
<1> QED BY <1>3, <1>4, <1>5, EndFetchReturn DEF FetcherStep
LEMMA EndStep ==
  ASSUME ProperWindows, RInv, SInv', EndPart, [Next]_vars
  PROVE  EndPart'
<1> USE DEF RInv
<1>1. CASE Tick \/ (\E h \in Hours : Publish(h)) \/ UNCHANGED vars
  <2>1. UNCHANGED <<main, work, channel, fills, swallowed, stepped, start, end, fetcher,
                    curStart, runBase, page>>
    BY <1>1 DEF Tick, Publish, vars, db, run, task, ghost
  <2>2. \A h : Pending(h) => Pending(h)'
    BY <2>1 DEF Pending, InHand, InChannel, Read, Stored
  <2> QED BY <2>1, <2>2, EndKept
<1>2. CASE main' = "idle" /\ fetcher' = "off"
  BY <1>2 DEF EndPart
<1>3. CASE Crash \/ DecideComplete \/ Finish
  BY <1>2, <1>3 DEF Crash, DecideComplete, Finish, EndRun
<1>4. CASE InsertError
  <2>1. CASE EndRun("failed")
    BY <1>2, <2>1 DEF EndRun
  <2>2. CASE ~EndRun("failed")
    <3>1. /\ UNCHANGED <<main, work, channel, start, end, fetcher, curStart, runBase, page>>
          /\ Grow
      BY <1>4, <2>2 DEF InsertError, task, ghost, Grow
    <3>2. \A h : Pending(h) => Pending(h)'
      BY <3>1, WayStays DEF SInv
    <3> QED BY <3>1, <3>2, EndKept
  <2> QED BY <2>1, <2>2
<1>5. ASSUME NEW w \in Windows, BeginRun(w) PROVE EndPart'
  <2>1. main = "idle" /\ start' = w.start /\ end' = w.end /\ fetcher' = fetcher
    BY <1>5 DEF BeginRun, task
  <2> QED BY <2>1 DEF ProperWindows, EndPart, SInv, Coverage, Modes
<1>6. CASE Recv \/ InsertOk
  <2>1. /\ UNCHANGED <<start, end, fetcher, curStart, runBase, page>> /\ main # "idle"
    BY <1>6 DEF Recv, InsertOk, task, ghost
  <2> QED BY <1>6, <2>1, PendingStays, EndKept
<1> QED BY <1>1, <1>3, <1>4, <1>5, <1>6, EndDecideFetch, EndFetcher
        DEF Next, MainStep, Rest

(* A fetcher that reached the end of its window left no hour of it out, for   *)
(* every window that ends after it starts, wherever pages, skips, midnights   *)
(* and the window's end fall.                                                 *)
THEOREM WindowIsCovered ==
  ProperWindows /\ RefreshGap <= GoBackGap => (Spec => []WindowCovered)
<1> SUFFICES ASSUME ProperWindows, RefreshGap <= GoBackGap
             PROVE  Spec => []WindowCovered
  OBVIOUS
<1>1. Init => RInv /\ EndPart
  BY RunInvariant DEF Init, EndPart
<1>2. RInv /\ EndPart /\ [Next]_vars => (RInv /\ EndPart)'
  BY RunInvariant, EndStep DEF RInv
<1>3. RInv /\ EndPart => WindowCovered
  <2> SUFFICES ASSUME RInv, EndPart, main = "recv", fetcher = "done", curStart >= end,
                      channel = <<>>, NEW h \in (runBase .. HourOf(end - 1)) \cap Hours
               PROVE  Read(h)
    BY DEF WindowCovered, Read
  <2>1. end \in Int /\ runBase \in Int
    BY DEF RInv, SInv, IInv, TypeOK, MainOK, Coverage, Modes
  <2>2. HourOf(end - 1) \in Int
    BY <2>1, TimeTypes
  <2>3. h \in InWindow
    BY <2>1, <2>2 DEF InWindow, HoursTo
  <2>4. Pending(h)
    BY <2>3 DEF EndPart
  <2>5. Len(channel) = 0 /\ 1..0 = {}
    OBVIOUS
  <2> QED BY <2>4, <2>5 DEF Pending, InHand, InChannel
<1> QED BY <1>1, <1>2, <1>3, PTL DEF Spec

-----------------------------------------------------------------------------
(* For systems that a backfill is a part of.  A row whose time is absent has  *)
(* no cursor either, in the table and in memory; no step lowers the saved     *)
(* count, that of the reset included; and while no run is in progress another *)
(* process may write the tables, if it leaves a row that can be trusted.      *)
Dated == /\ ckpt.ts = None => ckpt.cursor = None
         /\ mem.ts = None => mem.cursor = None

LEMMA DatedStep == ASSUME IInv, Positions, Dated, [Next]_vars PROVE Dated'
<1>1. CASE UNCHANGED <<ckpt, mem>>
  BY <1>1 DEF Dated
<1>2. ASSUME NEW w \in Windows, BeginRun(w) PROVE Dated'
  <2> DEFINE gaps == GapsBelow(ckpt, w.start, w.end)
  <2>1. CASE Refreshes(gaps)
    <3>1. mem' = BackTo(ckpt, Min(gaps)) /\ ckpt' = mem' /\ Min(gaps) \in Int
      BY <1>2, <2>1, ResetGoesBack, BackfillAssumption DEF BeginRun
    <3> HIDE DEF gaps
    <3>2. mem'.ts \in Int
      BY <3>1, TimeTypes, BackToAgrees DEF IInv, TypeOK, DbOK
    <3> QED BY <3>1, <3>2, NoneAssumption DEF Dated
  <2>2. CASE ~Refreshes(gaps)
    BY <1>2, <2>2 DEF BeginRun, Dated
  <2> QED BY <2>1, <2>2
<1>3. CASE InsertOk
  <2>1. mem' = MemAfter(Inserted) /\ (ckpt' = ckpt \/ ckpt' = mem')
    BY <1>3 DEF InsertOk
  <2>2. CASE ShouldUpdate
    <3>1. work.fills \in Batches /\ work.fills # {}
      BY <1>3, <2>2 DEF InsertOk, ShouldUpdate, IInv, TypeOK, MainOK, Pages
    <3>2. mem'.ts \in Int
      BY <2>1, <2>2, <3>1, BatchTypes DEF MemAfter
    <3> QED BY <2>1, <3>2, NoneAssumption DEF Dated
  <2>3. CASE ~ShouldUpdate
    BY <2>1, <2>3 DEF MemAfter, Dated
  <2> QED BY <2>2, <2>3
<1>4. CASE \E how : EndRun(how) /\ (ckpt' = ckpt \/ ckpt' = mem)
  BY <1>4 DEF EndRun, NewCheckpoint, Dated
<1>5. CASE Crash \/ DecideComplete \/ Finish \/ InsertError
  <2>1. UNCHANGED <<ckpt, mem>> \/ \E how : EndRun(how) /\ (ckpt' = ckpt \/ ckpt' = mem)
    BY <1>5 DEF Crash, DecideComplete, Finish, InsertError, db
  <2> QED BY <1>1, <1>4, <2>1
<1>6. CASE Tick \/ (\E h \in Hours : Publish(h)) \/ DecideFetch \/ Recv \/ FetcherStep
           \/ UNCHANGED vars
  <2>1. UNCHANGED <<ckpt, mem>>
    BY <1>6 DEF Tick, Publish, DecideFetch, Recv, FetcherStep, FetcherInit,
       FetcherReachesEnd, FetcherSkips, FetchCall, FetchReturn, FetchError, FetcherSend,
       vars, db, run
  <2> QED BY <1>1, <2>1
<1> QED BY <1>2, <1>3, <1>5, <1>6 DEF Next, MainStep, Rest

LEMMA CountNeverFalls ==
  ASSUME SInv, RunAhead, [Next]_vars PROVE ckpt.records <= ckpt'.records
<1>1. ckpt \in Checkpoint /\ ckpt.records \in Nat
  BY DEF SInv, IInv, TypeOK, DbOK, Checkpoint
<1>2. CASE main # "idle"
  BY <1>2, StepForward DEF Forward, SInv
<1>3. CASE \E w \in Windows : BeginRun(w)
  <2>1. PICK w \in Windows : BeginRun(w)
    BY <1>3
  <2>2. mem' = ckpt \/ mem'.records = ckpt.records
    BY <1>1, <2>1 DEF BeginRun, BackTo, Checkpoint
  <2> QED BY <1>1, <2>1, <2>2 DEF BeginRun
<1>4. CASE main = "idle" /\ (Tick \/ (\E h \in Hours : Publish(h)) \/ UNCHANGED vars)
  BY <1>1, <1>4 DEF Tick, Publish, vars, db
<1>5. main = "idle" => ~(Crash \/ MainStep)
  BY DEF Crash, MainStep, DecideComplete, DecideFetch, Recv, InsertOk, InsertError, Finish
<1>6. main = "idle" => ~FetcherStep
  BY DEF SInv, Coverage, Modes, FetcherStep, FetcherInit, FetcherReachesEnd, FetcherSkips,
         FetchCall, FetchReturn, FetchError, FetcherSend
<1> QED BY <1>2, <1>3, <1>4, <1>5, <1>6 DEF Next, Rest

LEMMA OthersKeepTypes ==
  ASSUME IInv, Positions, fills \subseteq fills',
         UNCHANGED <<run, task, channel, result, runs>>,
         now' \in Nat, published' \subseteq Hours, faults' \in Nat,
         fills' \in Batches, ckpt' \in Checkpoint, ckpt'.records <= Cardinality(fills'),
         TimeAndCursorAgree(ckpt')
  PROVE  IInv' /\ Positions'
<1>1. TypeOK'
  <2>1. EnvOK' /\ DbOK'
    BY DEF IInv, TypeOK, EnvOK, DbOK
  <2>2. MainOK'
    BY DEF IInv, TypeOK, MainOK, run
  <2>3. FetcherOK'
    BY DEF IInv, TypeOK, FetcherOK, task
  <2> QED BY <2>1, <2>2, <2>3 DEF TypeOK
<1>2. CountsOK'
  <2>1. /\ Cardinality(fills) <= Cardinality(fills')
        /\ Cardinality(fills) \in Nat /\ Cardinality(fills') \in Nat
    BY FS_Subset, FS_CardinalityType DEF Batches, IInv, TypeOK, DbOK
  <2>2. mem.records \in Nat /\ total \in Nat /\ mem' = mem /\ total' = total
    BY DEF IInv, TypeOK, MainOK, Checkpoint, run
  <2> QED BY <2>1, <2>2 DEF CountsOK, IInv
<1>3. Positions'
  <2>1. UNCHANGED <<main, mem, work, fetcher, curStart, cursor, page, channel>>
    BY DEF run, task
  <2> QED BY <2>1 DEF Positions, EndsBeforeCursor
<1> QED BY <1>1, <1>2, <1>3 DEF IInv

LEMMA OthersMayWrite ==
  ASSUME SInv, main = "idle", Grow, UNCHANGED <<run, task, channel, result, runs, runBase>>,
         now' \in Nat, published' \subseteq Hours, faults' \in Nat, base' \in Int,
         fills' \in Batches, ckpt' \in Checkpoint, ckpt'.records <= Cardinality(fills'),
         TimeAndCursorAgree(ckpt'), RowPart'
  PROVE  SInv'
<1>1. /\ main' = "idle" /\ fetcher = "off" /\ fetcher' = "off" /\ updated = FALSE
      /\ updated' = FALSE /\ channel' = <<>>
  BY DEF SInv, Coverage, Modes, IInv, TypeOK, MainOK, run, task
<1>2. IInv' /\ Positions'
  BY OthersKeepTypes DEF SInv, Grow
<1>3. DOMAIN channel' = {}
  BY <1>1
<1>4. MemPart' /\ WorkPart' /\ PagePart' /\ PositionPart' /\ ChannelPart'
  BY <1>1, <1>3 DEF MemPart, WorkPart, PagePart, PositionPart, ChannelPart
<1>5. Modes'
  BY <1>1, <1>3 DEF SInv, Coverage, Modes
<1> QED BY <1>2, <1>4, <1>5 DEF SInv, Coverage

(* While a run is in progress another process may still insert fills, if it   *)
(* leaves the row alone.                                                      *)
LEMMA OthersInsert ==
  ASSUME SInv, Grow,
         UNCHANGED <<ckpt, base, run, task, channel, result, runs, runBase>>,
         now' \in Nat, published' \subseteq Hours, faults' \in Nat, fills' \in Batches
  PROVE  SInv'
<1>1. ckpt' \in Checkpoint /\ ckpt'.records <= Cardinality(fills')
  <2>1. /\ Cardinality(fills) <= Cardinality(fills')
        /\ Cardinality(fills) \in Nat /\ Cardinality(fills') \in Nat
    BY FS_Subset, FS_CardinalityType DEF Batches, SInv, IInv, TypeOK, DbOK, Grow
  <2>2. ckpt \in Checkpoint /\ ckpt.records \in Nat /\ ckpt.records <= Cardinality(fills)
    BY DEF SInv, IInv, TypeOK, DbOK, CountsOK, Checkpoint
  <2> QED BY <2>1, <2>2
<1>2. IInv' /\ Positions'
  <2>1. TimeAndCursorAgree(ckpt')
    BY DEF SInv, Positions
  <2> QED BY <1>1, <2>1, OthersKeepTypes DEF SInv, Grow
<1>3. Coverage'
  BY SameCoverage DEF SInv, run, task
<1> QED BY <1>2, <1>3 DEF SInv

LEMMA IdleRun == SInv /\ main = "idle" => RInv
  BY OrderOff DEF SInv, Coverage, Modes, RInv, GoBackUnreachable, NoGoBack

LEMMA IdleRunNext == (SInv /\ main = "idle")' => RInv'
  BY IdleRun, PTL
-----------------------------------------------------------------------------
(* The loop of rounds (PeriodicBackfill).  Its windows need not be those that *)
(* Windows lists; the other steps are those of a backfill.                    *)

(* Parts of the table and pages are made of whole hours of the bucket: an     *)
(* hour with one fill in part has all its fills in all.                       *)
Whole(part, all) == \A f \in part : FromFile(f) /\ File[HourOf(f)] \subseteq all

WholePages ==
  /\ main = "insert" => Whole(work.fills, work.fills)
  /\ \A i \in DOMAIN channel : Whole(channel[i].fills, channel[i].fills)
  /\ fetcher = "send" => Whole(page.fills, page.fills)

(* Where a fetcher that is done stands, like one that goes on, is behind      *)
(* hours that were read or are on their way; and so for the page that says    *)
(* there is no more, which has no cursor.                                     *)
DonePart ==
  /\ fetcher = "send" /\ cursor = None => \A h \in HoursTo(HourOf(curStart)) : Pending(h)
  /\ fetcher = "done" =>
       \A h \in HoursTo(HourOf(ReadPosition(curStart, cursor))) : Pending(h)

(* Windows move with the clock, so that what the checkpoint promises, from an *)
(* empty database, begins no later than any window still to come.             *)
Began ==
  /\ now \in Int /\ now >= InitNow
  /\ runs = 0 => /\ main = "idle" /\ asked = {} /\ fills = {} /\ ckpt.ts = None
  /\ runs # 0 => start <= now - Period
  /\ ckpt.ts # None => base <= HourOf(start)
  /\ main \in {"recv", "insert"} => runBase <= HourOf(start)

(* While no round failed and their windows met: the table has whole hours,    *)
(* but for an insert that is tried again, and the hours asked for by the      *)
(* rounds that are over were read.                                            *)
Past ==
  unbroken /\ (main = "idle" => reached) =>
    /\ Whole(fills, IF main = "insert" THEN fills \cup work.fills ELSE fills)
    /\ \A h \in asked \cap Hours :
         h < HourOf(IF main = "idle" THEN end ELSE start) => Read(h)

LoopInv == SInv /\ WholePages /\ DonePart /\ Began /\ Past

LEMMA WholePagesKept ==
  ASSUME WholePages, UNCHANGED <<work, channel, page>>,
         main' = "insert" => main = "insert", fetcher' = "send" => fetcher = "send"
  PROVE  WholePages'
BY DEF WholePages, Whole

LEMMA WholePagesFetched ==
  ASSUME SInv, WholePages, FetchReturn PROVE WholePages'
<1> DEFINE pos == ReadPosition(curStart, cursor)
<1>1. PICK failing : page' = FetchPage(pos, reading, published, failing, now)
  BY DEF FetchReturn
<1>2. UNCHANGED <<main, work, channel>>
  BY DEF FetchReturn, run
<1>3. /\ reading \in 0..PageHours /\ now \in Int /\ published \in SUBSET Hours
      /\ pos \in Int
  BY PositionsOf DEF FetchReturn, SInv, IInv, TypeOK, FetcherOK, EnvOK
<1>4. HasWholeHours(pos, page')
  BY <1>1, <1>3, PageIsWhole
<1>5. Whole(page'.fills, page'.fills)
  BY <1>4 DEF HasWholeHours, Whole, FromFile
<1> QED BY <1>2, <1>5 DEF WholePages, Whole

LEMMA WholePagesMoved ==
  ASSUME SInv, WholePages, FetcherSend \/ Recv PROVE WholePages'
<1>1. channel \in Seq(Pages)
  BY DEF SInv, IInv, TypeOK, FetcherOK
<1>2. CASE FetcherSend
  <2>1. /\ fetcher = "send" /\ channel' = Append(channel, page) /\ fetcher' # "send"
        /\ UNCHANGED <<main, work>> /\ page \in Pages
    BY <1>2 DEF FetcherSend, run, SInv, IInv, TypeOK, FetcherOK
  <2>2. ASSUME NEW i \in DOMAIN channel'
        PROVE  channel'[i] = page \/ (i \in DOMAIN channel /\ channel'[i] = channel[i])
    BY <1>1, <2>1, <2>2
  <2>3. \A i \in DOMAIN channel' : Whole(channel'[i].fills, channel'[i].fills)
    BY <2>1, <2>2 DEF WholePages
  <2> QED BY <2>1, <2>3 DEF WholePages, Whole
<1>3. CASE Recv
  <2>1. /\ channel # <<>> /\ work' = Head(channel) /\ channel' = Tail(channel)
        /\ UNCHANGED <<fetcher, page>>
    BY <1>3 DEF Recv, task
  <2>2. /\ work' = channel[1] /\ 1 \in DOMAIN channel
        /\ \A i \in DOMAIN channel' : i + 1 \in DOMAIN channel /\ channel'[i] = channel[i + 1]
    BY <1>1, <2>1, HeadTailProperties
  <2> QED BY <2>1, <2>2 DEF WholePages, Whole
<1> QED BY <1>2, <1>3

LEMMA WholePagesEnd ==
  ASSUME NEW how, EndRun(how) PROVE WholePages'
<1>1. main' = "idle" /\ fetcher' = "off" /\ DOMAIN channel' = {}
  BY DEF EndRun
<1> QED BY <1>1 DEF WholePages

LEMMA WholePagesStep ==
  ASSUME SInv, WholePages, [Next]_vars \/ \E w : BeginRun(w)
  PROVE  WholePages'
<1>1. CASE \/ Tick \/ (\E h \in Hours : Publish(h)) \/ UNCHANGED vars
           \/ (\E w : BeginRun(w)) \/ DecideFetch \/ InsertOk
  <2>1. /\ UNCHANGED <<work, channel, page>> \/ (InsertOk /\ UNCHANGED <<channel, page>>)
        /\ main' = "insert" => main = "insert"
        /\ fetcher' = "send" => fetcher = "send"
    BY <1>1 DEF Tick, Publish, vars, db, run, task, ghost, BeginRun, DecideFetch, InsertOk
  <2>2. CASE InsertOk
    BY <2>1, <2>2 DEF InsertOk, task, WholePages, Whole
  <2> QED BY <2>1, <2>2, WholePagesKept
<1>2. CASE Crash \/ DecideComplete \/ Finish
  BY <1>2, WholePagesEnd DEF Crash, DecideComplete, Finish
<1>3. CASE InsertError
  <2>1. CASE EndRun("failed")
    BY <2>1, WholePagesEnd
  <2>2. CASE ~EndRun("failed")
    BY <1>3, <2>2, WholePagesKept DEF InsertError, task
  <2> QED BY <2>1, <2>2
<1>4. CASE FetcherInit \/ FetcherReachesEnd \/ FetcherSkips \/ FetchCall \/ FetchError
  <2>1. UNCHANGED <<main, work, channel, page>> /\ fetcher' # "send"
    BY <1>4 DEF FetcherInit, FetcherReachesEnd, FetcherSkips, FetchCall, FetchError, run
  <2> QED BY <2>1, WholePagesKept
<1> QED BY <1>1, <1>2, <1>3, <1>4, WholePagesFetched, WholePagesMoved
        DEF Next, MainStep, FetcherStep, Rest


LEMMA DoneFetched ==
  ASSUME SInv, DonePart, FetchReturn PROVE DonePart'
<1> DEFINE pos == ReadPosition(curStart, cursor)
<1>1. PICK failing : /\ page' = FetchPage(pos, reading, published, failing, now)
                     /\ ~FetchFails(pos, reading, failing)
  BY DEF FetchReturn
<1>2. /\ fetcher = "fetch" /\ fetcher' = "send" /\ cursor' = page'.cursor
      /\ curStart' = NextStart(page')
      /\ stepped' = stepped \cup (HoursCovered(pos, reading) \ published)
      /\ UNCHANGED <<main, work, channel, runBase>>
  BY DEF FetchReturn, run
<1>3. /\ reading \in 0..PageHours /\ now \in Int /\ published \in SUBSET Hours
      /\ runBase \in Int
  BY <1>2 DEF SInv, IInv, TypeOK, FetcherOK, EnvOK, Coverage, Modes
<1>4. /\ pos \in Int /\ HourOf(pos) \in Int /\ HourOf(curStart) \in Int
      /\ HourOf(HourEnd) = HourOf(curStart) + 1 /\ HourOf(curStart) <= HourOf(pos)
  <2>1. /\ pos \in Int /\ HourOf(pos) \in Int /\ HourOf(curStart) \in Int
        /\ HourOf(HourEnd) = HourOf(curStart) + 1
        /\ cursor # None => CursorHour(cursor) \in Int
        /\ HourOf(pos) = IF cursor = None THEN HourOf(curStart) ELSE CursorHour(cursor)
    BY PositionsOf DEF SInv
  <2>2. cursor # None => HourOf(curStart) <= CursorHour(cursor)
    BY <1>2 DEF SInv, Positions
  <2> QED BY <2>1, <2>2
<1>5. \A h : Pending(h) => Pending(h)'
  BY <1>2, FetcherKeeps, WayStays DEF FetcherStep, SInv
<1>6. ASSUME cursor' = None, NEW h \in HoursTo(HourOf(curStart))' PROVE Pending(h)'
  <2>1. page' = EndOfData /\ HourOf(pos) \in HoursCovered(pos, reading) \ published
    <3>1. ~ReadsToCursor(pos, reading, published, failing, page')
      BY <1>2, <1>6, NoneAssumption DEF ReadsToCursor
    <3> QED BY <1>1, <1>3, <1>4, <3>1, PageReadsToCursor
  <2>2. HourOf(curStart') = HourOf(curStart) + 1
    BY <1>2, <1>4, <2>1 DEF NextStart, EndOfData
  <2>3. h \in Int /\ h \in Hours /\ runBase <= h /\ h <= HourOf(curStart)
    BY <1>2, <1>3, <1>4, <1>6, <2>2 DEF HoursTo
  <2>4. CASE h = HourOf(pos)
    BY <1>2, <2>1, <2>4 DEF Pending, Read
  <2>5. CASE h # HourOf(pos)
    <3>1. h \in HoursTo(HourOf(pos))
      BY <1>3, <1>4, <2>3, <2>5 DEF HoursTo
    <3> QED BY <1>2, <1>5, <3>1 DEF SInv, Coverage, PositionPart
  <2> QED BY <2>4, <2>5
<1> QED BY <1>2, <1>6 DEF DonePart

LEMMA DoneSent ==
  ASSUME SInv, DonePart, FetcherSend PROVE DonePart'
<1>1. /\ fetcher = "send" /\ fetcher' \in {"loop", "done"}
      /\ UNCHANGED <<curStart, cursor, runBase>>
  BY DEF FetcherSend, ghost
<1>2. \A h : Pending(h) \/ File[h] \subseteq page.fills => Pending(h)'
  BY SentIsPending
<1>3. ASSUME NEW h \in HoursTo(HourOf(ReadPosition(curStart, cursor)))
      PROVE  Pending(h) \/ File[h] \subseteq page.fills
  <2>1. CASE cursor = None
    BY <1>1, <1>3, <2>1 DEF DonePart, ReadPosition
  <2>2. CASE cursor # None
    <3>1. HourOf(ReadPosition(curStart, cursor)) = CursorHour(cursor)
      BY <2>2, PositionsOf DEF SInv
    <3> QED BY <1>1, <1>3, <2>2, <3>1 DEF SInv, Coverage, PagePart
  <2> QED BY <2>1, <2>2
<1> QED BY <1>1, <1>2, <1>3 DEF DonePart, HoursTo

LEMMA DoneKept ==
  ASSUME DonePart, UNCHANGED <<fetcher, curStart, cursor, runBase>>,
         \A h : Pending(h) => Pending(h)'
  PROVE  DonePart'
BY DEF DonePart, HoursTo

LEMMA DoneStep ==
  ASSUME SInv, DonePart, [Next]_vars \/ \E w : BeginRun(w)
  PROVE  DonePart'
<1>1. CASE Tick \/ (\E h \in Hours : Publish(h)) \/ UNCHANGED vars
  <2>1. UNCHANGED <<main, work, channel, fills, swallowed, stepped, fetcher, curStart,
                    cursor, runBase>>
    BY <1>1 DEF Tick, Publish, vars, db, run, task, ghost
  <2>2. \A h : Pending(h) => Pending(h)'
    BY <2>1 DEF Pending, InHand, InChannel, Read, Stored
  <2> QED BY <2>1, <2>2, DoneKept
<1>2. CASE fetcher' \notin {"send", "done"}
  BY <1>2 DEF DonePart
<1>3. CASE Crash \/ DecideComplete \/ Finish
  BY <1>2, <1>3 DEF Crash, DecideComplete, Finish, EndRun
<1>4. CASE InsertError
  <2>1. CASE EndRun("failed")
    BY <1>2, <2>1 DEF EndRun
  <2>2. CASE ~EndRun("failed")
    <3>1. /\ UNCHANGED <<main, work, channel, fetcher, curStart, cursor, runBase>> /\ Grow
      BY <1>4, <2>2 DEF InsertError, task, ghost, Grow
    <3>2. \A h : Pending(h) => Pending(h)'
      BY <3>1, WayStays DEF SInv
    <3> QED BY <3>1, <3>2, DoneKept
  <2> QED BY <2>1, <2>2
<1>5. CASE (\E w : BeginRun(w)) \/ DecideFetch
  <2>1. fetcher' \in {"off", "init"}
    BY <1>5 DEF BeginRun, DecideFetch, task, SInv, Coverage, Modes
  <2> QED BY <1>2, <2>1
<1>6. CASE Recv \/ InsertOk
  <2>1. UNCHANGED <<fetcher, curStart, cursor, runBase>>
    BY <1>6 DEF Recv, InsertOk, task, ghost
  <2> QED BY <1>6, <2>1, PendingStays, DoneKept
<1>7. CASE FetcherInit \/ FetcherSkips \/ FetchCall \/ FetchError
  BY <1>2, <1>7 DEF FetcherInit, FetcherSkips, FetchCall, FetchError
<1>8. CASE FetcherReachesEnd
  <2>1. /\ fetcher = "loop" /\ fetcher' = "done"
        /\ UNCHANGED <<main, work, channel, fills, swallowed, stepped, curStart, cursor,
                       runBase>>
    BY <1>8 DEF FetcherReachesEnd, db, run, ghost
  <2>2. \A h : Pending(h) => Pending(h)'
    BY <2>1 DEF Pending, InHand, InChannel, Read, Stored
  <2> QED BY <2>1, <2>2 DEF SInv, Coverage, PositionPart, DonePart, HoursTo
<1> QED BY <1>1, <1>3, <1>4, <1>5, <1>6, <1>7, <1>8, DoneFetched, DoneSent
        DEF Next, MainStep, FetcherStep, Rest

LEMMA LoopMoves ==
  ASSUME [LoopNext]_loopVars PROVE [Next]_vars \/ Round
BY DEF LoopNext, Running, RoundCrash, Environment, LoopRest, loopVars, Next

LEMMA RoundWindow ==
  ASSUME Began
  PROVE  /\ WindowNow.start = now - Period /\ WindowNow.end = now
         /\ WindowNow.start \in Nat /\ WindowNow.end \in Nat
BY PeriodAssumption, BackfillAssumption DEF Began, WindowNow

LEMMA LoopSound ==
  ASSUME SInv, Began, [LoopNext]_loopVars PROVE SInv'
<1>1. CASE [Next]_vars
  BY <1>1, SoundStep
<1>2. CASE Round
  BY <1>2, RoundWindow, BeginRunInv, PositionsBeginRun, CoverageBeginRun DEF Round, SInv
<1> QED BY <1>1, <1>2, LoopMoves

(* A run begins with a promise that reaches as far down as the row's it loads. *)
LEMMA BeginsBelow ==
  ASSUME SInv, NEW w, w.start \in Nat, w.end \in Nat, BeginRun(w), ckpt'.ts # None
  PROVE  ckpt.ts # None /\ base \in Int /\ base' \in Int /\ base' <= base
<1> DEFINE gaps == GapsBelow(ckpt, w.start, w.end)
<1>1. base \in Int
  BY DEF SInv, Coverage, Modes
<1>2. CASE Refreshes(gaps)
  <2>1. gaps # {}
    BY <1>2, FS_EmptySet, BackfillAssumption DEF Refreshes
  <2>2. Min(gaps) \in Int
    BY <1>2, ResetGoesBack DEF SInv
  <2>3. base' = Min({base, Min(gaps)}) /\ ckpt.ts # None
    BY <1>2, <2>1 DEF BeginRun, GapsBelow
  <2> HIDE DEF gaps
  <2> QED BY <1>1, <2>2, <2>3, EarlierOf
<1>3. CASE ~Refreshes(gaps)
  BY <1>1, <1>3 DEF BeginRun
<1> QED BY <1>2, <1>3

(* Inside a run the promise is the row's or begins at the window's first hour. *)
LEMMA WhereRunsBegin ==
  ASSUME SInv, MainStep \/ FetcherStep \/ Crash
  PROVE  /\ main # "idle" /\ UNCHANGED <<now, start, runs>>
         /\ \/ UNCHANGED <<ckpt, base>>
            \/ main \in {"recv", "insert"} /\ base' = runBase
         /\ main' \in {"recv", "insert"} =>
              \/ main \in {"recv", "insert"} /\ UNCHANGED runBase
              \/ ckpt.ts # None /\ runBase' = base
              \/ runBase' = HourOf(start)
<1>1. CASE FetcherStep
  BY <1>1, FetcherKeeps DEF FetcherStep, FetcherInit, FetcherReachesEnd, FetcherSkips,
     FetchCall, FetchReturn, FetchError, FetcherSend, env, db, run, bound, ghost, SInv,
     IInv, TypeOK, MainOK
<1>2. CASE DecideComplete \/ Finish \/ Crash
  BY <1>2 DEF DecideComplete, Finish, Crash, EndRun, env, db, bound, ghost
<1>3. CASE InsertError
  BY <1>3 DEF InsertError, EndRun, env, ghost
<1>4. CASE Recv \/ InsertOk
  BY <1>4 DEF Recv, InsertOk, env, db, bound, ghost
<1>5. CASE DecideFetch
  <2>1. /\ main = "decide" /\ mem = ckpt /\ UNCHANGED <<ckpt, base, now, start, runs>>
        /\ runBase' = IF ContinuesFromCheckpoint THEN base ELSE HourOf(StartPosition)
    BY <1>5 DEF DecideFetch, env, db, bound, SInv, Coverage, Modes
  <2>2. CASE ContinuesFromCheckpoint
    BY <2>1, <2>2 DEF ContinuesFromCheckpoint
  <2>3. CASE ~ContinuesFromCheckpoint
    BY <2>1, <2>3 DEF StartPosition, GoesBack
  <2> QED BY <2>1, <2>2, <2>3
<1> QED BY <1>1, <1>2, <1>3, <1>4, <1>5 DEF MainStep

LEMMA BeganRound ==
  ASSUME SInv, Began, Round PROVE Began'
<1>1. /\ WindowNow.start = now - Period /\ WindowNow.end = now
      /\ WindowNow.start \in Nat /\ WindowNow.end \in Nat /\ BeginRun(WindowNow)
  BY RoundWindow DEF Round
<1>2. /\ main' = "decide" /\ start' = now - Period /\ now' = now /\ runs' = runs + 1
      /\ runs \in Nat /\ now \in Int /\ ckpt' = mem'
  BY <1>1 DEF BeginRun, env, SInv, IInv, TypeOK, EnvOK
<1>3. ckpt'.ts # None => base' <= HourOf(start')
  <2>1. SUFFICES ASSUME ckpt'.ts # None PROVE base' <= HourOf(start')
    OBVIOUS
  <2>2. ckpt.ts # None /\ base \in Int /\ base' \in Int /\ base' <= base
    BY <1>1, <2>1, BeginsBelow
  <2>3. base <= HourOf(start) /\ start \in Int /\ start <= now - Period
    BY <2>2 DEF Began, SInv, IInv, TypeOK, MainOK
  <2>4. HourOf(start) <= HourOf(start') /\ HourOf(start) \in Int /\ HourOf(start') \in Int
    BY <1>1, <1>2, <2>3, HourMonotonic, TimeTypes
  <2> QED BY <2>2, <2>3, <2>4
<1> QED BY <1>1, <1>2, <1>3 DEF Began

LEMMA BeganInside ==
  ASSUME SInv, Began, MainStep \/ FetcherStep \/ Crash, UNCHANGED asked PROVE Began'
<1>1. HourOf(start) \in Int
  BY TimeTypes DEF SInv, IInv, TypeOK, MainOK
<1> QED BY <1>1, WhereRunsBegin DEF Began

LEMMA BeganStep ==
  ASSUME SInv, Began, [LoopNext]_loopVars PROVE Began'
<1>1. CASE Round
  BY <1>1, BeganRound
<1>2. CASE Running \/ RoundCrash
  BY <1>2, BeganInside DEF Running, RoundCrash
<1>3. CASE Environment \/ LoopRest \/ UNCHANGED loopVars
  <2>1. /\ UNCHANGED <<main, asked, fills, ckpt, start, base, runBase, runs>>
        /\ now' \in {now, now + 1}
    BY <1>3 DEF Environment, LoopRest, loopVars, Tick, Publish, vars, db, env, run, bound,
       ghost, loop
  <2>2. start \in Int /\ Period \in Int /\ InitNow \in Int
    BY PeriodAssumption, BackfillAssumption DEF SInv, IInv, TypeOK, MainOK
  <2>3. /\ now \in Int => now' \in Int
        /\ now \in Int /\ now >= InitNow => now' >= InitNow
        /\ now \in Int /\ start <= now - Period => start <= now' - Period
    BY <2>1, <2>2
  <2> QED BY <2>1, <2>3, Zenon DEF Began
<1> QED BY <1>1, <1>2, <1>3 DEF LoopNext

(* A run that is over, and read its window: as complete, it found the hours   *)
(* sufficient, and so whole, or promised by the checkpoint; as ok, its fetcher*)
(* was done with them and nothing was on its way.                             *)
LEMMA SufficientIsRead ==
  ASSUME SInv, Whole(fills, fills), HasAllHours,
         NEW h \in Int, HourOf(start) <= h, h < HourOf(end)
  PROVE  Read(h)
<1>1. HourOf(start) \in Int /\ HourOf(end) \in Int
  BY TimeTypes DEF SInv, IInv, TypeOK, MainOK
<1>2. h \in HourOf(start) .. (HourOf(end) - 1)
  BY <1>1
<1> DEFINE inside == {f \in fills : HourOf(f) = h /\ start <= f /\ f < end}
<1>3. ~(Cardinality(inside) < MinFills)
  BY <1>2 DEF HasAllHours, Missing
<1>4. inside # {}
  <2>1. Cardinality({}) = 0 /\ MinFills \in Nat \ {0}
    BY FS_EmptySet, MinFillsAssumption
  <2> HIDE DEF inside
  <2> QED BY <1>3, <2>1
<1>5. PICK f \in fills : HourOf(f) = h
  BY <1>4
<1> QED BY <1>5 DEF Whole, Read, Stored

LEMMA PromisedIsRead ==
  ASSUME SInv, Began, main = "decide", EndsBehindCheckpoint,
         NEW h \in Hours, h \in Int, HourOf(start) <= h, h < HourOf(end)
  PROVE  Read(h)
<1>1. /\ mem = ckpt /\ ckpt \in Checkpoint /\ start \in Int /\ end \in Int /\ base \in Int
      /\ TimeAndCursorAgree(ckpt)
  BY DEF SInv, IInv, TypeOK, MainOK, DbOK, Coverage, Modes, Positions
<1>2. ckpt.ts \in Int /\ end <= ckpt.ts /\ ckpt.ts # None
  BY <1>1 DEF EndsBehindCheckpoint, Checkpoint
<1>3. /\ HourOf(end) <= HourOf(ckpt.ts) /\ HourOf(end) \in Int /\ HourOf(ckpt.ts) \in Int
      /\ HourOf(start) \in Int
  BY <1>1, <1>2, HourMonotonic, TimeTypes
<1>4. HourOf(ckpt.ts) <= ResumeHour(ckpt) /\ ResumeHour(ckpt) \in Int
  <2>1. CASE ckpt.cursor = None
    BY <1>2, <1>3, <2>1 DEF ResumeHour
  <2>2. CASE ckpt.cursor # None
    <3>1. ckpt.cursor \in [date : Int, hour : Int] /\ ckpt.ts < CursorTime(ckpt.cursor)
      BY <1>1, <1>2, <2>2 DEF Checkpoint, Cursors, TimeAndCursorAgree
    <3>2. CursorHour(ckpt.cursor) \in Int
      BY <3>1, TimeTypes
    <3>3. HourOf(ckpt.ts) < CursorHour(ckpt.cursor)
      BY <1>2, <3>1, <3>2, HourBounds DEF CursorTime
    <3> QED BY <1>3, <2>2, <3>2, <3>3 DEF ResumeHour
  <2> QED BY <2>1, <2>2
<1>5. base <= HourOf(start)
  BY <1>2 DEF Began
<1>6. h \in Promised(ckpt, base)
  BY <1>1, <1>3, <1>4, <1>5 DEF Promised
<1> QED BY <1>6 DEF SInv, Coverage, RowPart

LEMMA FetchedIsRead ==
  ASSUME SInv, DonePart, Began, main = "recv", fetcher = "done", channel = <<>>,
         \/ curStart >= end
         \/ cursor # None /\ CursorHour(cursor) >= HourOf(end),
         NEW h \in Hours, h \in Int, HourOf(start) <= h, h < HourOf(end)
  PROVE  Read(h)
<1>1. /\ start \in Int /\ end \in Int /\ HourOf(start) \in Int /\ HourOf(end) \in Int
      /\ runBase \in Int /\ runBase <= HourOf(start)
  BY TimeTypes DEF SInv, IInv, TypeOK, MainOK, Coverage, Modes, Began
<1> DEFINE upto == HourOf(ReadPosition(curStart, cursor))
<1>2. /\ curStart \in Int /\ HourOf(curStart) \in Int /\ upto \in Int
      /\ upto = IF cursor = None THEN HourOf(curStart) ELSE CursorHour(cursor)
      /\ cursor # None => CursorHour(cursor) \in Int /\ HourOf(curStart) <= CursorHour(cursor)
  BY PositionsOf DEF SInv, Positions
<1> HIDE DEF upto
<1>3. HourOf(end) <= upto
  <2>1. CASE curStart >= end
    <3>1. HourOf(end) <= HourOf(curStart)
      BY <1>1, <1>2, <2>1, HourMonotonic
    <3> QED BY <1>1, <1>2, <3>1
  <2>2. CASE cursor # None /\ CursorHour(cursor) >= HourOf(end)
    BY <1>1, <1>2, <2>2
  <2> QED BY <2>1, <2>2
<1>4. h \in HoursTo(upto)
  BY <1>1, <1>2, <1>3 DEF HoursTo
<1>5. Pending(h)
  BY <1>4 DEF DonePart, upto
<1>6. Len(channel) = 0 /\ 1..0 = {}
  OBVIOUS
<1> QED BY <1>5, <1>6 DEF Pending, InHand, InChannel

LEMMA PastEnds ==
  ASSUME LoopInv, DecideComplete \/ Finish, reached' = ReadsItsWindow, UNCHANGED <<asked, unbroken>>
  PROVE  Past'
<1>1. /\ main' = "idle" /\ main \in {"decide", "recv"}
      /\ UNCHANGED <<end, fills, swallowed, stepped>>
  BY DEF DecideComplete, Finish, EndRun, db, ghost
<1>2. SUFFICES ASSUME unbroken, ReadsItsWindow
               PROVE  /\ Whole(fills, fills)
                      /\ \A h \in asked \cap Hours : h < HourOf(end) => Read(h)
  BY <1>1 DEF Past, Whole, Read, Stored
<1>3. /\ Whole(fills, fills)
      /\ \A h \in asked \cap Hours : h < HourOf(start) => Read(h)
  BY <1>1, <1>2 DEF LoopInv, Past
<1>4. ASSUME NEW h \in Hours, h < HourOf(end), HourOf(start) <= h PROVE Read(h)
  <2>1. h \in Int
    BY SourceAssumption DEF Hours
  <2>2. CASE DecideComplete
    BY <1>3, <1>4, <2>1, <2>2, SufficientIsRead, PromisedIsRead DEF DecideComplete, LoopInv
  <2>3. CASE Finish
    <3>1. /\ main = "recv" /\ channel = <<>> /\ fetcher = "done"
          /\ \/ curStart >= end
             \/ cursor # None /\ CursorHour(cursor) >= HourOf(end)
      BY <1>2, <2>3 DEF Finish, EndRun, ReadsItsWindow
    <3> QED BY <1>4, <2>1, <3>1, FetchedIsRead DEF LoopInv
  <2> QED BY <2>2, <2>3
<1>5. ASSUME NEW h \in Hours PROVE h < HourOf(start) \/ HourOf(start) <= h
  BY SourceAssumption, TimeTypes DEF Hours, LoopInv, SInv, IInv, TypeOK, MainOK
<1> QED BY <1>3, <1>4, <1>5

(* Inside a run nothing is asked for and what was read stays so. *)
LEMMA PastInside ==
  ASSUME Past, Grow, UNCHANGED <<asked, unbroken, start>>, main # "idle", main' # "idle",
         Whole(fills, IF main = "insert" THEN fills \cup work.fills ELSE fills) =>
           Whole(fills', IF main' = "insert" THEN fills' \cup work'.fills ELSE fills')
  PROVE  Past'
<1>1. \A h : Read(h) => Read(h)'
  BY ReadStays
<1> QED BY <1>1 DEF Past, Whole

LEMMA PastInserts ==
  ASSUME LoopInv, DecideFetch \/ Recv \/ InsertOk \/ InsertError,
         reached' = (IF main' = "idle" THEN ReadsItsWindow ELSE reached),
         UNCHANGED <<asked, unbroken>>
  PROVE  Past'
<1>1. CASE DecideFetch
  <2>1. /\ main = "decide" /\ main' = "recv" /\ UNCHANGED <<fills, start, swallowed, stepped>>
    BY <1>1 DEF DecideFetch, db
  <2> QED BY <2>1, PastInside DEF LoopInv, Grow, Whole
<1>2. CASE Recv
  <2>1. /\ main = "recv" /\ main' = "insert" /\ UNCHANGED <<fills, start, swallowed, stepped>>
    BY <1>2 DEF Recv, db, ghost
  <2>2. Whole(fills, fills) => Whole(fills, fills \cup work'.fills)
    BY DEF Whole
  <2> QED BY <2>1, <2>2, PastInside DEF LoopInv, Grow, Whole
<1>3. CASE InsertOk
  <2>1. /\ main = "insert" /\ main' = "recv" /\ fills' = fills \cup work.fills
        /\ UNCHANGED <<start, swallowed, stepped>>
    BY <1>3 DEF InsertOk
  <2>2. Whole(fills, fills \cup work.fills) => Whole(fills \cup work.fills, fills \cup work.fills)
    BY <2>1 DEF LoopInv, WholePages, Whole
  <2> QED BY <2>1, <2>2, PastInside DEF LoopInv, Grow, Whole
<1>4. CASE InsertError
  <2>1. CASE EndRun("failed")
    <3>1. main' = "idle" /\ ~reached'
      BY <2>1 DEF EndRun, ReadsItsWindow
    <3> QED BY <3>1 DEF Past
  <2>2. CASE ~EndRun("failed")
    <3>1. /\ main = "insert" /\ UNCHANGED <<main, work, start, swallowed, stepped>>
          /\ \E stored \in Prefixes(work.fills) : fills' = fills \cup stored
      BY <1>4, <2>2 DEF InsertError, ghost
    <3>2. PICK stored \in SUBSET work.fills : fills' = fills \cup stored
      BY <3>1 DEF Prefixes
    <3>3. fills' \cup work.fills = fills \cup work.fills
      BY <3>2
    <3>4. Whole(fills, fills \cup work.fills) => Whole(fills', fills' \cup work.fills)
      BY <3>1, <3>2, <3>3 DEF LoopInv, WholePages, Whole
    <3> QED BY <3>1, <3>2, <3>4, PastInside DEF LoopInv, Grow, Whole
  <2> QED BY <2>1, <2>2
<1> QED BY <1>1, <1>2, <1>3, <1>4

LEMMA PastRound ==
  ASSUME LoopInv, Round PROVE Past'
<1>1. /\ main = "idle" /\ main' = "decide"
      /\ UNCHANGED <<fills, swallowed, stepped>>
      /\ asked' = asked \cup (HourOf(start') .. HourOf(end' - 1))
      /\ unbroken' = \/ runs = 0
                     \/ unbroken /\ reached /\ HourOf(start') <= HourOf(end)
  BY DEF Round, BeginRun
<1>2. start' \in Int /\ HourOf(start') \in Int /\ HourOf(end) \in Int
  <2>1. start' = WindowNow.start
    BY DEF Round, BeginRun
  <2>2. WindowNow.start \in Int /\ end \in Int
    BY RoundWindow DEF LoopInv, SInv, IInv, TypeOK, MainOK
  <2> QED BY <2>1, <2>2, TimeTypes
<1>3. \A h : Read(h) <=> Read(h)'
  BY <1>1 DEF Read, Stored
<1>4. SUFFICES ASSUME unbroken'
               PROVE  /\ Whole(fills, fills)
                      /\ \A h \in asked \cap Hours : h < HourOf(start') => Read(h)
  <2>1. ASSUME NEW h \in Hours, h \in HourOf(start') .. HourOf(end' - 1)
        PROVE  ~(h < HourOf(start'))
    BY <1>2, <2>1
  <2> QED BY <1>1, <1>3, <2>1 DEF Past, Whole
<1>5. CASE runs = 0
  BY <1>5 DEF LoopInv, Began, Whole
<1>6. CASE unbroken /\ reached /\ HourOf(start') <= HourOf(end)
  <2>1. /\ Whole(fills, fills)
        /\ \A h \in asked \cap Hours : h < HourOf(end) => Read(h)
    BY <1>1, <1>6 DEF LoopInv, Past
  <2>2. ASSUME NEW h \in Hours, h < HourOf(start') PROVE h < HourOf(end)
    BY <1>2, <1>6, <2>2, SourceAssumption DEF Hours
  <2> QED BY <2>1, <2>2
<1> QED BY <1>1, <1>4, <1>5, <1>6

LEMMA PastStep ==
  ASSUME LoopInv, [LoopNext]_loopVars PROVE Past'
<1>1. CASE Environment \/ LoopRest \/ UNCHANGED loopVars
  <2>1. UNCHANGED <<main, work, start, end, fills, swallowed, stepped, asked, reached, unbroken>>
    BY <1>1 DEF Environment, LoopRest, loopVars, Tick, Publish, vars, db, run, ghost, loop
  <2>2. \A h : Read(h) <=> Read(h)'
    BY <2>1 DEF Read, Stored
  <2> QED BY <2>1, <2>2 DEF LoopInv, Past, Whole
<1>2. CASE RoundCrash
  <2>1. main' = "idle" /\ ~reached'
    BY <1>2 DEF RoundCrash, Crash, EndRun
  <2> QED BY <2>1 DEF Past
<1>3. CASE Running
  <2>1. /\ (MainStep \/ FetcherStep) /\ UNCHANGED <<asked, unbroken>>
        /\ reached' = (IF main' = "idle" THEN ReadsItsWindow ELSE reached)
    BY <1>3 DEF Running
  <2>2. CASE FetcherStep
    <3>1. /\ UNCHANGED <<main, work, fills, start>> /\ Grow /\ main # "idle"
      BY <2>2, FetcherKeeps DEF LoopInv, FetcherStep, FetcherInit, FetcherReachesEnd,
         FetcherSkips, FetchCall, FetchReturn, FetchError, FetcherSend, db, run
    <3> QED BY <1>3, <3>1, PastInside DEF LoopInv, Whole, Running
  <2>3. CASE DecideComplete \/ Finish
    <3>1. main' = "idle"
      BY <2>3 DEF DecideComplete, Finish, EndRun
    <3> QED BY <1>3, <2>1, <2>3, <3>1, PastEnds DEF Running
  <2>4. CASE DecideFetch \/ Recv \/ InsertOk \/ InsertError
    BY <1>3, <2>1, <2>4, PastInserts DEF Running
  <2> QED BY <1>3, <2>2, <2>3, <2>4 DEF Running, MainStep
<1> QED BY <1>1, <1>2, <1>3, PastRound DEF LoopNext

LEMMA LoopInvStep == LoopInv /\ [LoopNext]_loopVars => LoopInv'
<1> SUFFICES ASSUME LoopInv, [LoopNext]_loopVars PROVE LoopInv'
  OBVIOUS
<1>1. [Next]_vars \/ \E w : BeginRun(w)
  BY LoopMoves DEF Round
<1> QED BY <1>1, LoopSound, WholePagesStep, DoneStep, BeganStep, PastStep DEF LoopInv

(* Rounds that each get to the end of their window, with windows that meet,   *)
(* together leave out no hour since the first, from an empty database on and  *)
(* for every period, page size and bucket: what one window's end cuts short   *)
(* is read by the next (backfill-loop.sh, lines 12-24).                       *)
EmptyDatabase == \A d \in Databases : d.fills = {} /\ d.ckpt = NewCheckpoint

THEOREM LoopLeavesNoHour == EmptyDatabase => (LoopSpec => []LoopCovers)
<1> SUFFICES ASSUME EmptyDatabase PROVE LoopSpec => []LoopCovers
  OBVIOUS
<1>1. ASSUME LoopInit PROVE LoopInv
  <2>1. Init /\ fills = {} /\ ckpt.ts = None
    BY <1>1 DEF LoopInit, Init, EmptyDatabase, NewCheckpoint
  <2>2. SInv
    BY <2>1, SoundInit
  <2>3. /\ main = "idle" /\ fetcher = "off" /\ channel = <<>> /\ runs = 0 /\ now = InitNow
        /\ asked = {} /\ DOMAIN channel = {}
    BY <1>1 DEF LoopInit, Init
  <2> QED BY <2>1, <2>2, <2>3, BackfillAssumption
          DEF LoopInv, WholePages, DonePart, Began, Past, Whole
<1>2. LoopInv => LoopCovers
  BY DEF LoopInv, Past, LoopCovers, Covered, Read
<1> QED BY <1>1, <1>2, LoopInvStep, PTL DEF LoopSpec

-----------------------------------------------------------------------------
(* The guard at line 236 refuses no page that has fills.  Once a run has moved *)
(* its checkpoint that is lemma NoneRefused.  Before, the pages begin at the  *)
(* hour that the run resumes at, which is after the loaded checkpoint's time, *)
(* or is the hour of it: a fill that is read again, so that the page goes up  *)
(* to it.  The one exception is a window that starts on the last tick of an   *)
(* hour with no fill there, where a reset has left the checkpoint.            *)
LastTick(t) == HourOf(t + 1) # HourOf(t)
StartsOnFill(t) == LastTick(t) => FromFile(t)
InTime(c) == c.ts # None => FromFile(c.ts) \/ (LastTick(c.ts) /\ c.cursor # None)

Unmoved == main \in {"recv", "insert"} /\ ~updated /\ mem.ts # None
After(h) == HourOf(mem.ts) <= h /\ (FromFile(mem.ts) \/ HourOf(mem.ts) < h)
AllAfter(got) == \A f \in got.fills : After(HourOf(f))

RowTimes == InTime(ckpt) /\ InTime(mem) /\ (main # "idle" => StartsOnFill(start))
ReadsAfter ==
  Unmoved /\ fetcher \in {"init", "loop", "fetch", "retry", "send"} =>
    HourOf(mem.ts) <= HourOf(curStart) /\ After(HourOf(ReadPosition(curStart, cursor)))
PagesAfter ==
  Unmoved => /\ fetcher = "send" => AllAfter(page)
             /\ \A i \in DOMAIN channel : AllAfter(channel[i])
             /\ main = "insert" => AllAfter(work)
AfterInv == RInv /\ WholePages /\ RowTimes /\ ReadsAfter /\ PagesAfter

LEMMA TickBefore ==
  ASSUME NEW gap \in Int PROVE LastTick(HourStart(gap) - 1)
<1>1. HourStart(gap) \in Int /\ HourOf(HourStart(gap)) = gap
  BY TimeTypes, HourBounds
<1>2. HourOf(HourStart(gap) - 1) < gap
  BY <1>1, HourBounds
<1>3. HourOf(HourStart(gap) - 1) \in Int
  BY <1>1, TimeTypes
<1>4. (HourStart(gap) - 1) + 1 = HourStart(gap)
  BY <1>1
<1> QED BY <1>1, <1>2, <1>3, <1>4 DEF LastTick

LEMMA RowTimesBegin ==
  ASSUME SInv, RowTimes, NEW w, w.start \in Nat, w.end \in Nat, StartsOnFill(w.start),
         BeginRun(w)
  PROVE  RowTimes'
<1> DEFINE gaps == GapsBelow(ckpt, w.start, w.end)
<1>1. ckpt' = mem' /\ start' = w.start
  BY DEF BeginRun
<1>2. InTime(mem')
  <2>1. CASE Refreshes(gaps)
    <3>1. mem' = BackTo(ckpt, Min(gaps)) /\ ckpt \in Checkpoint /\ Min(gaps) \in Int
      BY <2>1, ResetGoesBack DEF BeginRun, SInv, IInv, TypeOK, DbOK
    <3>2. /\ mem'.ts = HourStart(Min(gaps)) - 1
          /\ mem'.cursor \in [date : Int, hour : Int]
      BY <3>1, BackToAgrees
    <3>3. mem'.cursor # None
      BY <3>2, NoneAssumption
    <3> HIDE DEF gaps
    <3> QED BY <3>1, <3>2, <3>3, TickBefore DEF InTime
  <2>2. CASE ~Refreshes(gaps)
    BY <2>2 DEF BeginRun, RowTimes
  <2> QED BY <2>1, <2>2
<1> QED BY <1>1, <1>2 DEF RowTimes

LEMMA RowTimesMain ==
  ASSUME SInv, WholePages, RowTimes, MainStep \/ Crash PROVE RowTimes'
<1>1. InTime(NewCheckpoint)
  BY DEF InTime, NewCheckpoint
<1>2. CASE DecideComplete \/ Finish \/ Crash
  BY <1>1, <1>2 DEF DecideComplete, Finish, Crash, EndRun, db, RowTimes
<1>3. CASE InsertError
  <2>1. CASE EndRun("failed")
    BY <1>1, <1>3, <2>1 DEF InsertError, EndRun, RowTimes
  <2>2. CASE ~EndRun("failed")
    BY <1>3, <2>2 DEF InsertError, RowTimes
  <2> QED BY <2>1, <2>2
<1>4. CASE DecideFetch \/ Recv
  <2>1. UNCHANGED <<ckpt, mem, start>> /\ main # "idle"
    BY <1>4 DEF DecideFetch, Recv, db
  <2> QED BY <2>1 DEF RowTimes
<1>5. CASE InsertOk
  <2>1. /\ main = "insert" /\ mem' = MemAfter(Inserted) /\ UNCHANGED start
        /\ ckpt' = ckpt \/ ckpt' = mem'
    BY <1>5 DEF InsertOk
  <2>2. InTime(mem')
    <3>1. CASE ShouldUpdate
      <4>1. work.fills # {} /\ work.fills \in Batches
        BY <2>1, <3>1 DEF ShouldUpdate, SInv, IInv, TypeOK, MainOK, Pages
      <4>2. Max(work.fills) \in work.fills
        BY <4>1, BatchTypes
      <4>3. FromFile(Max(work.fills))
        BY <2>1, <4>2 DEF WholePages, Whole
      <4>4. mem'.ts = Max(work.fills)
        BY <2>1, <3>1 DEF MemAfter
      <4> QED BY <4>3, <4>4 DEF InTime
    <3>2. CASE ~ShouldUpdate
      BY <2>1, <3>2 DEF MemAfter, RowTimes
    <3> QED BY <3>1, <3>2
  <2> QED BY <2>1, <2>2 DEF RowTimes
<1> QED BY <1>2, <1>3, <1>4, <1>5 DEF MainStep

(* A run that goes on from its checkpoint reads where that says; one that does *)
(* not starts no earlier than the checkpoint's time.                          *)
LEMMA AfterDecides ==
  ASSUME RInv, RowTimes, DecideFetch PROVE ReadsAfter' /\ PagesAfter'
<1>1. /\ main = "decide" /\ main' = "recv" /\ fetcher' = "init" /\ channel' = <<>>
      /\ UNCHANGED mem /\ curStart' = StartPosition /\ cursor' = StartCursor
  BY DEF DecideFetch, RInv, SInv, Coverage, Modes
<1>2. DOMAIN channel' = {}
  BY <1>1
<1>3. PagesAfter'
  BY <1>1, <1>2 DEF PagesAfter
<1>4. SUFFICES ASSUME mem.ts # None
               PROVE  /\ HourOf(mem.ts) <= HourOf(StartPosition)
                      /\ After(HourOf(ReadPosition(StartPosition, StartCursor)))
  BY <1>1, <1>3 DEF ReadsAfter, Unmoved, After
<1>5. /\ ~GoesBack /\ mem \in Checkpoint /\ start \in Int /\ TimeAndCursorAgree(mem)
      /\ InTime(mem) /\ StartsOnFill(start)
  BY <1>1 DEF DecideFetch, RInv, GoBackUnreachable, SInv, Positions, IInv, TypeOK, MainOK,
     RowTimes
<1>6. /\ mem.ts \in Int /\ HourOf(mem.ts) \in Int /\ ResumeHour(mem) \in Int
      /\ HourOf(mem.ts) <= ResumeHour(mem)
      /\ HourOf(ReadPosition(mem.ts, mem.cursor)) = ResumeHour(mem)
  BY <1>4, <1>5, ResumeTypes
<1>7. CASE ContinuesFromCheckpoint
  <2>1. StartPosition = mem.ts /\ StartCursor = mem.cursor
    BY <1>5, <1>7 DEF StartPosition, StartCursor
  <2>2. CASE FromFile(mem.ts)
    BY <1>6, <2>1, <2>2 DEF After
  <2>3. CASE ~FromFile(mem.ts)
    <3>1. mem.cursor # None /\ mem.ts < CursorTime(mem.cursor)
      BY <1>4, <1>5, <2>3 DEF InTime, TimeAndCursorAgree
    <3>2. CursorHour(mem.cursor) \in Int /\ ResumeHour(mem) = CursorHour(mem.cursor)
      BY <1>5, <3>1, TimeTypes DEF Checkpoint, Cursors, ResumeHour
    <3>3. HourOf(mem.ts) < CursorHour(mem.cursor)
      BY <1>6, <3>1, <3>2, HourBounds DEF CursorTime
    <3> QED BY <1>6, <2>1, <3>2, <3>3 DEF After
  <2> QED BY <2>2, <2>3
<1>8. CASE ~ContinuesFromCheckpoint
  <2>1. StartPosition = start /\ ReadPosition(StartPosition, StartCursor) = start
    BY <1>5, <1>8 DEF StartPosition, StartCursor, ReadPosition
  <2>2. mem.ts <= start
    BY <1>4, <1>5, <1>6, <1>8 DEF ContinuesFromCheckpoint
  <2>3. HourOf(start) \in Int /\ HourOf(mem.ts) <= HourOf(start)
    BY <1>5, <1>6, <2>2, HourMonotonic, TimeTypes
  <2>4. CASE FromFile(mem.ts)
    BY <2>1, <2>3, <2>4 DEF After
  <2>5. CASE ~FromFile(mem.ts)
    <3>1. LastTick(mem.ts) /\ mem.ts # start
      BY <1>4, <1>5, <2>5 DEF InTime, StartsOnFill
    <3>2. mem.ts + 1 \in Int /\ mem.ts <= mem.ts + 1 /\ mem.ts + 1 <= start
      BY <1>5, <1>6, <2>2, <3>1
    <3>3. /\ HourOf(mem.ts) <= HourOf(mem.ts + 1) /\ HourOf(mem.ts + 1) <= HourOf(start)
          /\ HourOf(mem.ts + 1) \in Int
      BY <1>5, <1>6, <3>2, HourMonotonic, TimeTypes
    <3>4. HourOf(mem.ts) < HourOf(start)
      BY <1>6, <2>3, <3>1, <3>3 DEF LastTick
    <3> QED BY <2>1, <2>3, <3>4 DEF After
  <2> QED BY <2>4, <2>5
<1> QED BY <1>7, <1>8

LEMMA AfterOn ==
  ASSUME Unmoved, mem \in Checkpoint, NEW h \in Int, NEW k \in Int, After(h), h <= k
  PROVE  After(k)
<1>1. HourOf(mem.ts) \in Int
  BY TimeTypes DEF Unmoved, Checkpoint
<1> QED BY <1>1 DEF After

LEMMA AfterFetched ==
  ASSUME SInv, ReadsAfter, PagesAfter, FetchReturn PROVE ReadsAfter' /\ PagesAfter'
<1> DEFINE pos == ReadPosition(curStart, cursor)
<1>1. PICK failing : /\ page' = FetchPage(pos, reading, published, failing, now)
                     /\ ~FetchFails(pos, reading, failing)
  BY DEF FetchReturn
<1>2. /\ fetcher = "fetch" /\ fetcher' = "send" /\ cursor' = page'.cursor
      /\ curStart' = NextStart(page')
      /\ UNCHANGED <<main, mem, updated, work, channel>>
  BY DEF FetchReturn, run
<1>3. /\ reading \in 0..PageHours /\ now \in Int /\ published \in SUBSET Hours
      /\ mem \in Checkpoint
  BY <1>2 DEF SInv, IInv, TypeOK, MainOK, FetcherOK, EnvOK
<1>4. /\ pos \in Int /\ HourOf(pos) \in Int /\ HourOf(curStart) \in Int
      /\ HourEnd \in Int /\ HourOf(HourEnd) = HourOf(curStart) + 1
  BY PositionsOf DEF SInv
<1>5. SUFFICES ASSUME Unmoved
               PROVE  /\ HourOf(mem.ts) <= HourOf(curStart')
                      /\ After(HourOf(ReadPosition(curStart', cursor')))
                      /\ AllAfter(page')
  BY <1>2 DEF ReadsAfter, PagesAfter, Unmoved, After, AllAfter
<1>6. HourOf(mem.ts) <= HourOf(curStart) /\ After(HourOf(pos)) /\ HourOf(mem.ts) \in Int
  BY <1>2, <1>3, <1>5, TimeTypes DEF ReadsAfter, Unmoved, Checkpoint
<1>7. /\ page' \in Pages /\ HasWholeHours(pos, page')
      /\ page' = EndOfData \/ ReadsToCursor(pos, reading, published, failing, page')
  BY <1>1, <1>3, <1>4, FetchPageType, PageIsWhole, PageReadsToCursor
<1>8. AllAfter(page')
  <2>1. ASSUME NEW f \in page'.fills PROVE After(HourOf(f))
    <3>1. HourOf(f) \in Int /\ HourOf(pos) <= HourOf(f)
      BY <1>7 DEF HasWholeHours
    <3> QED BY <1>3, <1>4, <1>5, <1>6, <3>1, AfterOn
  <2> QED BY <2>1 DEF AllAfter
<1>9. HourOf(curStart') \in Int /\ HourOf(mem.ts) <= HourOf(curStart')
  <2>1. CASE page'.fills = {}
    BY <1>2, <1>4, <1>6, <2>1 DEF NextStart
  <2>2. CASE page'.fills # {}
    <3>1. page'.fills \in Batches
      BY <1>7 DEF Pages
    <3>2. curStart' \in page'.fills
      BY <1>2, <2>2, <3>1, BatchTypes DEF NextStart
    <3>3. HourOf(curStart') \in Int
      BY <1>7, <3>2 DEF HasWholeHours
    <3> QED BY <1>8, <3>2, <3>3 DEF AllAfter, After
  <2> QED BY <2>1, <2>2
<1>10. After(HourOf(ReadPosition(curStart', cursor')))
  <2>1. CASE page' = EndOfData
    <3>1. cursor' = None /\ curStart' = HourEnd
      BY <1>2, <2>1 DEF NextStart, EndOfData
    <3>2. HourOf(mem.ts) < HourOf(curStart')
      BY <1>4, <1>6, <3>1
    <3> QED BY <1>9, <3>1, <3>2 DEF ReadPosition, After
  <2>2. CASE ReadsToCursor(pos, reading, published, failing, page')
    <3>1. /\ cursor' \in [date : Int, hour : Int] /\ CursorHour(cursor') \in Int
          /\ HourOf(pos) + 1 <= CursorHour(cursor')
      BY <1>2, <2>2, TimeTypes DEF ReadsToCursor
    <3>2. HourOf(ReadPosition(curStart', cursor')) = CursorHour(cursor')
      BY <3>1, CursorTimeHour, NoneAssumption DEF ReadPosition
    <3>3. HourOf(pos) <= CursorHour(cursor')
      BY <1>4, <3>1
    <3> QED BY <1>3, <1>4, <1>5, <1>6, <3>1, <3>2, <3>3, AfterOn
  <2> QED BY <1>7, <2>1, <2>2
<1> QED BY <1>8, <1>9, <1>10

LEMMA AfterKept ==
  ASSUME ReadsAfter, PagesAfter, Unmoved' => Unmoved, UNCHANGED mem,
         fetcher' \in {"init", "loop", "fetch", "retry", "send"} =>
           /\ fetcher \in {"init", "loop", "fetch", "retry", "send"}
           /\ UNCHANGED <<curStart, cursor>>,
         fetcher' = "send" => fetcher = "send" /\ UNCHANGED page,
         \A i \in DOMAIN channel' :
           \/ \E j \in DOMAIN channel : channel'[i] = channel[j]
           \/ fetcher = "send" /\ channel'[i] = page,
         main' = "insert" =>
           \/ main = "insert" /\ UNCHANGED work
           \/ \E j \in DOMAIN channel : work' = channel[j]
  PROVE  ReadsAfter' /\ PagesAfter'
<1>1. ReadsAfter'
  BY DEF ReadsAfter, After
<1>2. PagesAfter'
  BY DEF PagesAfter, AllAfter, After
<1> QED BY <1>1, <1>2

LEMMA AfterFetcher ==
  ASSUME SInv, ReadsAfter, PagesAfter, FetcherStep PROVE ReadsAfter' /\ PagesAfter'
<1>1. UNCHANGED <<main, work, mem, updated>>
  BY FetcherKeeps
<1>2. Unmoved' <=> Unmoved
  BY <1>1 DEF Unmoved
<1>3. CASE FetcherInit \/ FetcherReachesEnd \/ FetchCall \/ FetchError
  <2>1. /\ UNCHANGED <<curStart, cursor, channel, page>> /\ fetcher' # "send"
        /\ fetcher \in {"init", "loop", "fetch", "retry"}
    BY <1>3 DEF FetcherInit, FetcherReachesEnd, FetchCall, FetchError
  <2> QED BY <1>1, <1>2, <2>1, AfterKept
<1>4. CASE FetcherSkips
  <2>1. /\ fetcher = "loop" /\ fetcher' = "loop" /\ curStart' = HourEnd
        /\ UNCHANGED <<channel, page>>
        /\ HourOf(ReadPosition(curStart, cursor))' = HourOf(curStart) + 1
    BY <1>4, SkipsToNextHour DEF FetcherSkips
  <2>2. /\ HourOf(curStart) \in Int /\ HourOf(HourEnd) = HourOf(curStart) + 1
    BY PositionsOf DEF SInv
  <2>3. ReadsAfter'
    <3>1. SUFFICES ASSUME Unmoved
                   PROVE  /\ HourOf(mem.ts) <= HourOf(curStart')
                          /\ After(HourOf(curStart) + 1)
      BY <1>1, <1>2, <2>1 DEF ReadsAfter, After
    <3>2. HourOf(mem.ts) <= HourOf(curStart) /\ HourOf(mem.ts) \in Int
      BY <2>1, <3>1, TimeTypes DEF ReadsAfter, Unmoved, SInv, IInv, TypeOK, MainOK, Checkpoint
    <3> QED BY <2>1, <2>2, <3>2 DEF After
  <2>4. PagesAfter'
    BY <1>1, <1>2, <2>1 DEF PagesAfter, AllAfter, After
  <2> QED BY <2>3, <2>4
<1>5. CASE FetcherSend
  <2>1. /\ fetcher = "send" /\ fetcher' # "send" /\ channel' = Append(channel, page)
        /\ UNCHANGED <<curStart, cursor>> /\ channel \in Seq(Pages)
    BY <1>5 DEF FetcherSend, SInv, IInv, TypeOK, FetcherOK
  <2>2. ASSUME NEW i \in DOMAIN channel'
        PROVE  \/ \E j \in DOMAIN channel : channel'[i] = channel[j]
               \/ channel'[i] = page
    BY <2>1, <2>2
  <2> QED BY <1>1, <1>2, <2>1, <2>2, AfterKept
<1> QED BY <1>3, <1>4, <1>5, AfterFetched DEF FetcherStep

LEMMA AfterMain ==
  ASSUME RInv, RowTimes, ReadsAfter, PagesAfter, MainStep \/ Crash
  PROVE  ReadsAfter' /\ PagesAfter'
<1>1. CASE main' = "idle"
  BY <1>1 DEF ReadsAfter, PagesAfter, Unmoved
<1>2. CASE DecideComplete \/ Finish \/ Crash
  BY <1>1, <1>2 DEF DecideComplete, Finish, Crash, EndRun
<1>3. CASE InsertError
  <2>1. CASE EndRun("failed")
    BY <1>1, <2>1 DEF EndRun
  <2>2. CASE ~EndRun("failed")
    <3>1. UNCHANGED <<main, mem, updated, work, fetcher, curStart, cursor, page, channel>>
      BY <1>3, <2>2 DEF InsertError, task
    <3> QED BY <3>1, AfterKept DEF Unmoved
  <2> QED BY <2>1, <2>2
<1>4. CASE Recv
  <2>1. /\ main = "recv" /\ channel # <<>> /\ work' = Head(channel)
        /\ channel' = Tail(channel)
        /\ UNCHANGED <<mem, updated, fetcher, curStart, cursor, page>>
        /\ channel \in Seq(Pages)
    BY <1>4 DEF Recv, task, RInv, SInv, IInv, TypeOK, FetcherOK
  <2>2. /\ work' = channel[1] /\ 1 \in DOMAIN channel
        /\ \A i \in DOMAIN channel' : i + 1 \in DOMAIN channel /\ channel'[i] = channel[i + 1]
    BY <2>1, HeadTailProperties
  <2> QED BY <2>1, <2>2, AfterKept DEF Unmoved
<1>5. CASE InsertOk
  <2>1. /\ main = "insert" /\ main' = "recv" /\ mem' = MemAfter(Inserted)
        /\ updated' = (updated \/ ShouldUpdate)
        /\ UNCHANGED <<channel, fetcher, curStart, cursor, page>>
    BY <1>5 DEF InsertOk, task
  <2>2. CASE updated \/ ShouldUpdate
    BY <2>1, <2>2 DEF ReadsAfter, PagesAfter, Unmoved
  <2>3. CASE ~ShouldUpdate
    BY <2>1, <2>3, AfterKept DEF Unmoved, MemAfter
  <2> QED BY <2>2, <2>3
<1> QED BY <1>2, <1>3, <1>4, <1>5, AfterDecides DEF MainStep

WindowsStartOnFills == \A w \in Windows : StartsOnFill(w.start)

LEMMA AfterStep ==
  ASSUME WindowsStartOnFills, AfterInv, RInv', [Next]_vars PROVE AfterInv'
<1>1. SInv /\ WholePages'
  BY WholePagesStep DEF AfterInv, RInv
<1>2. CASE Tick \/ (\E h \in Hours : Publish(h)) \/ UNCHANGED vars
  <2>1. UNCHANGED <<ckpt, mem, main, start, updated, work, fetcher, curStart, cursor, page,
                    channel>>
    BY <1>2 DEF Tick, Publish, vars, db, run, task
  <2> QED BY <1>1, <2>1, AfterKept DEF AfterInv, RowTimes, Unmoved
<1>3. ASSUME NEW w \in Windows, BeginRun(w) PROVE AfterInv'
  <2>1. RowTimes'
    BY <1>1, <1>3, RowTimesBegin, BackfillAssumption DEF AfterInv, WindowsStartOnFills
  <2>2. main' = "decide"
    BY <1>3 DEF BeginRun
  <2> QED BY <1>1, <2>1, <2>2 DEF AfterInv, ReadsAfter, PagesAfter, Unmoved
<1>4. CASE MainStep \/ Crash
  BY <1>1, <1>4, RowTimesMain, AfterMain DEF AfterInv
<1>5. CASE FetcherStep
  <2>1. UNCHANGED <<main, mem, ckpt, start>>
    BY <1>1, <1>5, FetcherKeeps
  <2> QED BY <1>1, <1>5, <2>1, AfterFetcher DEF AfterInv, RowTimes
<1> QED BY <1>2, <1>3, <1>4, <1>5 DEF Next, Rest

(* No page with fills is refused, if no window starts on the last tick of an  *)
(* hour without a fill there and the rows there are at first hold the time of *)
(* a fill or of a reset (lines 234-236).                                      *)
RowsInTime == \A d \in Databases : InTime(d.ckpt)

THEOREM PagesAdvance ==
  WindowsStartOnFills /\ RowsInTime /\ RefreshGap <= GoBackGap =>
    (Spec => []EveryPageAdvances)
<1> SUFFICES ASSUME WindowsStartOnFills, RowsInTime, RefreshGap <= GoBackGap
             PROVE  Spec => []EveryPageAdvances
  OBVIOUS
<1>1. Init /\ RInv => AfterInv
  <2> SUFFICES ASSUME Init, RInv PROVE AfterInv
    OBVIOUS
  <2>1. /\ InTime(ckpt) /\ mem = NewCheckpoint /\ main = "idle" /\ fetcher = "off"
        /\ channel = <<>> /\ DOMAIN channel = {}
    BY DEF Init, RowsInTime
  <2>2. InTime(NewCheckpoint)
    BY DEF InTime, NewCheckpoint
  <2> QED BY <2>1, <2>2 DEF AfterInv, WholePages, RowTimes, ReadsAfter, PagesAfter, Unmoved
<1>2. AfterInv => EveryPageAdvances
  <2> SUFFICES ASSUME AfterInv, main = "insert", work.fills # {} PROVE ShouldUpdate
    BY DEF EveryPageAdvances
  <2>1. CASE updated
    BY <2>1, NoneRefused DEF AfterInv, RInv
  <2>2. CASE mem.ts = None
    BY <2>2 DEF ShouldUpdate
  <2>3. CASE ~updated /\ mem.ts # None
    <3>1. /\ AllAfter(work) /\ Whole(work.fills, work.fills) /\ work.fills \in Batches
          /\ mem.ts \in Int
      BY <2>3 DEF AfterInv, PagesAfter, Unmoved, WholePages, RInv, SInv, IInv, TypeOK, MainOK,
         Pages, Checkpoint
    <3>2. /\ Max(work.fills) \in Int /\ Max(work.fills) \in work.fills
          /\ \A g \in work.fills : Max(work.fills) >= g
      BY <3>1, BatchTypes, MaxProperties DEF Batches
    <3>3. PICK f \in work.fills : f \in Int /\ f = Max(work.fills)
      BY <3>2
    <3>4. After(HourOf(f)) /\ File[HourOf(f)] \subseteq work.fills
      BY <3>1, <3>3 DEF AllAfter, Whole
    <3>5. HourOf(f) \in Int /\ HourOf(mem.ts) \in Int
      BY <3>1, <3>3, TimeTypes
    <3>6. mem.ts <= f
      <4>1. CASE HourOf(mem.ts) < HourOf(f)
        BY <3>1, <3>3, <3>5, <4>1, HourMonotonic
      <4>2. CASE HourOf(mem.ts) = HourOf(f)
        BY <3>1, <3>2, <3>3, <3>4, <3>5, <4>2 DEF After, FromFile
      <4> QED BY <3>4, <3>5, <4>1, <4>2 DEF After
    <3> QED BY <3>1, <3>3, <3>6 DEF ShouldUpdate
  <2> QED BY <2>1, <2>2, <2>3
<1>3. Init => RInv
  BY RunInvariant
<1>4. RInv /\ [Next]_vars => RInv'
  BY RunInvariant
<1>5. AfterInv /\ [Next]_vars => AfterInv'
  BY <1>4, AfterStep DEF AfterInv
<1> QED BY <1>1, <1>2, <1>3, <1>5, PTL DEF Spec

-----------------------------------------------------------------------------
(* The clock.  A page of hours that have not come is read in parallel, because *)
(* the hour count of a call is cast from a negative number; it could have a   *)
(* fill only if an hour were to come and go while the call is in flight.      *)
VARIABLE called         \* history: the clock when the last call of fetch_page began

CallsDated ==
  called = 0 /\ [][called' = IF fetcher # "fetch" /\ fetcher' = "fetch"
                            THEN now ELSE called]_<<vars, called>>
ShortCalls == fetcher = "fetch" => now - called <= TicksPerHour

NotAhead(c) == /\ c.cursor # None => CursorTime(c.cursor) <= now
               /\ c.ts # None => c.ts <= now
EndsInTime(got) == got.fills # {} => CursorTime(got.cursor) <= now

HoursGone == \A h \in published : HourStart(h + 1) <= now
RowsInThePast == NotAhead(ckpt) /\ NotAhead(mem)
PagesInThePast == /\ main = "insert" => EndsInTime(work)
                  /\ \A i \in DOMAIN channel : EndsInTime(channel[i])
                  /\ fetcher = "send" => EndsInTime(page)
CallPart == fetcher = "fetch" => /\ called \in Int /\ called <= now
                                 /\ reading = HoursUntilNow(ReadPosition(curStart, cursor), called)
ClockInv == SInv /\ HoursGone /\ RowsInThePast /\ PagesInThePast /\ CallPart

LEMMA HourBegins ==
  ASSUME NEW t \in Int, NEW h \in Int, h <= HourOf(t)
  PROVE  HourStart(h) \in Int /\ HourStart(h) <= t
<1>1. HourStart(h) \in Int /\ HourOf(t) \in Int /\ ~(HourOf(t) < h)
  BY TimeTypes
<1>2. ~(t < HourStart(h))
  BY <1>1, HourBounds
<1> QED BY <1>1, <1>2

LEMMA CountedHoursHaveGone ==
  ASSUME NEW pos \in Int, NEW t \in Int, NEW n, n = HoursUntilNow(pos, t), IsParallel(n)
  PROVE  pos + HourStart(n) <= t \/ t + TicksPerHour <= pos
<1>1. /\ n \in Int /\ n >= 1 /\ PageHours \in Nat
      /\ n = IF NumHours(t - pos) \in 0..PageHours THEN NumHours(t - pos) ELSE PageHours
  BY SourceAssumption, HoursUntilNowType DEF HoursUntilNow, IsParallel
<1>2. CASE t >= pos
  <2>1. t - pos \in Int /\ NumHours(t - pos) = HourOf(t - pos) /\ HourOf(t - pos) \in Int
    BY <1>2, TimeTypes DEF NumHours, HourOf
  <2>2. HourOf(t - pos) >= 0
    BY <1>2, <2>1, TimeAssumption, SMTT(30) DEF HourOf
  <2>3. n <= HourOf(t - pos)
    BY <1>1, <2>1, <2>2
  <2>4. HourStart(n) <= t - pos /\ HourStart(n) \in Int
    BY <1>1, <2>1, <2>3, HourBegins
  <2> QED BY <1>1, <2>4
<1>3. CASE t < pos
  <2>1. /\ pos - t \in Int /\ HourOf(pos - t) \in Int
        /\ NumHours(t - pos) = -HourOf(pos - t)
    <3>1. pos - t \in Int /\ HourOf(pos - t) \in Int /\ -(t - pos) = pos - t /\ ~(t - pos >= 0)
      BY <1>3, TimeTypes
    <3> QED BY <3>1 DEF NumHours, HourOf
  <2>2. HourOf(pos - t) >= 0
    BY <1>3, <2>1, TimeAssumption, SMTT(30) DEF HourOf
  <2>3. HourOf(pos - t) >= 1
    BY <1>1, <2>1, <2>2
  <2>4. HourStart(1) <= pos - t
    BY <2>1, <2>3, HourBegins
  <2>5. HourStart(1) = TicksPerHour /\ TicksPerHour \in Int
    BY TimeAssumption DEF HourStart
  <2> QED BY <2>1, <2>4, <2>5
<1> QED BY <1>2, <1>3

LEMMA PageEndsInTime ==
  ASSUME NEW pos \in Int, NEW t \in Int, NEW clock \in Int, t <= clock,
         clock - t <= TicksPerHour,
         NEW seen \in SUBSET Hours, \A h \in seen : HourStart(h + 1) <= clock,
         NEW n \in 0..PageHours, n = HoursUntilNow(pos, t), NEW failing,
         NEW got, got = FetchPage(pos, n, seen, failing, clock), got.fills # {}
  PROVE  CursorTime(got.cursor) <= clock
<1>1. HourOf(pos) \in Int /\ n \in Int /\ TicksPerHour \in Int
  BY TimeTypes, SourceAssumption, TimeAssumption
<1>2. CASE ~IsParallel(n)
  <2>1. got = SinglePage(pos, clock) /\ HourOf(pos) \in seen
    BY <1>2 DEF FetchPage, EndOfData
  <2>2. CursorHour(got.cursor) = HourOf(pos) + 1
    BY <2>1, CarryIsNextHour
  <2> QED BY <2>1, <2>2 DEF CursorTime
<1>3. CASE IsParallel(n)
  <2> DEFINE next == pos + HourStart(n)
  <2>1. /\ got.cursor = CursorAt(next)
        /\ got.fills = FetchParallelBatch(pos, n, seen \ failing)
    BY <1>3 DEF FetchPage, ParallelPage
  <2>2. HourStart(n) \in Int /\ next \in Int
    BY <1>1, TimeTypes
  <2>3. CASE next <= t
    <3>1. CursorTime(got.cursor) = HourStart(HourOf(next))
      BY <2>1, <2>2, CursorRoundTrip DEF CursorTime
    <3>2. HourStart(HourOf(next)) <= next /\ HourStart(HourOf(next)) \in Int
      BY <2>2, HourBounds, TimeTypes
    <3> HIDE DEF next
    <3> QED BY <2>2, <2>3, <3>1, <3>2
  <2>4. CASE t + TicksPerHour <= pos
    <3>1. PICK h \in HoursCovered(pos, n) \cap seen : TRUE
      BY <2>1 DEF FetchParallelBatch
    <3>2. h \in Int /\ HourOf(pos) <= h /\ HourStart(h + 1) <= clock
      BY <1>1, <1>3, <3>1 DEF HoursCovered
    <3>3. HourOf(pos) < h + 1 /\ h + 1 \in Int
      BY <1>1, <3>2
    <3>4. pos < HourStart(h + 1) /\ HourStart(h + 1) \in Int
      BY <3>3, HourBounds, TimeTypes
    <3> QED BY <1>1, <2>4, <3>2, <3>4
  <2> QED BY <1>3, <2>3, <2>4, CountedHoursHaveGone
<1> QED BY <1>2, <1>3

LEMMA RowsBegin ==
  ASSUME SInv, RowsInThePast, NEW w, w.start \in Nat, w.end \in Nat, BeginRun(w)
  PROVE  RowsInThePast'
<1> DEFINE gaps == GapsBelow(ckpt, w.start, w.end)
<1>1. ckpt' = mem' /\ now' = now /\ now \in Int /\ ckpt \in Checkpoint
  BY DEF BeginRun, env, SInv, IInv, TypeOK, EnvOK, DbOK
<1>2. CASE ~Refreshes(gaps)
  BY <1>1, <1>2 DEF BeginRun, RowsInThePast, NotAhead
<1>3. CASE Refreshes(gaps)
  <2>1. /\ mem' = BackTo(ckpt, Min(gaps)) /\ Min(gaps) \in Int
        /\ Min(gaps) < ResumeHour(ckpt)
    BY <1>3, ResetGoesBack DEF BeginRun, SInv
  <2>2. ckpt.ts # None
    <3>1. gaps # {}
      BY <1>3, FS_EmptySet, BackfillAssumption DEF Refreshes
    <3> QED BY <3>1 DEF GapsBelow
  <2> HIDE DEF gaps
  <2>3. PICK gap \in Int : gap = Min(gaps)
    BY <2>1
  <2>4. /\ mem'.ts = HourStart(gap) - 1 /\ HourStart(gap) \in Int
        /\ CursorTime(mem'.cursor) = HourStart(gap)
    <3>1. ResumeHour(mem') = gap /\ mem'.ts = HourStart(gap) - 1
          /\ mem'.cursor \in [date : Int, hour : Int]
      BY <1>1, <2>1, <2>3, BackToAgrees
    <3>2. mem'.cursor # None
      BY <3>1, NoneAssumption
    <3> QED BY <3>1, <3>2, TimeTypes DEF ResumeHour, CursorTime
  <2>5. ckpt.ts \in Int /\ ckpt.ts <= now
    BY <1>1, <2>2 DEF RowsInThePast, NotAhead, Checkpoint
  <2>6. ResumeHour(ckpt) \in Int /\ HourStart(ResumeHour(ckpt)) <= now
    <3>1. CASE ckpt.cursor = None
      <4>1. ResumeHour(ckpt) = HourOf(ckpt.ts) /\ HourOf(ckpt.ts) \in Int
        BY <2>2, <2>5, <3>1, TimeTypes DEF ResumeHour
      <4>2. HourStart(HourOf(ckpt.ts)) \in Int /\ HourStart(HourOf(ckpt.ts)) <= ckpt.ts
        BY <2>5, <4>1, HourBegins
      <4> QED BY <1>1, <2>5, <4>1, <4>2
    <3>2. CASE ckpt.cursor # None
      BY <1>1, <3>2, TimeTypes
         DEF ResumeHour, CursorTime, RowsInThePast, NotAhead, Checkpoint, Cursors
    <3> QED BY <3>1, <3>2
  <2>7. HourStart(gap) < HourStart(ResumeHour(ckpt)) /\ HourStart(ResumeHour(ckpt)) \in Int
    BY <2>1, <2>3, <2>4, <2>6, HourBounds, TimeTypes
  <2> QED BY <1>1, <2>4, <2>6, <2>7 DEF RowsInThePast, NotAhead
<1> QED BY <1>2, <1>3

LEMMA RowsMain ==
  ASSUME SInv, RowsInThePast, PagesInThePast, MainStep \/ Crash PROVE RowsInThePast'
<1>1. NotAhead(NewCheckpoint)'
  BY DEF NotAhead, NewCheckpoint
<1>2. CASE DecideComplete \/ Finish \/ Crash
  BY <1>1, <1>2 DEF DecideComplete, Finish, Crash, EndRun, db, env, RowsInThePast, NotAhead
<1>3. CASE InsertError
  <2>1. CASE EndRun("failed")
    BY <1>1, <1>3, <2>1 DEF InsertError, EndRun, env, RowsInThePast, NotAhead
  <2>2. CASE ~EndRun("failed")
    BY <1>3, <2>2 DEF InsertError, env, RowsInThePast, NotAhead
  <2> QED BY <2>1, <2>2
<1>4. CASE DecideFetch \/ Recv
  BY <1>4 DEF DecideFetch, Recv, db, env, RowsInThePast, NotAhead
<1>5. CASE InsertOk
  <2>1. /\ main = "insert" /\ mem' = MemAfter(Inserted) /\ now' = now
        /\ ckpt' = ckpt \/ ckpt' = mem'
    BY <1>5 DEF InsertOk, env
  <2>2. /\ mem'.cursor # None => CursorTime(mem'.cursor) <= now
        /\ mem'.ts # None => mem'.ts <= now
    <3>1. CASE ShouldUpdate
      <4>1. /\ work.fills # {} /\ work \in Pages /\ work.cursor # None
            /\ CursorTime(work.cursor) <= now /\ EndsBeforeCursor(work) /\ now \in Int
        BY <2>1, <3>1 DEF ShouldUpdate, SInv, IInv, TypeOK, MainOK, EnvOK, Coverage, Modes,
           Positions, PagesInThePast, EndsInTime
      <4>2. /\ work.fills \in Batches /\ work.cursor \in [date : Int, hour : Int]
            /\ CursorTime(work.cursor) \in Int
        BY <4>1, TimeTypes DEF Pages, Cursors
      <4>3. Max(work.fills) \in work.fills /\ Max(work.fills) \in Int
        BY <4>1, <4>2, BatchTypes
      <4>4. Max(work.fills) < CursorTime(work.cursor)
        BY <4>1, <4>3 DEF EndsBeforeCursor
      <4>5. Max(work.fills) <= now
        BY <4>1, <4>2, <4>3, <4>4
      <4>6. mem'.ts = Max(work.fills) /\ mem'.cursor = work.cursor
        BY <2>1, <3>1 DEF MemAfter
      <4> QED BY <4>1, <4>5, <4>6
    <3>2. CASE ~ShouldUpdate
      BY <2>1, <3>2 DEF MemAfter, RowsInThePast, NotAhead
    <3> QED BY <3>1, <3>2
  <2> QED BY <2>1, <2>2 DEF RowsInThePast, NotAhead
<1> QED BY <1>2, <1>3, <1>4, <1>5 DEF MainStep

(* Pages are made by a call, and otherwise move from one place to the next.   *)
LEMMA PagesMove ==
  ASSUME PagesInThePast, UNCHANGED now,
         fetcher' = "send" => fetcher = "send" /\ UNCHANGED page,
         \A i \in DOMAIN channel' :
           \/ \E j \in DOMAIN channel : channel'[i] = channel[j]
           \/ fetcher = "send" /\ channel'[i] = page,
         main' = "insert" =>
           \/ main = "insert" /\ UNCHANGED work
           \/ \E j \in DOMAIN channel : work' = channel[j]
  PROVE  PagesInThePast'
BY DEF PagesInThePast, EndsInTime

LEMMA PagesFetched ==
  ASSUME ClockInv, ShortCalls, FetchReturn PROVE PagesInThePast'
<1> DEFINE pos == ReadPosition(curStart, cursor)
<1>1. PICK failing : page' = FetchPage(pos, reading, published, failing, now)
  BY DEF FetchReturn
<1>2. /\ fetcher = "fetch" /\ UNCHANGED <<main, work, channel, now>>
      /\ called \in Int /\ called <= now /\ now - called <= TicksPerHour
      /\ reading = HoursUntilNow(pos, called)
  BY DEF FetchReturn, run, env, ClockInv, CallPart, ShortCalls
<1>3. /\ reading \in 0..PageHours /\ now \in Int /\ published \in SUBSET Hours
      /\ pos \in Int /\ HoursGone
  BY <1>2, PositionsOf DEF ClockInv, SInv, IInv, TypeOK, FetcherOK, EnvOK
<1>4. EndsInTime(page')
  <2> HIDE DEF pos
  <2>1. SUFFICES ASSUME page'.fills # {} PROVE CursorTime(page'.cursor) <= now
    BY DEF EndsInTime
  <2> QED BY <1>1, <1>2, <1>3, <2>1, PageEndsInTime DEF HoursGone
<1> QED BY <1>2, <1>4 DEF ClockInv, PagesInThePast, EndsInTime

LEMMA PagesStep ==
  ASSUME ClockInv, ShortCalls, MainStep \/ Crash \/ FetcherStep PROVE PagesInThePast'
<1> USE DEF ClockInv
<1>1. UNCHANGED now
  BY DEF MainStep, FetcherStep, DecideComplete, DecideFetch, Recv, InsertOk, InsertError,
     Finish, Crash, FetcherInit, FetcherReachesEnd, FetcherSkips, FetchCall, FetchReturn,
     FetchError, FetcherSend, env
<1>2. CASE DecideComplete \/ Finish \/ Crash
  <2>1. main' = "idle" /\ fetcher' = "off" /\ DOMAIN channel' = {}
    BY <1>2 DEF DecideComplete, Finish, Crash, EndRun
  <2> QED BY <2>1 DEF PagesInThePast
<1>3. CASE InsertError
  <2>1. CASE EndRun("failed")
    <3>1. main' = "idle" /\ fetcher' = "off" /\ DOMAIN channel' = {}
      BY <2>1 DEF EndRun
    <3> QED BY <3>1 DEF PagesInThePast
  <2>2. CASE ~EndRun("failed")
    <3>1. UNCHANGED <<main, work, fetcher, page, channel>>
      BY <1>3, <2>2 DEF InsertError, task
    <3> QED BY <1>1, <3>1, PagesMove
  <2> QED BY <2>1, <2>2
<1>4. CASE DecideFetch \/ InsertOk
  <2>1. UNCHANGED <<page, channel>> /\ main' # "insert" /\ (fetcher' = "send" => fetcher = "send")
    BY <1>4 DEF DecideFetch, InsertOk, task
  <2> QED BY <1>1, <2>1, PagesMove
<1>5. CASE Recv
  <2>1. /\ channel # <<>> /\ work' = Head(channel) /\ channel' = Tail(channel)
        /\ UNCHANGED <<fetcher, page>> /\ channel \in Seq(Pages)
    BY <1>5 DEF Recv, task, SInv, IInv, TypeOK, FetcherOK
  <2>2. /\ work' = channel[1] /\ 1 \in DOMAIN channel
        /\ \A i \in DOMAIN channel' : i + 1 \in DOMAIN channel /\ channel'[i] = channel[i + 1]
    BY <2>1, HeadTailProperties
  <2> QED BY <1>1, <2>1, <2>2, PagesMove
<1>6. CASE FetcherInit \/ FetcherReachesEnd \/ FetcherSkips \/ FetchCall \/ FetchError
  <2>1. UNCHANGED <<main, work, channel, page>> /\ fetcher' # "send"
    BY <1>6 DEF FetcherInit, FetcherReachesEnd, FetcherSkips, FetchCall, FetchError, run
  <2> QED BY <1>1, <2>1, PagesMove
<1>7. CASE FetcherSend
  <2>1. /\ fetcher = "send" /\ fetcher' # "send" /\ channel' = Append(channel, page)
        /\ UNCHANGED <<main, work>> /\ channel \in Seq(Pages)
    BY <1>7 DEF FetcherSend, run, SInv, IInv, TypeOK, FetcherOK
  <2>2. ASSUME NEW i \in DOMAIN channel'
        PROVE  \/ \E j \in DOMAIN channel : channel'[i] = channel[j]
               \/ channel'[i] = page
    BY <2>1, <2>2
  <2> QED BY <1>1, <2>1, <2>2, PagesMove
<1> QED BY <1>2, <1>3, <1>4, <1>5, <1>6, <1>7, PagesFetched DEF MainStep, FetcherStep

LEMMA CallStep ==
  ASSUME ClockInv, [Next]_vars,
         called' = IF fetcher # "fetch" /\ fetcher' = "fetch" THEN now ELSE called
  PROVE  CallPart'
<1>1. now \in Int /\ now' \in Int /\ now <= now'
  <2>1. now \in Nat /\ now' \in {now, now + 1}
    BY DEF ClockInv, SInv, IInv, TypeOK, EnvOK, Next, Rest, Tick, Publish, BeginRun, MainStep,
       FetcherStep, DecideComplete, DecideFetch, Recv, InsertOk, InsertError, Finish, Crash,
       FetcherInit, FetcherReachesEnd, FetcherSkips, FetchCall, FetchReturn, FetchError,
       FetcherSend, env, vars
  <2> QED BY <2>1
<1>2. SUFFICES ASSUME fetcher' = "fetch" PROVE CallPart'
  BY DEF CallPart
<1>3. CASE FetchCall
  <2>1. /\ fetcher # "fetch" /\ UNCHANGED <<now, curStart, cursor>>
        /\ reading' = HoursUntilNow(ReadPosition(curStart, cursor), now)
    BY <1>3 DEF FetchCall, env
  <2> QED BY <1>1, <1>2, <2>1 DEF CallPart
<1>4. CASE ~FetchCall
  <2>1. fetcher = "fetch" /\ UNCHANGED <<curStart, cursor, reading>>
    <3>1. CASE Tick \/ (\E h \in Hours : Publish(h)) \/ (\E w \in Windows : BeginRun(w))
               \/ UNCHANGED vars
      BY <1>2, <3>1 DEF Tick, Publish, BeginRun, vars, task
    <3>2. CASE MainStep \/ Crash
      BY <1>2, <3>2 DEF MainStep, DecideComplete, DecideFetch, Recv, InsertOk, InsertError,
         Finish, Crash, EndRun, task
    <3>3. CASE FetcherStep
      BY <1>2, <1>4, <3>3 DEF FetcherStep, FetcherInit, FetcherReachesEnd, FetcherSkips,
         FetchReturn, FetchError, FetcherSend
    <3> QED BY <3>1, <3>2, <3>3 DEF Next, Rest
  <2> QED BY <1>1, <1>2, <2>1 DEF ClockInv, CallPart
<1> QED BY <1>3, <1>4

LEMMA ClockStep ==
  ASSUME ClockInv, ShortCalls, [Next]_vars,
         called' = IF fetcher # "fetch" /\ fetcher' = "fetch" THEN now ELSE called
  PROVE  ClockInv'
<1>1. SInv' /\ CallPart'
  BY SoundStep, CallStep DEF ClockInv
<1>2. /\ now \in Int /\ published \subseteq Hours /\ ckpt \in Checkpoint /\ mem \in Checkpoint
  BY DEF ClockInv, SInv, IInv, TypeOK, EnvOK, DbOK, MainOK
<1>3. CASE Tick \/ \E h \in Hours : Publish(h)
  <2>1. /\ UNCHANGED <<ckpt, mem, main, work, fetcher, page, channel>>
        /\ now' \in {now, now + 1} /\ now <= now'
        /\ \A h \in published' : h \in published \/ HourStart(h + 1) <= now
    BY <1>2, <1>3 DEF Tick, Publish, db, run, task
  <2>2. ASSUME NEW t \in Int, t <= now PROVE t <= now'
    BY <1>2, <2>1, <2>2
  <2>3. HoursGone'
    <3>1. ASSUME NEW h \in published' PROVE HourStart(h + 1) <= now'
      <4>1. h \in Int
        BY <1>1, <3>1, SourceAssumption DEF SInv, IInv, TypeOK, EnvOK, Hours
      <4>2. HourStart(h + 1) \in Int /\ HourStart(h + 1) <= now
        <5>1. HourStart(h + 1) \in Int
          BY <4>1, TimeTypes
        <5>2. h \in published => HourStart(h + 1) <= now
          BY DEF ClockInv, HoursGone
        <5> QED BY <2>1, <3>1, <5>1, <5>2
      <4> QED BY <2>2, <4>2
    <3> QED BY <3>1 DEF HoursGone
  <2>4. ASSUME NEW c \in Checkpoint, NotAhead(c) PROVE NotAhead(c)'
    <3>1. c.cursor # None => CursorTime(c.cursor) \in Int
      BY TimeTypes DEF Checkpoint, Cursors
    <3>2. c.ts # None => c.ts \in Int
      BY DEF Checkpoint
    <3> QED BY <2>2, <2>4, <3>1, <3>2 DEF NotAhead
  <2>5. RowsInThePast'
    BY <1>2, <2>1, <2>4 DEF ClockInv, RowsInThePast, NotAhead
  <2>6. ASSUME NEW got \in Pages, got.fills # {} => got.cursor # None, EndsInTime(got)
        PROVE  EndsInTime(got)'
    <3>1. got.cursor # None => CursorTime(got.cursor) \in Int
      BY TimeTypes DEF Pages, Cursors
    <3> QED BY <2>2, <2>6, <3>1 DEF EndsInTime
  <2>7. PagesInThePast'
    <3>1. /\ main = "insert" => work \in Pages /\ (work.fills # {} => work.cursor # None)
          /\ \A i \in DOMAIN channel :
                channel[i] \in Pages /\ (channel[i].fills # {} => channel[i].cursor # None)
          /\ fetcher = "send" => page \in Pages /\ (page.fills # {} => page.cursor # None)
      BY DEF ClockInv, SInv, IInv, TypeOK, MainOK, FetcherOK, Coverage, Modes
    <3> QED BY <2>1, <2>6, <3>1 DEF ClockInv, PagesInThePast, EndsInTime
  <2> QED BY <1>1, <2>3, <2>5, <2>7 DEF ClockInv
<1>4. CASE ~(Tick \/ \E h \in Hours : Publish(h))
  <2>1. UNCHANGED <<now, published>>
    BY <1>4 DEF Next, Rest, BeginRun, MainStep, FetcherStep, DecideComplete, DecideFetch, Recv,
       InsertOk, InsertError, Finish, Crash, FetcherInit, FetcherReachesEnd, FetcherSkips,
       FetchCall, FetchReturn, FetchError, FetcherSend, env, vars
  <2>2. HoursGone'
    BY <2>1 DEF ClockInv, HoursGone
  <2>3. CASE UNCHANGED vars
    BY <1>1, <2>2, <2>3 DEF ClockInv, RowsInThePast, PagesInThePast, NotAhead, EndsInTime,
       vars, env, db, run, task
  <2>4. ASSUME NEW w \in Windows, BeginRun(w) PROVE ClockInv'
    <3>1. RowsInThePast'
      BY <2>4, RowsBegin, BackfillAssumption DEF ClockInv
    <3>2. UNCHANGED <<now, work, fetcher, page, channel>> /\ main' = "decide"
      BY <2>4 DEF BeginRun, env, task
    <3>3. PagesInThePast'
      BY <3>2, PagesMove DEF ClockInv
    <3> QED BY <1>1, <2>2, <3>1, <3>3 DEF ClockInv
  <2>5. CASE MainStep \/ Crash
    BY <1>1, <2>2, <2>5, RowsMain, PagesStep DEF ClockInv
  <2>6. CASE FetcherStep
    <3>1. UNCHANGED <<mem, ckpt>>
      BY <2>6, FetcherKeeps DEF ClockInv
    <3>2. RowsInThePast'
      BY <2>1, <3>1 DEF ClockInv, RowsInThePast, NotAhead
    <3> QED BY <1>1, <2>2, <2>6, <3>2, PagesStep DEF ClockInv
  <2> QED BY <1>4, <2>3, <2>4, <2>5, <2>6 DEF Next, Rest
<1> QED BY <1>3, <1>4

(* No checkpoint gets ahead of the clock, that of a run asked for hours that  *)
(* have not come included, if none is at first and no call of fetch_page      *)
(* takes longer than an hour (s3_source.rs:424).                              *)
RowsBehindClock == \A d \in Databases :
  /\ d.ckpt.cursor # None => CursorTime(d.ckpt.cursor) <= InitNow
  /\ d.ckpt.ts # None => d.ckpt.ts <= InitNow

THEOREM NeverAheadOfClock ==
  RowsBehindClock => (Spec /\ CallsDated /\ []ShortCalls => []BehindTheClock)
<1> SUFFICES ASSUME RowsBehindClock
             PROVE  Spec /\ CallsDated /\ []ShortCalls => []BehindTheClock
  OBVIOUS
<1>1. Init => ClockInv
  <2> SUFFICES ASSUME Init PROVE ClockInv
    OBVIOUS
  <2>1. SInv /\ HoursGone
    BY SoundInit DEF Init, HoursGone
  <2>2. /\ NotAhead(ckpt) /\ mem = NewCheckpoint /\ main = "idle" /\ fetcher = "off"
        /\ DOMAIN channel = {}
    BY DEF Init, RowsBehindClock, NotAhead
  <2>3. NotAhead(NewCheckpoint)
    BY DEF NotAhead, NewCheckpoint
  <2> QED BY <2>1, <2>2, <2>3 DEF ClockInv, RowsInThePast, PagesInThePast, CallPart
<1>2. ClockInv /\ ShortCalls /\ [Next]_vars
        /\ [called' = IF fetcher # "fetch" /\ fetcher' = "fetch"
                      THEN now ELSE called]_<<vars, called>>
        => ClockInv'
  <2> SUFFICES ASSUME ClockInv, ShortCalls, [Next]_vars,
                      [called' = IF fetcher # "fetch" /\ fetcher' = "fetch"
                                 THEN now ELSE called]_<<vars, called>>
               PROVE  ClockInv'
    OBVIOUS
  <2>1. CASE UNCHANGED <<vars, called>>
    <3>1. fetcher' = fetcher /\ called' = called
      BY <2>1 DEF vars, task
    <3> QED BY <3>1, ClockStep
  <2> QED BY <2>1, ClockStep
<1>3. ClockInv => BehindTheClock
  BY DEF ClockInv, RowsInThePast, NotAhead, BehindTheClock
<1> QED BY <1>1, <1>2, <1>3, PTL DEF Spec, CallsDated

-----------------------------------------------------------------------------
(* For systems that a backfill is a part of.  A fetcher ends when it reaches  *)
(* the end of its window, or when a page says that there is no more; this one *)
(* was asked for at a time that is not before the end of the window, and then *)
(* fewer than ParallelMin hours were left to it.  So a run that ends well has *)
(* read up to ParallelMin hours before its end, wherever it stopped.          *)
Reach == HourOf(end) - ParallelMin

StopPart ==
  /\ main # "idle" => end <= now
  /\ fetcher = "fetch" =>
       \E t \in Int : end <= t /\ reading = HoursUntilNow(ReadPosition(curStart, cursor), t)
  /\ fetcher = "send" /\ ~page.hasMore =>
       \A h \in HoursTo(Reach) : Pending(h) \/ File[h] \subseteq page.fills
  /\ fetcher = "done" => \A h \in HoursTo(Reach) : Pending(h)

(* A page of one hour is asked for when its hour is nearly the last. *)
LEMMA SinglePageIsLate ==
  ASSUME NEW pos \in Int, NEW t \in Int, NEW e \in Int, e <= t,
         ~IsParallel(HoursUntilNow(pos, t))
  PROVE  HourOf(e) - ParallelMin <= HourOf(pos)
<1>1. /\ ParallelMin \in Int /\ ParallelMin >= 1 /\ t - pos \in Int
      /\ HourOf(e) \in Int /\ HourOf(t) \in Int /\ HourOf(pos) \in Int
      /\ HourOf(t - pos) \in Int /\ NumHours(t - pos) < ParallelMin
  <2>1. /\ ParallelMin \in 1..PageHours /\ PageHours \in Nat /\ t - pos \in Int
    BY SourceAssumption
  <2>2. /\ HourOf(e) \in Int /\ HourOf(t) \in Int /\ HourOf(pos) \in Int
        /\ HourOf(t - pos) \in Int /\ NumHours(t - pos) \in Int
    BY <2>1, TimeTypes
  <2>3. PICK n \in Int : n = NumHours(t - pos)
    BY <2>2
  <2>4. ~((IF n \in 0..PageHours THEN n ELSE PageHours) >= ParallelMin)
    BY <2>3 DEF HoursUntilNow, IsParallel
  <2> QED BY <2>1, <2>2, <2>3, <2>4
<1>2. HourOf(e) <= HourOf(t)
  BY HourMonotonic
<1>3. HourOf(t) - ParallelMin <= HourOf(pos)
  <2>1. CASE t < pos
    <3>1. HourOf(t) <= HourOf(pos)
      BY <2>1, HourMonotonic
    <3> QED BY <1>1, <3>1
  <2>2. CASE t >= pos
    <3>1. HourOf(t - pos) < ParallelMin
      BY <1>1, <2>2 DEF NumHours, HourOf
    <3>2. t - pos < HourStart(ParallelMin) /\ HourStart(ParallelMin) \in Int
      BY <1>1, <3>1, HourBounds, TimeTypes
    <3>3. HourOf(pos + HourStart(ParallelMin)) = HourOf(pos) + ParallelMin
      BY <1>1, HourShift
    <3>4. t <= pos + HourStart(ParallelMin) /\ pos + HourStart(ParallelMin) \in Int
      BY <3>2
    <3>5. HourOf(t) <= HourOf(pos + HourStart(ParallelMin))
      BY <3>4, HourMonotonic
    <3> QED BY <1>1, <3>3, <3>5
  <2> QED BY <2>1, <2>2
<1> QED BY <1>1, <1>2, <1>3

(* A page that says there is no more leaves no hour before that to be read:   *)
(* it is at the end of the data, or its cursor is not earlier.                *)
LEMMA LastPage ==
  ASSUME NEW pos \in Int, NEW t \in Int, NEW clock \in Int, NEW e \in Int,
         e <= t, e <= clock, NEW n \in 0..PageHours, n = HoursUntilNow(pos, t),
         NEW seen \in SUBSET Hours, NEW failing,
         NEW got, got = FetchPage(pos, n, seen, failing, clock), ~got.hasMore
  PROVE  IF got.cursor = None THEN HourOf(e) - ParallelMin <= HourOf(pos)
                              ELSE HourOf(e) - ParallelMin <= CursorHour(got.cursor)
<1>1. /\ HourOf(e) \in Int /\ HourOf(pos) \in Int /\ ParallelMin \in Int /\ ParallelMin >= 1
      /\ HourStart(n) \in Int /\ pos + HourStart(n) \in Int
  BY SourceAssumption, TimeTypes
<1>2. CASE ~IsParallel(n)
  <2>1. HourOf(e) - ParallelMin <= HourOf(pos)
    BY <1>2, SinglePageIsLate
  <2>2. CASE got = EndOfData
    BY <2>1, <2>2 DEF EndOfData
  <2>3. CASE got = SinglePage(pos, clock)
    <3>1. CursorHour(got.cursor) = HourOf(pos) + 1
      BY <2>3, CarryIsNextHour
    <3> QED BY <1>1, <2>1, <3>1
  <2> QED BY <1>2, <2>2, <2>3 DEF FetchPage
<1>3. CASE IsParallel(n)
  <2>1. /\ got.cursor = CursorAt(pos + HourStart(n))
        /\ got.hasMore = (pos + HourStart(n) < clock)
    BY <1>3 DEF FetchPage, ParallelPage
  <2>2. e <= pos + HourStart(n)
    <3>1. ~(pos + HourStart(n) < clock)
      BY <2>1, Zenon
    <3> QED BY <1>1, <3>1
  <2>3. HourOf(e) <= HourOf(pos + HourStart(n)) /\ HourOf(pos + HourStart(n)) \in Int
    BY <1>1, <2>2, HourMonotonic, TimeTypes
  <2>4. CursorHour(got.cursor) = HourOf(pos + HourStart(n)) /\ got.cursor # None
    BY <1>1, <2>1, CursorRoundTrip, TimeTypes, NoneAssumption
  <2> QED BY <1>1, <2>3, <2>4
<1> QED BY <1>2, <1>3

LEMMA StopFetched ==
  ASSUME SInv, SInv', StopPart, FetchReturn PROVE StopPart'
<1> DEFINE pos == ReadPosition(curStart, cursor)
<1>1. PICK failing : /\ page' = FetchPage(pos, reading, published, failing, now)
                     /\ ~FetchFails(pos, reading, failing)
  BY DEF FetchReturn
<1>2. /\ fetcher = "fetch" /\ fetcher' = "send" /\ cursor' = page'.cursor
      /\ UNCHANGED <<main, work, channel, runBase, end, now>>
  BY DEF FetchReturn, run, env
<1>3. /\ reading \in 0..PageHours /\ now \in Int /\ published \in SUBSET Hours
      /\ runBase \in Int /\ end \in Int /\ pos \in Int /\ HourOf(pos) \in Int
      /\ HourOf(end) - ParallelMin \in Int /\ main # "idle" /\ end <= now
  <2>1. /\ reading \in 0..PageHours /\ now \in Int /\ published \in SUBSET Hours
        /\ runBase \in Int /\ end \in Int /\ main # "idle"
    BY <1>2 DEF SInv, IInv, TypeOK, FetcherOK, MainOK, EnvOK, Coverage, Modes
  <2>2. HourOf(end) - ParallelMin \in Int
    BY <2>1, TimeTypes, SourceAssumption
  <2> QED BY <2>1, <2>2, PositionsOf DEF SInv, StopPart
<1>4. PICK t \in Int : end <= t /\ reading = HoursUntilNow(pos, t)
  BY <1>2 DEF StopPart
<1>5. \A h : Pending(h) => Pending(h)'
  BY <1>2, FetcherKeeps, WayStays DEF FetcherStep, SInv
<1>6. ASSUME ~page'.hasMore, NEW h \in HoursTo(Reach)'
      PROVE  (Pending(h) \/ File[h] \subseteq page.fills)'
  <2>1. IF page'.cursor = None THEN HourOf(end) - ParallelMin <= HourOf(pos)
        ELSE HourOf(end) - ParallelMin <= CursorHour(page'.cursor)
    <3> HIDE DEF pos
    <3> QED BY <1>1, <1>3, <1>4, <1>6, LastPage
  <2>2. h \in Int /\ h \in Hours /\ runBase <= h /\ h < HourOf(end) - ParallelMin
    BY <1>2, <1>3, <1>6 DEF HoursTo, Reach
  <2>3. CASE page'.cursor = None
    <3>1. h \in HoursTo(HourOf(pos))
      BY <1>3, <2>1, <2>2, <2>3 DEF HoursTo
    <3> QED BY <1>2, <1>5, <3>1 DEF SInv, Coverage, PositionPart
  <2>4. CASE page'.cursor # None
    <3>1. cursor' # None /\ CursorHour(cursor') \in Int
      BY <1>2, <2>4, PositionsOf, TimeTypes DEF SInv, IInv, TypeOK, FetcherOK, Cursors
    <3>2. h \in HoursTo(CursorHour(cursor))'
      BY <1>2, <1>3, <2>1, <2>2, <3>1 DEF HoursTo
    <3> QED BY <1>2, <3>1, <3>2 DEF SInv, Coverage, PagePart
  <2> QED BY <2>3, <2>4
<1> QED BY <1>2, <1>3, <1>6 DEF StopPart

LEMMA StopKept ==
  ASSUME StopPart, UNCHANGED <<fetcher, curStart, cursor, runBase, page, reading, end>>,
         main' # "idle" => main # "idle", now <= now', now \in Int, now' \in Int, end \in Int,
         \A h : Pending(h) => Pending(h)'
  PROVE  StopPart'
BY DEF StopPart, HoursTo, Reach

LEMMA StopFetcher ==
  ASSUME SInv, SInv', StopPart, FetcherStep PROVE StopPart'
<1>1. /\ UNCHANGED <<main, work, runBase, end, now>> /\ Grow /\ main # "idle"
  BY FetcherKeeps DEF FetcherStep, FetcherInit, FetcherReachesEnd, FetcherSkips, FetchCall,
     FetchReturn, FetchError, FetcherSend, env
<1>2. /\ end <= now /\ end \in Int /\ now \in Int
  BY <1>1 DEF StopPart, SInv, IInv, TypeOK, MainOK, EnvOK
<1>3. CASE FetcherInit \/ FetcherSkips \/ FetchError
  <2>1. fetcher' \notin {"fetch", "send", "done"}
    BY <1>3 DEF FetcherInit, FetcherSkips, FetchError
  <2> QED BY <1>1, <1>2, <2>1 DEF StopPart
<1>4. CASE FetchCall
  <2>1. /\ fetcher' = "fetch" /\ UNCHANGED <<curStart, cursor>>
        /\ reading' = HoursUntilNow(ReadPosition(curStart, cursor), now)
    BY <1>4 DEF FetchCall
  <2> QED BY <1>1, <1>2, <2>1 DEF StopPart
<1>5. CASE FetcherReachesEnd
  <2>1. /\ fetcher = "loop" /\ fetcher' = "done" /\ curStart >= end
        /\ UNCHANGED <<channel, curStart, cursor>>
    BY <1>5 DEF FetcherReachesEnd
  <2>2. \A h : Pending(h) => Pending(h)'
    BY <1>1, <2>1, WayStays DEF SInv
  <2> DEFINE pos == ReadPosition(curStart, cursor)
  <2>3. /\ curStart \in Int /\ HourOf(curStart) \in Int /\ HourOf(pos) \in Int
        /\ HourOf(curStart) <= HourOf(pos)
    <3>1. fetcher # "off" /\ cursor # None => HourOf(curStart) <= CursorHour(cursor)
      BY DEF SInv, Positions
    <3> QED BY <2>1, <3>1, PositionsOf DEF SInv
  <2>4. /\ HourOf(end) <= HourOf(curStart) /\ HourOf(end) \in Int
        /\ ParallelMin \in Int /\ ParallelMin >= 1
    <3>1. HourOf(end) \in Int /\ ParallelMin \in Int /\ ParallelMin >= 1
      BY <1>2, TimeTypes, SourceAssumption
    <3>2. HourOf(end) <= HourOf(curStart)
      BY <1>2, <2>1, <2>3, HourMonotonic
    <3> QED BY <3>1, <3>2
  <2>5. \A h \in HoursTo(HourOf(pos)) : Pending(h)
    BY <2>1 DEF SInv, Coverage, PositionPart
  <2>6. runBase \in Int
    BY DEF SInv, Coverage, Modes
  <2>7. HoursTo(Reach) \subseteq HoursTo(HourOf(pos))
    <3> HIDE DEF pos
    <3> QED BY <2>3, <2>4, <2>6 DEF HoursTo, Reach
  <2> QED BY <1>1, <1>2, <2>1, <2>2, <2>5, <2>7 DEF StopPart, HoursTo, Reach
<1>6. CASE FetcherSend
  <2>1. /\ fetcher = "send" /\ fetcher' = IF page.hasMore THEN "loop" ELSE "done"
    BY <1>6 DEF FetcherSend
  <2>2. \A h : Pending(h) \/ File[h] \subseteq page.fills => Pending(h)'
    BY <1>6, SentIsPending
  <2> QED BY <1>1, <1>2, <2>1, <2>2 DEF StopPart, HoursTo, Reach
<1> QED BY <1>3, <1>4, <1>5, <1>6, StopFetched DEF FetcherStep

(* A run that begins is one whose window has come. *)
LEMMA StopStep ==
  ASSUME SInv, SInv', StopPart, [Next]_vars \/ \E w : BeginRun(w),
         main = "idle" /\ main' # "idle" => end' <= now'
  PROVE  StopPart'
<1>1. /\ end \in Int /\ now \in Int
  BY DEF SInv, IInv, TypeOK, MainOK, EnvOK
<1>2. CASE Tick \/ (\E h \in Hours : Publish(h)) \/ UNCHANGED vars
  <2>1. /\ UNCHANGED <<main, work, channel, fills, swallowed, stepped, fetcher, curStart,
                       cursor, runBase, page, reading, end>>
        /\ now' \in {now, now + 1}
    BY <1>2 DEF Tick, Publish, vars, env, db, run, task, ghost
  <2>2. \A h : Pending(h) => Pending(h)'
    BY <2>1 DEF Pending, InHand, InChannel, Read, Stored
  <2>3. now <= now' /\ now' \in Int
    BY <1>1, <2>1
  <2> QED BY <1>1, <2>1, <2>2, <2>3, StopKept
<1>3. CASE main' = "idle" /\ fetcher' = "off"
  BY <1>3 DEF StopPart
<1>4. CASE Crash \/ DecideComplete \/ Finish
  BY <1>3, <1>4 DEF Crash, DecideComplete, Finish, EndRun
<1>5. CASE InsertError
  <2>1. CASE EndRun("failed")
    BY <1>3, <2>1 DEF EndRun
  <2>2. CASE ~EndRun("failed")
    <3>1. /\ UNCHANGED <<main, work, channel, fetcher, curStart, cursor, runBase, page,
                         reading, end, now>>
          /\ Grow
      BY <1>5, <2>2 DEF InsertError, task, ghost, env, Grow
    <3>2. \A h : Pending(h) => Pending(h)'
      BY <3>1, WayStays DEF SInv
    <3> QED BY <1>1, <3>1, <3>2, StopKept
  <2> QED BY <2>1, <2>2
<1>6. ASSUME NEW w, BeginRun(w) PROVE StopPart'
  <2>1. main = "idle" /\ main' = "decide" /\ fetcher' = "off"
    BY <1>6 DEF BeginRun, task, SInv, Coverage, Modes
  <2> QED BY <2>1 DEF StopPart
<1>7. CASE DecideFetch
  <2>1. main # "idle" /\ fetcher' = "init" /\ UNCHANGED <<end, now>>
    BY <1>7 DEF DecideFetch, env
  <2> QED BY <2>1 DEF StopPart
<1>8. CASE Recv \/ InsertOk
  <2>1. /\ UNCHANGED <<fetcher, curStart, cursor, runBase, page, reading, end, now>>
        /\ main # "idle"
    BY <1>8 DEF Recv, InsertOk, task, ghost, env
  <2> QED BY <1>1, <1>8, <2>1, PendingStays, StopKept
<1> QED BY <1>2, <1>4, <1>5, <1>6, <1>7, <1>8, StopFetcher DEF Next, MainStep, Rest

(* What is left when the last page is inserted and the channel closed. *)
LEMMA StoppedIsRead ==
  ASSUME SInv, StopPart, Finish, result' # "failed"
  PROVE  \A h \in HoursTo(Reach) : Read(h)
<1>1. main = "recv" /\ channel = <<>> /\ fetcher = "done"
  BY DEF Finish, EndRun
<1>2. Len(channel) = 0 /\ 1..0 = {}
  BY <1>1
<1> QED BY <1>1, <1>2 DEF StopPart, Pending, InHand, InChannel
=============================================================================
