------------------------------ MODULE Backfill ------------------------------
(***************************************************************************)
(* run_backfill and the fetcher task it spawns (indexer/src/pipeline.rs),  *)
(* run again and again by their operator over windows of time, against a   *)
(* database that survives crashes and an S3 bucket that is still filling.  *)
(*                                                                         *)
(*   fetcher --(bounded channel of pages)--> main --(insert, save)--> DB   *)
(*                                                                         *)
(* One process runs at a time.  An error that leaves run_backfill ends the *)
(* process (main.rs), and a crash can come between any two steps.          *)
(***************************************************************************)
EXTENDS FillTable, Sequences, FiniteSetsExt

CONSTANTS RefreshGap,     \* more missing hours than this reset the checkpoint, 12
          GoBackGap,      \* more than this send a run back to the first, 24
          ChannelSize,    \* pipeline.channel_buffer_size
          MaxRetries,     \* ingest.max_retries
          Windows,        \* the [start, end] a run can be asked for
          Databases,      \* the [fills, ckpt] the table can hold at first
          InitNow, MaxNow,   \* bounds of the clock
          Late,           \* complete hours S3 does not have at first
          MaxRuns,        \* bound on runs
          MaxFaults       \* bound on errors and crashes

ASSUME BackfillAssumption ==
  /\ RefreshGap \in Nat /\ GoBackGap \in Nat
  /\ ChannelSize \in Nat \ {0} /\ MaxRetries \in Nat
  /\ InitNow \in Nat /\ MaxNow \in Nat /\ MaxRuns \in Nat /\ MaxFaults \in Nat
  /\ \A w \in Windows : w.start \in Nat /\ w.end \in Nat
  /\ \A d \in Databases : /\ d.fills \in Batches /\ d.ckpt \in Checkpoint
                          /\ d.ckpt.records <= Cardinality(d.fills)
                          /\ TimeAndCursorAgree(d.ckpt)

VARIABLES
  now, published,                    \* the clock; the objects S3 has
  fills, ckpt,                       \* the tables fills and ingest_checkpoints
  main, start, end, mem, total, updated, work, insertTries,  \* run_backfill
  fetcher, curStart, cursor, missing, reading, fetchTries, page, channel,
  result,                            \* how the last run ended
  runs, faults,                      \* counters for the bounds
  swallowed, stepped, runBase, base  \* history, below

(* History, read by no action.  The hours from base up to where a reader of *)
(* a checkpoint resumes are those it says need not be read again: base for  *)
(* the saved checkpoint, runBase for the one a run builds.  swallowed are   *)
(* the hours a parallel page left out because of an error, stepped those    *)
(* that were not in S3 when a page passed them or that the fetcher skipped. *)

env   == <<now, published>>
db    == <<fills, ckpt>>
task  == <<fetcher, curStart, cursor, missing, reading, fetchTries, page>>
run   == <<main, start, end, mem, total, updated, work, insertTries>>
bound == <<runs, faults>>
ghost == <<swallowed, stepped, runBase, base>>
vars  == <<env, db, run, task, channel, result, bound, ghost>>

Fault == faults < MaxFaults /\ faults' = faults + 1

-----------------------------------------------------------------------------
Init ==
  /\ now = InitNow
  /\ published = {h \in Hours : HourStart(h + 1) <= now} \ Late
  /\ \E d \in Databases : fills = d.fills /\ ckpt = d.ckpt
  /\ main = "idle" /\ start = 0 /\ end = 0 /\ mem = NewCheckpoint
  /\ total = 0 /\ updated = FALSE /\ work = None /\ insertTries = 0
  /\ fetcher = "off" /\ curStart = 0 /\ cursor = None /\ missing = {}
  /\ reading = None /\ fetchTries = 0 /\ page = None /\ channel = <<>>
  /\ result = "none" /\ runs = 0 /\ faults = 0
  /\ swallowed = {} /\ stepped = {} /\ runBase = 0
  /\ base = ResumeHour(ckpt)

(* The clock advances, and the object of a complete hour appears. *)
Tick ==
  /\ now < MaxNow /\ now' = now + 1
  /\ UNCHANGED <<published, db, run, task, channel, result, bound, ghost>>

Publish(h) ==
  /\ h \notin published /\ HourStart(h + 1) <= now
  /\ published' = published \cup {h}
  /\ UNCHANGED <<now, db, run, task, channel, result, bound, ghost>>

(* The run is over, well or not: its tasks and its memory are gone. *)
EndRun(how) ==
  /\ main' = "idle" /\ fetcher' = "off" /\ result' = how
  /\ mem' = NewCheckpoint /\ total' = 0 /\ updated' = FALSE
  /\ work' = None /\ insertTries' = 0
  /\ curStart' = 0 /\ cursor' = None /\ missing' = {} /\ reading' = None
  /\ fetchTries' = 0 /\ page' = None /\ channel' = <<>>
  /\ UNCHANGED <<start, end>>

Crash ==
  /\ main # "idle" /\ Fault /\ EndRun("failed")
  /\ UNCHANGED <<env, db, runs, ghost>>

-----------------------------------------------------------------------------
(* run_backfill, up to the spawn of the fetcher. *)

(* The auto-refresh: with more than RefreshGap hours missing below it, the  *)
(* checkpoint goes back to one tick before the first of them, and is saved. *)
GapsBelow(c, s, e) ==
  IF c.ts = None THEN {} ELSE Missing(fills, s, IF c.ts < e THEN c.ts ELSE e)

RefreshesLate(gaps) == Cardinality(gaps) > RefreshGap + GoBackGap    \* mutant
Refreshes(gaps) == Cardinality(gaps) > RefreshGap

BackTo(c, gap) == [c EXCEPT !.cursor = CursorAt(HourStart(gap)),
                            !.ts = HourStart(gap) - 1]

BeginRun(w) ==
  /\ main = "idle" /\ runs < MaxRuns
  /\ main' = "decide" /\ start' = w.start /\ end' = w.end
  /\ LET gaps == GapsBelow(ckpt, w.start, w.end)
     IN  IF Refreshes(gaps)
         THEN /\ mem' = BackTo(ckpt, Min(gaps))
              /\ base' = Min({base, Min(gaps)})
         ELSE mem' = ckpt /\ base' = base
  /\ ckpt' = mem'
  /\ runs' = runs + 1 /\ result' = "none"
  /\ UNCHANGED <<env, fills, total, updated, work, insertTries, task, channel,
                 faults, swallowed, stepped, runBase>>

HasAllHours == /\ CountIn(fills, start, end) > 0
               /\ Missing(fills, start, end) = {}
EndsBehindCheckpoint == mem.ts # None /\ mem.ts >= end
RestartsAtStart == FALSE                                           \* mutant
ContinuesFromCheckpoint == mem.ts # None /\ mem.ts > start

DecideComplete ==
  /\ main = "decide" /\ (HasAllHours \/ EndsBehindCheckpoint)
  /\ EndRun("complete")
  /\ UNCHANGED <<env, db, bound, ghost>>

GapsAfterStart ==
  {h \in Missing(fills, start, mem.ts) : HourStart(h) >= start}
GoesBack == ContinuesFromCheckpoint /\ Cardinality(GapsAfterStart) > GoBackGap

StartPosition ==
  IF GoesBack THEN HourStart(Min(GapsAfterStart))
  ELSE IF ContinuesFromCheckpoint THEN mem.ts ELSE start
StartCursor ==
  IF GoesBack THEN CursorAt(HourStart(Min(GapsAfterStart)))
  ELSE IF ContinuesFromCheckpoint THEN mem.cursor ELSE None

ForgottenTotal == 0                                                \* mutant
CarriedTotal == mem.records

DecideFetch ==
  /\ main = "decide" /\ ~HasAllHours /\ ~EndsBehindCheckpoint
  /\ main' = "recv" /\ fetcher' = "init"
  /\ curStart' = StartPosition /\ cursor' = StartCursor
  /\ total' = CarriedTotal /\ updated' = FALSE
  /\ runBase' = IF ContinuesFromCheckpoint THEN base ELSE HourOf(StartPosition)
  /\ UNCHANGED <<env, db, start, end, mem, work, insertTries, missing, reading,
                 fetchTries, page, channel, result, bound, swallowed, stepped,
                 base>>

-----------------------------------------------------------------------------
(* The fetcher task. *)

(* Its list of missing hours is read once; an error leaves it empty. *)
FetcherInit ==
  /\ fetcher = "init" /\ fetcher' = "loop"
  /\ \/ missing' = Missing(fills, curStart, end) /\ UNCHANGED faults
     \/ missing' = {} /\ Fault
  /\ UNCHANGED <<env, db, run, curStart, cursor, reading, fetchTries, page,
                 channel, result, runs, ghost>>

FetcherReachesEnd ==
  /\ fetcher = "loop" /\ curStart >= end
  /\ fetcher' = "done"
  /\ UNCHANGED <<env, db, run, curStart, cursor, missing, reading, fetchTries,
                 page, channel, result, bound, ghost>>

ShouldSkip ==
  IF missing # {} THEN HourOf(curStart) \notin missing
  ELSE CountIn(fills, HourStart(HourOf(curStart)),
                      HourStart(HourOf(curStart) + 1)) >= MinFills

SameHour == HourStart(HourOf(curStart))                             \* mutant
HourEnd == HourStart(HourOf(curStart) + 1)

FetcherSkips ==
  /\ fetcher = "loop" /\ curStart < end /\ ShouldSkip
  /\ curStart' = HourEnd /\ cursor' = CursorAt(HourEnd)
  /\ stepped' = stepped \cup {HourOf(curStart)}
  /\ UNCHANGED <<env, db, run, fetcher, missing, reading, fetchTries, page,
                 channel, result, bound, swallowed, runBase, base>>

(* A call of fetch_page, with the number of hours it finds behind the clock. *)
(* The query behind ShouldSkip can fail when there is no list; the hour is    *)
(* then fetched.                                                              *)
FetchCall ==
  /\ \/ fetcher = "loop" /\ curStart < end /\ ~ShouldSkip /\ UNCHANGED faults
     \/ fetcher = "loop" /\ curStart < end /\ ShouldSkip /\ missing = {} /\ Fault
     \/ fetcher = "retry" /\ UNCHANGED faults
  /\ fetcher' = "fetch"
  /\ reading' = HoursUntilNow(ReadPosition(curStart, cursor), now)
  /\ UNCHANGED <<env, db, run, curStart, cursor, missing, fetchTries, page,
                 channel, result, runs, ghost>>

(* The call returns a page.  The objects are read here, so one published     *)
(* since the call is seen; failing are those whose GET or parse fails.       *)
NextStart(got) == IF got.fills # {} THEN Max(got.fills) ELSE HourEnd

FetchReturn ==
  LET pos == ReadPosition(curStart, cursor)
  IN
  /\ fetcher = "fetch"
  /\ \E failing \in SUBSET HoursCovered(pos, reading) :
       /\ ~FetchFails(pos, reading, failing)
       /\ IF failing = {} THEN UNCHANGED faults ELSE Fault
       /\ page' = FetchPage(pos, reading, published, failing, now)
       /\ swallowed' = swallowed \cup (failing \cap published)
  /\ fetcher' = "send" /\ cursor' = page'.cursor /\ curStart' = NextStart(page')
  /\ reading' = None /\ fetchTries' = 0
  /\ stepped' = stepped \cup (HoursCovered(pos, reading) \ published)
  /\ UNCHANGED <<env, db, run, missing, channel, result, runs, runBase, base>>

(* The call fails: another attempt, or none when they are used up or the     *)
(* backoff's time is (retry_with_backoff).                                   *)
FetchError ==
  /\ fetcher = "fetch" /\ Fault
  /\ LET pos == ReadPosition(curStart, cursor)
     IN  FetchFails(pos, reading, {HourOf(pos)})
  /\ \/ fetcher' = "retry" /\ fetchTries + 1 < MaxRetries
     \/ fetcher' = "failed"
  /\ fetchTries' = fetchTries + 1 /\ reading' = None
  /\ UNCHANGED <<env, db, run, curStart, cursor, missing, page, channel, result,
                 runs, ghost>>

(* The channel has room; a page that is the last one ends the fetcher. *)
FetcherSend ==
  /\ fetcher = "send" /\ Len(channel) < ChannelSize
  /\ channel' = Append(channel, page) /\ page' = None
  /\ fetcher' = IF page.hasMore THEN "loop" ELSE "done"
  /\ UNCHANGED <<env, db, run, curStart, cursor, missing, reading, fetchTries,
                 result, bound, ghost>>

-----------------------------------------------------------------------------
(* The main task: pages are inserted and the checkpoint follows them. *)
Recv ==
  /\ main = "recv" /\ channel # <<>>
  /\ work' = Head(channel) /\ channel' = Tail(channel)
  /\ main' = "insert" /\ insertTries' = 0
  /\ UNCHANGED <<env, db, start, end, mem, total, updated, task, result, bound,
                 ghost>>

ShouldUpdate == /\ work.fills # {}
                /\ mem.ts # None => Max(work.fills) >= mem.ts

MemAfterFetched(inserted) ==                                       \* mutant
  IF ShouldUpdate
  THEN [cursor |-> cursor, ts |-> Max(work.fills), records |-> total + inserted]
  ELSE mem
MemAfter(inserted) ==
  IF ShouldUpdate
  THEN [cursor |-> work.cursor, ts |-> Max(work.fills),
        records |-> total + inserted]
  ELSE mem

(* ON CONFLICT DO NOTHING: only the fills the table did not have count. *)
CountsDuplicates == Cardinality(work.fills)                        \* mutant
Inserted == Cardinality(work.fills \ fills)

SavesEmptyPages ==                                                 \* mutant
  /\ main = "insert" /\ main' = "recv"
  /\ fills' = fills \cup work.fills
  /\ total' = total + Inserted
  /\ mem' = [cursor |-> work.cursor, records |-> total + Inserted,
             ts |-> IF work.fills = {} THEN mem.ts ELSE Max(work.fills)]
  /\ updated' = TRUE /\ UNCHANGED <<ckpt, base>>
  /\ work' = None /\ insertTries' = 0
  /\ UNCHANGED <<env, start, end, task, channel, result, bound, swallowed,
                 stepped, runBase>>

(* insert_fills succeeds; the checkpoint is saved when its timer is due. *)
InsertOk ==
  /\ main = "insert" /\ main' = "recv"
  /\ fills' = fills \cup work.fills
  /\ total' = total + Inserted /\ mem' = MemAfter(Inserted)
  /\ updated' = (updated \/ ShouldUpdate)
  /\ \/ UNCHANGED <<ckpt, base>>
     \/ ShouldUpdate /\ ckpt' = mem' /\ base' = runBase
  /\ work' = None /\ insertTries' = 0
  /\ UNCHANGED <<env, start, end, task, channel, result, bound, swallowed,
                 stepped, runBase>>

(* insert_fills fails after committing a prefix: the whole batch is tried    *)
(* again, or the run ends with the error.                                    *)
InsertError ==
  /\ main = "insert" /\ work.fills # {} /\ Fault
  /\ \E stored \in Prefixes(work.fills) : fills' = fills \cup stored
  /\ \/ /\ insertTries + 1 < MaxRetries
        /\ insertTries' = insertTries + 1
        /\ UNCHANGED <<main, start, end, mem, total, updated, work, task, channel,
                       result>>
     \/ EndRun("failed")
  /\ UNCHANGED <<env, ckpt, runs, ghost>>

(* The channel is closed and empty: the final save, then the fetcher's fate. *)
Finish ==
  /\ main = "recv" /\ channel = <<>> /\ fetcher \in {"done", "failed"}
  /\ IF updated THEN ckpt' = mem /\ base' = runBase
                ELSE ckpt' = ckpt /\ base' = base
  /\ EndRun(IF fetcher = "done" THEN "ok" ELSE "failed")
  /\ UNCHANGED <<env, fills, bound, swallowed, stepped, runBase>>

-----------------------------------------------------------------------------
(* Nothing is left to happen within the bounds. *)
Rest ==
  /\ main = "idle" /\ runs = MaxRuns
  /\ UNCHANGED vars

MainStep    == DecideComplete \/ DecideFetch \/ Recv \/ InsertOk \/ InsertError
               \/ Finish
FetcherStep == FetcherInit \/ FetcherReachesEnd \/ FetcherSkips \/ FetchCall
               \/ FetchReturn \/ FetchError \/ FetcherSend

Next ==
  \/ Tick \/ (\E h \in Hours : Publish(h)) \/ Crash
  \/ (\E w \in Windows : BeginRun(w))
  \/ MainStep \/ FetcherStep
  \/ Rest

Spec == Init /\ [][Next]_vars

(* Both tasks are scheduled by the runtime, and every call they await ends,  *)
(* by an answer or by a timeout.  Nobody is bound to start a run.            *)
FairSpec == Spec /\ WF_vars(MainStep) /\ WF_vars(FetcherStep)

-----------------------------------------------------------------------------
EnvOK == /\ now \in Nat /\ published \subseteq Hours
         /\ result \in {"none", "ok", "complete", "failed"}
         /\ runs \in Nat /\ faults \in Nat
DbOK == fills \in Batches /\ ckpt \in Checkpoint
MainOK == /\ main \in {"idle", "decide", "recv", "insert"}
          /\ start \in Nat /\ end \in Nat /\ mem \in Checkpoint /\ total \in Nat
          /\ updated \in BOOLEAN /\ insertTries \in Nat
          /\ work \in Pages \cup {None} /\ (main = "insert" => work \in Pages)
FetcherOK ==
  /\ fetcher \in {"off", "init", "loop", "fetch", "retry", "send", "done", "failed"}
  /\ curStart \in Int /\ cursor \in Cursors /\ missing \subseteq Int
  /\ reading \in {None} \cup 0..PageHours
  /\ (fetcher = "fetch" => reading \in 0..PageHours)
  /\ fetchTries \in Nat
  /\ page \in Pages \cup {None} /\ (fetcher = "send" => page \in Pages)
  /\ channel \in Seq(Pages)
TypeOK == EnvOK /\ DbOK /\ MainOK /\ FetcherOK

(* The checkpoint never promises what the table does not hold: every hour it  *)
(* says has been read, whatever crashed, failed or was still in the channel   *)
(* when it was saved, has all its fills in the table, unless its GET failed   *)
(* in a parallel page or the fetcher stepped over it (lines 232-250, 305-326).*)
Promised(c, b) == b .. (ResumeHour(c) - 1)
Stored(h) == File[h] \subseteq fills

CheckpointSound ==
  \A h \in Promised(ckpt, base) \cap Hours :
    Stored(h) \/ h \in swallowed \/ h \in stepped

(* The two halves of a position agree: the time a reader resumes from, which  *)
(* decides which hours it skips, is never beyond the hour its cursor names,   *)
(* which decides what it reads, over midnight, empty pages, skips and         *)
(* refreshes alike.                                                           *)
CursorAhead ==
  /\ fetcher # "off" /\ cursor # None => HourOf(curStart) <= CursorHour(cursor)
  /\ TimeAndCursorAgree(ckpt)

(* records_processed never counts a fill twice: however often batches are     *)
(* retried, replayed after a crash or fetched again, it is at most the number *)
(* of fills in the table.                                                     *)
RecordsBounded == ckpt.records <= Cardinality(fills)

(* The branch that goes back to the first gap (lines 147-161) is dead: the    *)
(* auto-refresh has already moved the checkpoint below such gaps.             *)
GoBackUnreachable ==
  main = "decide" /\ ~EndsBehindCheckpoint => ~GoesBack

(* "Only update checkpoint if we're moving forward in time ... while allowing *)
(* historical backfills" (lines 234-235): the guard never refuses a page with *)
(* fills, because no run starts below the checkpoint it loaded.               *)
EveryPageAdvances == main = "insert" /\ work.fills # {} => ShouldUpdate

(* A fetcher that reached the end left no hour of its window out: once its    *)
(* pages are inserted, each hour is stored, failed in a parallel page or was  *)
(* stepped over, wherever pages, skips and the end of the window fell.        *)
WindowCovered ==
  main = "recv" /\ fetcher = "done" /\ curStart >= end /\ channel = <<>> =>
    \A h \in (runBase .. HourOf(end - 1)) \cap Hours :
      Stored(h) \/ h \in swallowed \/ h \in stepped

(* A run in progress only saves a checkpoint that is later and counts more:   *)
(* the saved time and records_processed never go back, over runs and crashes, *)
(* but for the reset of the auto-refresh when a run begins.                   *)
SavesMoveForward ==
  [][main # "idle" => /\ ckpt'.records >= ckpt.records
                      /\ ckpt.ts # None => ckpt'.ts >= ckpt.ts]_vars

(* No saved checkpoint is ahead of the clock, not even of a run asked for      *)
(* hours that have not come: its pages are read in parallel, because the hour *)
(* count is negative and becomes huge, but such a page holds no fill and only *)
(* a page with fills moves the checkpoint (s3_source.rs:424, lines 236-250).  *)
BehindTheClock == ckpt.cursor # None => CursorTime(ckpt.cursor) <= now

(* A run ends: the fetcher always gets to its end or to an error although     *)
(* skips move its cursor back, and neither task waits for the other for ever. *)
RunEnds == main # "idle" ~> main = "idle"

-----------------------------------------------------------------------------
(* The backfill is a CheckpointedReader: the fetcher, the channel, the page   *)
(* it reads ahead and the two halves of a position are hidden, and what is    *)
(* left is the table, the hours the row says are done, and those the main     *)
(* task has inserted.  Each insert, however often it failed before, adds the  *)
(* hours of one page and counts exactly the fills that are new; a crash at    *)
(* any step forgets the reader alone (lines 34-355).                          *)
ReadTo == IF updated THEN CursorHour(mem.cursor)
          ELSE HourOf(ReadPosition(StartPosition, StartCursor))

Reader == INSTANCE CheckpointedReader WITH
  Content <- File, Off <- None,
  skipped <- (swallowed \cup stepped) \cap Hours,
  row     <- [done |-> Promised(ckpt, base) \cap Hours, records |-> ckpt.records],
  reader  <- IF main \in {"recv", "insert"}
             THEN [done |-> (runBase .. (ReadTo - 1)) \cap Hours, records |-> total]
             ELSE None

ImplementsReader == Reader!Spec

-----------------------------------------------------------------------------
(* What comments, messages and the README say, and the code does not do.     *)

(* pipeline.rs:575 "Smart skip: Check if this hour already has sufficient     *)
(* data": the fetcher skips an hour only when the table has MinFills of it.   *)
(* The list of missing hours stops before the hour of a window's end, so a    *)
(* last, partial hour is not in the list and is skipped with no data at all.  *)
SkipsOnlySufficientHours ==
  [][\A h \in stepped' \ stepped : fetcher = "loop" =>
       CountIn(fills, HourStart(h), HourStart(h + 1)) >= MinFills]_vars

(* pipeline.rs:113 "Found {} hours with missing/incomplete data. Will fetch   *)
(* all data to ensure completeness": a run that found missing hours in its    *)
(* window does not return at once as complete.  It does when the checkpoint   *)
(* is at or past the end of the window.                                       *)
MissingHoursAreFetched == result = "complete" => Missing(fills, start, end) = {}

(* s3_source.rs:470 "Check if we have more data (simple heuristic: check if   *)
(* we're not in the future)": a page that says there is no more has a cursor  *)
(* that is in the future.  After the last hour of a day the time compared is  *)
(* a day later than the cursor.                                               *)
NoMoreMeansFuture ==
  [][page = None /\ page' # None /\ page'.cursor # None /\ ~page'.hasMore
     => CursorTime(page'.cursor) >= now]_vars
=============================================================================
