----------------------------- MODULE Continuous -----------------------------
(***************************************************************************)
(* run_continuous (indexer/src/pipeline.rs): one task that fetches a page, *)
(* inserts it and saves its checkpoint, over and over.  Ctrl-C drops the   *)
(* call in flight; an S3 error that outlives its retries, or a failed save,*)
(* ends the process; it is started again.                                  *)
(***************************************************************************)
EXTENDS FillTable, FiniteSetsExt

CONSTANTS LiveGap,         \* more missing hours than this reset the checkpoint, 6
          LookBack,        \* how far back gaps are looked for, 7 days
          StartFrom,       \* ingest.start_from, or None
          MaxRetries,      \* ingest.max_retries
          Databases,       \* the [fills, ckpt] the tables can hold at first
          InitNow, MaxNow, \* bounds of the clock
          Late,            \* complete hours S3 does not have at first
          MaxFaults        \* bound on errors, crashes and shutdowns

ASSUME ContinuousAssumption ==
  /\ LiveGap \in Nat /\ LookBack \in Nat /\ StartFrom \in Nat \cup {None}
  /\ MaxRetries \in Nat /\ MaxFaults \in Nat
  /\ InitNow \in Nat /\ MaxNow \in Nat
  /\ \A d \in Databases : /\ d.fills \in Batches /\ d.ckpt \in Checkpoint
                          /\ d.ckpt.records <= Cardinality(d.fills)
                          /\ d.ckpt.ts = None => d.ckpt.cursor = None
                          /\ TimeAndCursorAgree(d.ckpt)

VARIABLES
  now, published,                      \* the clock; the objects S3 has
  fills, ckpt,                         \* the tables fills and ingest_checkpoints
  live, curStart, cursor, total, reading, fetchTries, page,    \* run_continuous
  faults,
  swallowed, stepped, jumped, base     \* history, below

(* History, read by no action.  The hours from base up to where a reader of   *)
(* the saved checkpoint resumes are those it says need not be read again.     *)
(* swallowed are the hours a parallel page left out because of an error,      *)
(* stepped those not in S3 when a page passed them, jumped those a reset of   *)
(* the checkpoint went past.                                                  *)
env   == <<now, published>>
db    == <<fills, ckpt>>
task  == <<live, curStart, cursor, total, reading, fetchTries, page>>
ghost == <<swallowed, stepped, jumped, base>>
vars  == <<env, db, task, faults, ghost>>

Fault == faults < MaxFaults /\ faults' = faults + 1

Init ==
  /\ now = InitNow
  /\ published = {h \in Hours : HourStart(h + 1) <= now} \ Late
  /\ \E d \in Databases : fills = d.fills /\ ckpt = d.ckpt
  /\ live = "off" /\ curStart = 0 /\ cursor = None /\ total = 0
  /\ reading = None /\ fetchTries = 0 /\ page = None /\ faults = 0
  /\ swallowed = {} /\ stepped = {} /\ jumped = {} /\ base = ResumeHour(ckpt)

(* The clock advances, and the object of a complete hour appears. *)
Tick ==
  /\ now < MaxNow /\ now' = now + 1
  /\ UNCHANGED <<published, db, task, faults, ghost>>

Publish(h) ==
  /\ h \notin published /\ HourStart(h + 1) <= now
  /\ published' = published \cup {h}
  /\ UNCHANGED <<now, db, task, faults, ghost>>

Exit == /\ live' = "off" /\ curStart' = 0 /\ cursor' = None /\ total' = 0
        /\ reading' = None /\ fetchTries' = 0 /\ page' = None

Crash ==
  /\ live # "off" /\ Fault /\ Exit
  /\ UNCHANGED <<env, db, ghost>>

-----------------------------------------------------------------------------
(* run_continuous up to its loop.  With more than LiveGap hours missing since *)
(* the checkpoint, of the last LookBack, the checkpoint is reset to one tick  *)
(* before the first of them, and saved.                                       *)
RecentGaps(c) ==
  IF c.ts = None THEN {} ELSE Missing(fills, Max({c.ts, now - LookBack}), now)

Refreshes(gaps) == Cardinality(gaps) > LiveGap

BackTo(c, gap) == [c EXCEPT !.cursor = CursorAt(HourStart(gap)),
                            !.ts = HourStart(gap) - 1]

(* What ingest.start_from can be: when it is not configured, Config::load     *)
(* sets it to LookBack before the time at which the process loads it.         *)
ConfigStarts ==
  IF StartFrom # None THEN {StartFrom} ELSE {t - LookBack : t \in InitNow .. now}

StartTime(c, from) == IF c.ts # None THEN c.ts ELSE from

StartAt(from) ==
  /\ live = "off" /\ live' = "call"
  /\ LET gaps == RecentGaps(ckpt)
     IN  IF Refreshes(gaps)
         THEN /\ ckpt' = BackTo(ckpt, Min(gaps))
              /\ base' = Min({base, Min(gaps)})
              /\ jumped' = jumped \cup (ResumeHour(ckpt) .. (Min(gaps) - 1))
         ELSE /\ ckpt' = ckpt /\ jumped' = jumped
              /\ base' = IF ckpt.ts = None THEN HourOf(StartTime(ckpt, from))
                       ELSE base
  /\ curStart' = StartTime(ckpt', from) /\ cursor' = ckpt'.cursor
  /\ total' = ckpt'.records
  /\ UNCHANGED <<env, fills, reading, fetchTries, page, faults, swallowed, stepped>>

Start == \E from \in ConfigStarts : StartAt(from)

-----------------------------------------------------------------------------
(* The loop.  "call" is between calls, backoffs and the waits of 30 and 60    *)
(* seconds included.                                                          *)
FetchCall ==
  /\ live = "call" /\ live' = "fetch"
  /\ reading' = HoursUntilNow(ReadPosition(curStart, cursor), now)
  /\ UNCHANGED <<env, db, curStart, cursor, total, fetchTries, page, faults, ghost>>

FetchReturn ==
  LET pos == ReadPosition(curStart, cursor)
  IN
  /\ live = "fetch" /\ live' = "insert"
  /\ \E failing \in SUBSET HoursCovered(pos, reading) :
       /\ ~FetchFails(pos, reading, failing)
       /\ IF failing = {} THEN UNCHANGED faults ELSE Fault
       /\ page' = FetchPage(pos, reading, published, failing, now)
       /\ swallowed' = swallowed \cup (failing \cap published)
  /\ reading' = None /\ fetchTries' = 0
  /\ stepped' = IF IsParallel(reading)
                THEN stepped \cup (HoursCovered(pos, reading) \ published) ELSE stepped
  /\ UNCHANGED <<env, db, curStart, cursor, total, jumped, base>>

(* S3 errors are tried again by retry_with_backoff; the last one is none of   *)
(* the retryable kinds and ends the process.                                  *)
FetchError ==
  /\ live = "fetch" /\ Fault
  /\ LET pos == ReadPosition(curStart, cursor)
     IN  FetchFails(pos, reading, {HourOf(pos)})
  /\ \/ /\ fetchTries + 1 < MaxRetries
        /\ live' = "call" /\ fetchTries' = fetchTries + 1 /\ reading' = None
        /\ UNCHANGED <<curStart, cursor, total, page>>
     \/ Exit
  /\ UNCHANGED <<env, db, ghost>>

ToClock(got) == IF got.fills # {} THEN Max(got.fills) ELSE now       \* mutant
NextStart(got) == IF got.fills # {} THEN Max(got.fills) ELSE curStart

(* ON CONFLICT DO NOTHING: only the fills the table did not have count. *)
CountsDuplicates == Cardinality(page.fills)                        \* mutant
Inserted == Cardinality(page.fills \ fills)

InsertOk ==
  /\ live = "insert" /\ live' = "save"
  /\ fills' = fills \cup page.fills
  /\ total' = total + Inserted
  /\ curStart' = NextStart(page) /\ cursor' = page.cursor
  /\ UNCHANGED <<env, ckpt, reading, fetchTries, page, faults, ghost>>

AdvancesOnError ==                                                 \* mutant
  /\ live = "insert" /\ page.fills # {} /\ Fault
  /\ \E stored \in Prefixes(page.fills) : fills' = fills \cup stored
  /\ live' = "call" /\ page' = None /\ cursor' = page.cursor
  /\ UNCHANGED <<env, ckpt, curStart, total, reading, fetchTries, ghost>>

(* A database error is retryable: the page is dropped and fetched again. *)
InsertError ==
  /\ live = "insert" /\ page.fills # {} /\ Fault
  /\ \E stored \in Prefixes(page.fills) : fills' = fills \cup stored
  /\ live' = "call" /\ page' = None
  /\ UNCHANGED <<env, ckpt, curStart, cursor, total, reading, fetchTries, ghost>>

Saved == [cursor |-> cursor, ts |-> curStart, records |-> total]

Save ==
  /\ live = "save" /\ live' = "call"
  /\ ckpt' = Saved /\ page' = None
  /\ UNCHANGED <<env, fills, curStart, cursor, total, reading, fetchTries, faults,
                 ghost>>

(* Ctrl-C is seen while a call is in flight, which is dropped: an insert has  *)
(* committed some of its rows.                                                *)
Shutdown ==
  /\ live \in {"call", "fetch", "insert"} /\ Fault /\ Exit
  /\ IF live = "insert"
     THEN \E stored \in Prefixes(page.fills) : fills' = fills \cup stored
     ELSE fills' = fills
  /\ UNCHANGED <<env, ckpt, ghost>>

-----------------------------------------------------------------------------
LoopStep == FetchCall \/ FetchReturn \/ FetchError \/ InsertOk \/ InsertError
            \/ Save
LiveStep == Start \/ LoopStep

Next == Tick \/ (\E h \in Hours : Publish(h)) \/ LiveStep \/ Crash \/ Shutdown
Spec == Init /\ [][Next]_vars

(* The process is started again when it ends, and every call it awaits ends.  *)
FairSpec == Spec /\ WF_vars(LiveStep)
-----------------------------------------------------------------------------
TypeOK ==
  /\ now \in Nat /\ published \subseteq Hours /\ faults \in Nat
  /\ fills \in Batches /\ ckpt \in Checkpoint
  /\ live \in {"off", "call", "fetch", "insert", "save"}
  /\ curStart \in Int /\ cursor \in Cursors /\ total \in Nat
  /\ reading \in {None} \cup 0..PageHours /\ fetchTries \in Nat
  /\ (live = "fetch" => reading \in 0..PageHours)
  /\ page \in Pages \cup {None} /\ (live \in {"insert", "save"} => page \in Pages)

(* The checkpoint never promises what the table does not hold: every hour     *)
(* below the one it resumes at has all its fills in the table, unless its GET *)
(* failed in a parallel page, it came into S3 after a page had passed it, or  *)
(* a reset of the checkpoint went past it; whatever was in flight when the    *)
(* process crashed or was shut down (lines 438-459).                          *)
Stored(h) == File[h] \subseteq fills
GivenUp(h) == h \in swallowed \cup stepped \cup jumped

LiveCheckpointSound ==
  ckpt.ts # None =>
    \A h \in (base .. (ResumeHour(ckpt) - 1)) \cap Hours : Stored(h) \/ GivenUp(h)

(* The two halves of the position agree: the time that is read from when a    *)
(* page found no object is never beyond the hour the cursor names, so that    *)
(* falling back to it skips nothing (lines 444-447; s3_source.rs:404-418).    *)
TimeBehindCursor ==
  /\ live # "off" /\ cursor # None => HourOf(curStart) <= CursorHour(cursor)
  /\ TimeAndCursorAgree(ckpt)

(* records_processed never counts a fill twice, although pages are fetched    *)
(* and inserted again after every page that found no object, after errors and *)
(* after restarts.                                                            *)
LiveRecordsBounded == ckpt.records <= Cardinality(fills)

(* The loop has no guard against going back, as the backfill has, and reads   *)
(* from an earlier hour whenever a page found no object; still the count and  *)
(* the hour of the saved time only grow while the process runs (lines         *)
(* 444-459).  The time itself can go back within its hour: after a reset it   *)
(* is one tick before a gap, where there need be no fill.                     *)
LiveSavesMoveForward ==
  [][live # "off" => /\ ckpt'.records >= ckpt.records
                     /\ ckpt.ts # None => HourOf(ckpt'.ts) >= HourOf(ckpt.ts)]_vars

(* The process keeps up: an hour that S3 has, with those between the base of  *)
(* the checkpoint and it, is stored in the end unless it is given up; going   *)
(* back from the end of the data never turns into a loop that reads the same  *)
(* hours for ever.                                                            *)
Reachable(h) == live # "off" /\ base <= h /\ (base .. h) \subseteq published
KeepsUp == \A h \in Hours : Reachable(h) ~> (Stored(h) \/ GivenUp(h))

-----------------------------------------------------------------------------
(* The live process is a CheckpointedReader too: its position is whichever of *)
(* cursor and time is in force, going back from the end of the data takes     *)
(* hours from what it would save, and the reset of the checkpoint lowers the  *)
(* row or gives up the hours it goes past (lines 359-476).                    *)
DoneTo(c) == IF c.ts = None THEN {} ELSE (base .. (ResumeHour(c) - 1)) \cap Hours

Reader == INSTANCE CheckpointedReader WITH
  Content <- File, Off <- None,
  skipped <- (swallowed \cup stepped \cup jumped) \cap Hours,
  row     <- [done |-> DoneTo(ckpt), records |-> ckpt.records],
  reader  <- IF live = "off" THEN None
             ELSE [done |-> DoneTo(Saved), records |-> total]

ImplementsReader == Reader!Spec

-----------------------------------------------------------------------------
(* schema.md:222 "The `ingest_checkpoints` table enables resumable ingestion, *)
(* tracking progress per data source to handle interruptions gracefully": a   *)
(* process that starts again goes on where the last one stopped, or before.   *)
(* The gaps are only looked for in the last seven days (line 372), and the    *)
(* reset takes the checkpoint to the first of them, past the hours between.   *)
ResumesWhereItStopped == \A h \in jumped \cap Hours : Stored(h)
=============================================================================
