------------------------------ MODULE S3Source ------------------------------
(***************************************************************************)
(* The S3 source (indexer/src/ingest/s3_source.rs): what one call of       *)
(* fetch_page returns, as a function of the position it reads at, the      *)
(* clock, and which hourly objects can be read.                            *)
(*                                                                         *)
(* A fill is its timestamp, a tick: fills of one tick are one fill here.   *)
(* File[h] is the content of the object of hour h, which holds fills of    *)
(* that hour only, in time order, so that fills.last() is the latest one.  *)
(***************************************************************************)
EXTENDS HourlyTime, FiniteSets

CONSTANTS None,         \* the absent cursor, time or page
          PageHours,    \* HOURS_PER_BATCH, 8 in the code
          ParallelMin,  \* hours behind now from which pages are parallel, 4
          File          \* hour |-> the ticks at which it has a fill

Hours == DOMAIN File

ASSUME SourceAssumption ==
  /\ PageHours \in Nat \ {0}
  /\ ParallelMin \in 1..PageHours
  /\ Hours \subseteq Nat
  /\ \A h \in Hours : /\ IsFiniteSet(File[h])
                      /\ \A f \in File[h] : f \in Nat /\ HourOf(f) = h

(* None is none of the values it stands in for. *)
ASSUME NoneAssumption == /\ None \notin Int \cup [date : Int, hour : Int]
                         /\ None \notin [done : SUBSET Hours, records : Nat]

(* Sets of fills, cursors, and the pages (IngestBatch) that carry both. *)
Batches == {batch \in SUBSET Nat : IsFiniteSet(batch)}
Cursors == [date : Int, hour : Int] \cup {None}
Pages == [fills : Batches, cursor : Cursors, hasMore : BOOLEAN]

-----------------------------------------------------------------------------
IgnoresCursor(start, cursor) == start                              \* mutant

(* Where a page is read: the cursor's hour, or start_from when there is none. *)
ReadPosition(start, cursor) == IF cursor = None THEN start ELSE CursorTime(cursor)

SignedHours(pos, now) == NumHours(now - pos)                        \* mutant

(* hours_until_now: a negative difference becomes a huge usize before .min(). *)
HoursUntilNow(pos, now) ==
  LET n == NumHours(now - pos)
  IN  IF n \in 0..PageHours THEN n ELSE PageHours

IsParallel(n) == n >= ParallelMin

LeavesLastOut(pos, n) ==                                            \* mutant
  HourOf(pos) .. (HourOf(pos) + (IF IsParallel(n) THEN n - 1 ELSE 1) - 1)

(* The hours a page at pos covers when n hours lie behind the clock. *)
HoursCovered(pos, n) ==
  HourOf(pos) .. (HourOf(pos) + (IF IsParallel(n) THEN n ELSE 1) - 1)

(* Eight objects at a time; an object that is missing, or that fails to     *)
(* download, to decompress or to parse, only leaves its fills out.          *)
FetchParallelBatch(pos, n, readable) ==
  UNION {File[h] : h \in HoursCovered(pos, n) \cap readable}

ParallelPage(pos, n, readable, now) ==
  LET next == pos + HourStart(n)
  IN  [fills   |-> FetchParallelBatch(pos, n, readable),
       cursor  |-> CursorAt(next),
       hasMore |-> next < now]

WithoutCarry(pos, now) ==                                           \* mutant
  [fills   |-> File[HourOf(pos)],
   cursor  |-> [date |-> DayOf(pos), hour |-> (HourInDay(pos) + 1) % HoursPerDay],
   hasMore |-> pos < now]

(* The carry at midnight moves next_date by a day and next_hour to zero;     *)
(* has_more compares next_date, which still has the time of the hour read.   *)
SinglePage(pos, now) ==
  LET wraps    == HourInDay(pos) + 1 >= HoursPerDay
      nextDate == IF wraps THEN pos + Day ELSE pos
  IN  [fills   |-> File[HourOf(pos)],
       cursor  |-> [date |-> DayOf(nextDate),
                    hour |-> IF wraps THEN 0 ELSE HourInDay(pos) + 1],
       hasMore |-> nextDate < now]

EndOfData == [fills |-> {}, cursor |-> None, hasMore |-> FALSE]

-----------------------------------------------------------------------------
(* fetch_page fails only on the single-hour path, on an error of its GET or  *)
(* parse; otherwise it returns this page.  published is the set of objects   *)
(* that exist and failing the set whose GET or parse fails.                  *)
FetchFails(pos, n, failing) == ~IsParallel(n) /\ HourOf(pos) \in failing

FetchPage(pos, n, published, failing, now) ==
  IF IsParallel(n) THEN ParallelPage(pos, n, published \ failing, now)
  ELSE IF HourOf(pos) \in published THEN SinglePage(pos, now)
  ELSE EndOfData
=============================================================================
