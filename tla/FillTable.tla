----------------------------- MODULE FillTable ------------------------------
(***************************************************************************)
(* The queries of indexer/src/store.rs on the fills table.  The table is a *)
(* set of ticks (see S3Source): its unique constraint makes an insert of a *)
(* fill it has a no-op, so the table is a set.                             *)
(***************************************************************************)
EXTENDS S3Source

CONSTANTS MinFills      \* an hour with fewer fills is incomplete, 1000

ASSUME MinFillsAssumption == MinFills \in Nat \ {0}

(* The row of ingest_checkpoints, and what a reader that finds none starts    *)
(* with.                                                                      *)
Checkpoint == [cursor : Cursors, ts : Int \cup {None}, records : Nat]
NewCheckpoint == [cursor |-> None, ts |-> None, records |-> 0]

(* The hour at which a process that loads checkpoint c goes on reading. *)
ResumeHour(c) == IF c.cursor # None THEN CursorHour(c.cursor)
                 ELSE IF c.ts # None THEN HourOf(c.ts) ELSE 0

(* What every save leaves: the time of a fill that was read, or of the tick   *)
(* before a gap, and a cursor beyond it.                                      *)
TimeAndCursorAgree(c) ==
  c.ts # None /\ c.cursor # None => c.ts < CursorTime(c.cursor)

(* check_time_range_exists: the number of fills in [start, end). *)
CountIn(fills, start, end) == Cardinality({f \in fills : start <= f /\ f < end})

(* get_missing_hours: hours from start's to the one before end's with fewer  *)
(* than MinFills fills, counting only the fills inside [start, end).         *)
Missing(fills, start, end) ==
  {h \in HourOf(start) .. (HourOf(end) - 1) :
     Cardinality({f \in fills : HourOf(f) = h /\ start <= f /\ f < end}) < MinFills}

(* What an insert of a batch leaves in the table when it stops early: chunks *)
(* are committed in order, so the fills up to some point.                    *)
Prefixes(batch) == {{}} \cup {{f \in batch : f <= last} : last \in batch}
=============================================================================
