-------------------------- MODULE MCPeriodicBackfill --------------------------
(* Instances of PeriodicBackfill for TLC: rounds of three hours, two ticks to *)
(* an hour, three hours to a day.                                             *)
EXTENDS PeriodicBackfill

MCFile == [h \in 1..7 |-> IF h = 5 THEN {2 * h} ELSE {2 * h, 2 * h + 1}]
MCDatabases == {[fills |-> {}, ckpt |-> NewCheckpoint]}
=============================================================================
