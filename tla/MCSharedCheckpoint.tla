------------------------- MODULE MCSharedCheckpoint -------------------------
(* Instances of SharedCheckpoint for TLC: two ticks to an hour, three hours to *)
(* a day.  The live process begins at hour 1, a backfill at hour 2.           *)
EXTENDS SharedCheckpoint

MCFile == [h \in 1..5 |-> {2 * h}]
MCEarly == {[start |-> 4, end |-> 10]}
MCDatabases == {[fills |-> {}, ckpt |-> NewCheckpoint]}
=============================================================================
