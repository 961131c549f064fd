----------------------------- MODULE MCBackfill -----------------------------
(* Instances of Backfill for TLC: two ticks to an hour, three hours to a day, *)
(* pages of three hours; hours 1 to 7 have objects, one of them quiet.        *)
EXTENDS Backfill

MCFile == [h \in 1..7 |-> IF h = 3 THEN {2 * h} ELSE {2 * h, 2 * h + 1}]

Window(s, e) == [start |-> s, end |-> e]
MCWindows == {Window(2, 12), Window(5, 13), Window(16, 20)}

(* An empty database, and two that a live process left: a checkpoint at the   *)
(* end of hour 5, above gaps that the auto-refresh finds significant.         *)
Left(hours) ==
  [fills |-> UNION {MCFile[h] : h \in hours},
   ckpt  |-> [cursor |-> CursorAt(12), ts |-> 11, records |-> 2]]
MCDatabases == {[fills |-> {}, ckpt |-> NewCheckpoint], Left({1, 5}), Left({1, 4, 5})}
=============================================================================
