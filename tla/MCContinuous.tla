---------------------------- MODULE MCContinuous ----------------------------
(* Instances of Continuous for TLC: two ticks to an hour, three hours to a    *)
(* day, pages of three hours, gaps looked for over the last three hours.      *)
(* Hours 1 to 6 have objects, one of them quiet and two without a fill.        *)
EXTENDS Continuous

MCFile == [h \in 1..6 |-> CASE h = 2 -> {2 * h}
                            [] h \in {3, 4} -> {}
                            [] OTHER -> {2 * h, 2 * h + 1}]

(* An empty database, and one whose process stopped at the end of hour 1. *)
MCDatabases ==
  {[fills |-> {}, ckpt |-> NewCheckpoint],
   [fills |-> MCFile[1], ckpt |-> [cursor |-> CursorAt(4), ts |-> 3, records |-> 2]]}
=============================================================================
