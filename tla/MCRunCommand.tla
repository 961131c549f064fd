---------------------------- MODULE MCRunCommand ----------------------------
(* Instances of RunCommand for TLC: two ticks to an hour, three hours to a    *)
(* day, pages of three hours.                                                 *)
EXTENDS RunCommand

MCFile == [h \in 1..6 |-> {2 * h, 2 * h + 1}]

MCDatabases == {[fills |-> {}, ckpt |-> NewCheckpoint]}
=============================================================================
