------------------------- MODULE CheckpointedReader -------------------------
(***************************************************************************)
(* What both pipelines promise, with no clock, cursor, channel or page: a  *)
(* reader that puts hours into a table and saves, in one row, which hours  *)
(* it is done with and how many fills it has counted.  It may crash at any *)
(* moment; only the table and the row survive.  Backfill and Continuous    *)
(* implement it: their row stands for the hours from where the first run   *)
(* began to the hour its cursor names.                                     *)
(***************************************************************************)
EXTENDS Integers, FiniteSets

CONSTANTS Content,    \* hour |-> the fills of its object
          Off         \* the reader that does not run

VARIABLES fills,      \* the table
          skipped,    \* hours that were given up on
          row,        \* [done, records]: what the row says
          reader      \* Off, or [done, records]: what the process would save

vars == <<fills, skipped, row, reader>>

AllHours == DOMAIN Content

(* The hours nobody needs to read again. *)
Done == {h \in AllHours : Content[h] \subseteq fills} \cup skipped

Init ==
  /\ IsFiniteSet(fills) /\ skipped \subseteq AllHours
  /\ row.done \subseteq Done /\ row.records \in 0..Cardinality(fills)
  /\ row = [done |-> row.done, records |-> row.records] /\ reader = Off

(* The table and the hours given up only grow. *)
Grows == fills \subseteq fills' /\ IsFiniteSet(fills') /\ skipped \subseteq skipped'
         /\ skipped' \subseteq AllHours

(* A process loads the row, or first lowers what it says, but for hours given *)
(* up: the hours it takes for done are some of those the row says, and the    *)
(* count is the row's.                                                        *)
Lower == /\ row'.done \subseteq row.done \cup skipped'
         /\ row' = [done |-> row'.done, records |-> row.records]

Reset == reader = Off /\ reader' = Off /\ Grows /\ fills' = fills /\ Lower

Load ==
  /\ reader = Off /\ reader' # Off /\ Grows /\ fills' = fills /\ Lower
  /\ reader'.done \subseteq row'.done
  /\ reader' = [done |-> reader'.done, records |-> row.records]

(* A page is inserted: the reader adds hours that are done, or goes back, and *)
(* counts the fills that are new.  The row may be saved with it.              *)
Advance ==
  /\ reader # Off /\ reader' # Off /\ Grows
  /\ reader'.done \subseteq reader.done \cup Done'
  /\ reader' = [done |-> reader'.done,
                records |-> reader.records + Cardinality(fills' \ fills)]
  /\ row' \in {row, reader'}

(* An insert that fails, or whose process stops, leaves some fills behind that *)
(* are not counted.  A process may save as it stops.                           *)
Leave ==
  /\ reader # Off /\ Grows /\ reader' \in {reader, Off}
  /\ row' \in {row, reader}

Next == Reset \/ Load \/ Advance \/ Leave
Spec == Init /\ [][Next]_vars

-----------------------------------------------------------------------------
(* The row never says an hour is done that is neither in the table nor given  *)
(* up, nor counts a fill the table does not have or counts it twice.          *)
RowSound == row.done \subseteq Done /\ row.records \in 0..Cardinality(fills)
ReaderSound ==
  reader # Off => reader.done \subseteq Done /\ reader.records \in 0..Cardinality(fills)
=============================================================================
