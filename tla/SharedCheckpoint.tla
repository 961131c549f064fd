-------------------------- MODULE SharedCheckpoint --------------------------
(***************************************************************************)
(* A live process and backfills at the same time (docker-compose runs the  *)
(* periodic backfill as a service of its own), over one table and one row. *)
(* A step of a part is as long as it is there: BeginRun, InsertOk of the   *)
(* backfill and Start each read or insert and then save, and a save of the *)
(* other process between the two is left out.  Neither property depends on *)
(* it: a count is of rows inserted, and a pass is followed in memory.      *)
(***************************************************************************)
EXTENDS TwoProcesses

CONSTANTS Windows         \* the [start, end] a backfill can be asked for

ASSUME SharedAssumption == Windows \subseteq [start : Nat, end : Nat]

VARIABLES runFrom,        \* history: the hour at which the backfill began to read
          liveFrom        \* history: the hour at which the live process did
history == <<runFrom, liveFrom>>
sharedVars == <<shared, backfillOnly, liveOnly, history>>

SharedInit == BothOff /\ runFrom = 0 /\ liveFrom = 0

-----------------------------------------------------------------------------
(* base and runBase belong to a row with one writer: nothing here reads them. *)
BackfillStep ==
  /\ (\E w \in Windows : B!BeginRun(w)) \/ B!MainStep \/ B!FetcherStep
  /\ runFrom' = IF main = "decide" /\ main' = "recv"
                THEN HourOf(ReadPosition(curStart', cursor')) ELSE runFrom
  /\ UNCHANGED <<liveOnly, liveFrom>>

StartLive ==
  /\ L!Start
  /\ liveFrom' = HourOf(ReadPosition(liveStart', liveCursor'))
  /\ UNCHANGED <<backfillOnly, runFrom>>

LiveStep ==
  /\ live # "off" /\ L!LiveStep
  /\ UNCHANGED <<backfillOnly, history>>

StopEither == /\ \/ B!Crash /\ UNCHANGED liveOnly
                 \/ (L!Crash \/ L!Shutdown) /\ UNCHANGED backfillOnly
              /\ UNCHANGED history

SharedNext == \/ BackfillStep \/ StartLive \/ LiveStep \/ StopEither
              \/ ClockAndBucket /\ UNCHANGED history
SharedSpec == SharedInit /\ [][SharedNext]_sharedVars
-----------------------------------------------------------------------------
(* However the two processes interleave their inserts and saves, each counts  *)
(* only the fills it was the first to insert: what the row says has been      *)
(* processed never exceeds the table, though both began from the same count.  *)
CountBounded == ckpt.records <= Cardinality(fills)

(* Neither process loses an hour of its own to the other: every hour between  *)
(* where it began to read and where it is now was stored or given up, though  *)
(* the other changes the table that its skips and gap lists are read from and *)
(* overwrites the row it saves.                                               *)
Covered(h) == B!Stored(h) \/ h \in swallowed \cup stepped

BothPassesCovered ==
  /\ main = "recv" /\ updated =>
       \A h \in (runFrom .. (CursorHour(mem.cursor) - 1)) \cap Hours : Covered(h)
  /\ live # "off" =>
       \A h \in (liveFrom .. (ResumeHour(L!Saved) - 1)) \cap Hours : Covered(h)
=============================================================================
