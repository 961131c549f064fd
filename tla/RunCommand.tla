----------------------------- MODULE RunCommand -----------------------------
(***************************************************************************)
(* `indexer run --backfill-from` (indexer/src/main.rs): a backfill up to   *)
(* now and, when it returns Ok, the live process, over the same tables.    *)
(* An error of either ends the command, which is then started again from   *)
(* its backfill.  The parts are Backfill and Continuous; what joins them   *)
(* is the checkpoint row: the live process loads what the backfill saved,  *)
(* and the next backfill what the live process saved.                      *)
(***************************************************************************)
EXTENDS TwoProcesses

CONSTANTS BackfillFrom, BackfillTo      \* the options; BackfillTo may be None

(* Only a fault ends a command, so that one run more than faults is enough.   *)
ASSUME RunAssumption == /\ BackfillFrom \in Nat
                        /\ BackfillTo \in Nat \cup {None}
                        /\ MaxFaults < MaxRuns

VARIABLES mode,                         \* "off", "backfill", "live"
          configFrom                    \* original_start, the configured start_from
vars == <<mode, configFrom, shared, backfillOnly, liveOnly>>

Init == mode = "off" /\ configFrom = 0 /\ BothOff

-----------------------------------------------------------------------------
Window == [start |-> BackfillFrom,
           end   |-> IF BackfillTo = None THEN now ELSE BackfillTo]

(* The configuration is loaded, and its start_from kept for the live process  *)
(* while the backfill uses the date; without one it is LookBack before now.   *)
StartCommand ==
  /\ mode = "off" /\ mode' = "backfill"
  /\ configFrom' = IF StartFrom # None THEN StartFrom ELSE now - LookBack
  /\ B!BeginRun(Window)
  /\ UNCHANGED liveOnly

LiveOnlyAfterFetching == IF result' = "ok" THEN "live" ELSE "off"    \* mutant
GoesLiveAlways == "live"                                             \* mutant
AfterBackfill == IF result' = "failed" THEN "off" ELSE "live"

Backfilling ==
  /\ mode = "backfill" /\ (B!MainStep \/ B!FetcherStep)
  /\ mode' = IF main' = "idle" THEN AfterBackfill ELSE "backfill"
  /\ UNCHANGED <<liveOnly, configFrom>>

Living ==
  /\ mode = "live" /\ (L!StartAt(configFrom) \/ L!LoopStep)
  /\ mode' = IF live' = "off" THEN "off" ELSE "live"
  /\ UNCHANGED <<backfillOnly, configFrom>>

(* Ctrl-C is handled by the live process alone; during the backfill it ends   *)
(* the process as a crash does.                                               *)
Stop == \/ /\ mode = "backfill" /\ B!Crash /\ UNCHANGED liveOnly
        \/ /\ mode = "live" /\ (L!Crash \/ L!Shutdown) /\ UNCHANGED backfillOnly
StopCommand == Stop /\ mode' = "off" /\ UNCHANGED configFrom

Environment == ClockAndBucket /\ UNCHANGED <<mode, configFrom>>

Next == StartCommand \/ Backfilling \/ Living \/ StopCommand \/ Environment
Spec == Init /\ [][Next]_vars

(* The command is started again when it ends, and its tasks go on. *)
FairSpec ==
  /\ Spec /\ WF_vars(StartCommand) /\ WF_vars(Living)
  /\ WF_vars(Backfilling /\ B!MainStep) /\ WF_vars(Backfilling /\ B!FetcherStep)
-----------------------------------------------------------------------------
(* The checkpoint is sound across the two modes: whichever saved it, and from *)
(* whichever the one that goes on took it over, every hour it says has been   *)
(* read is stored or was given up (main.rs 108-143).                          *)
PromiseAcrossModes ==
  \A h \in (base .. (ResumeHour(ckpt) - 1)) \cap Hours :
    ckpt.ts # None => L!Stored(h) \/ L!GivenUp(h)

(* No mode counts again what the other counted: records_processed never goes  *)
(* back and never exceeds the table, from the first backfill to the last live *)
(* process.                                                                   *)
CountSpansModes ==
  [][ckpt.records <= ckpt'.records /\ ckpt'.records <= Cardinality(fills')]_vars

(* Both modes together are one CheckpointedReader: what it is done with is    *)
(* carried from the backfill to the live process and back by the row alone.   *)
Reader == INSTANCE CheckpointedReader WITH
  Content <- File, Off <- None,
  skipped <- (swallowed \cup stepped \cup jumped) \cap Hours,
  row     <- [done |-> L!DoneTo(ckpt), records |-> ckpt.records],
  reader  <- IF main \in {"recv", "insert"}
             THEN [done |-> (runBase .. (B!ReadTo - 1)) \cap Hours, records |-> total]
             ELSE IF live = "off" THEN None
             ELSE [done |-> L!DoneTo(L!Saved), records |-> liveTotal]

ImplementsReader == Reader!Spec

(* The command goes live and stays so: whatever ends the backfill, it is begun *)
(* again, and goes on from its checkpoint until it returns Ok.                *)
GoesLive == <>[](mode = "live")

(* README.md:70 "Backfill from date to NOW, then go live": once the live       *)
(* process runs, the hours from the date to where it reads were read.  This   *)
(* holds over failed backfills and restarts from an empty database, also when *)
(* the backfill leaves no row and the live process begins at its start_from,  *)
(* 7 days before now (config.rs:84-86): the backfill has read up to four      *)
(* hours before its end.  With a checkpoint already there it need not: the    *)
(* backfill goes on from it, and looks at gaps below it only when there are   *)
(* more than twelve.                                                          *)
BackfilledBeforeLive ==
  live # "off" =>
    \A h \in (HourOf(BackfillFrom) .. (HourOf(liveStart) - 1)) \cap Hours :
      L!Stored(h) \/ L!GivenUp(h)
=============================================================================
