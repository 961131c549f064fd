---------------------------- MODULE TwoProcesses ----------------------------
(***************************************************************************)
(* What a backfill and a live process share, for the ways of running both: *)
(* one after the other (RunCommand), or at the same time                   *)
(* (SharedCheckpoint).  The parts are Backfill and Continuous, each with   *)
(* its own copy of the checkpoint, over one table and the one row of the   *)
(* source.  get_checkpoint and save_checkpoint (indexer/src/store.rs) take *)
(* no lock and compare nothing: the last writer wins.                      *)
(***************************************************************************)
EXTENDS FillTable, Sequences, FiniteSetsExt

CONSTANTS RefreshGap, GoBackGap, ChannelSize, MaxRetries, MaxRuns,   \* Backfill
          LiveGap, LookBack, StartFrom,                              \* Continuous
          Databases, InitNow, MaxNow, Late, MaxFaults                \* both

VARIABLES
  now, published, fills, ckpt, faults,
  main, start, end, mem, total, updated, work, insertTries, fetcher, curStart,
  cursor, missing, reading, fetchTries, page, channel, result, runs,
  live, liveStart, liveCursor, liveTotal, liveReading, liveTries, livePage,
  swallowed, stepped, runBase, jumped, base

shared == <<now, published, fills, ckpt, faults, swallowed, stepped, base>>
backfillOnly == <<main, start, end, mem, total, updated, work, insertTries, fetcher,
                  curStart, cursor, missing, reading, fetchTries, page, channel,
                  result, runs, runBase>>
liveOnly == <<live, liveStart, liveCursor, liveTotal, liveReading, liveTries,
              livePage, jumped>>

(* Which windows a backfill is asked for, each way of running it says.  *)
B == INSTANCE Backfill WITH Windows <- {}
L == INSTANCE Continuous WITH
  curStart <- liveStart, cursor <- liveCursor, total <- liveTotal,
  reading <- liveReading, fetchTries <- liveTries, page <- livePage

ASSUME PartsAssumption == B!BackfillAssumption /\ L!ContinuousAssumption

BothOff ==
  /\ B!Init
  /\ live = "off" /\ liveStart = 0 /\ liveCursor = None /\ liveTotal = 0
  /\ liveReading = None /\ liveTries = 0 /\ livePage = None /\ jumped = {}

ClockAndBucket ==
  /\ B!Tick \/ \E h \in Hours : B!Publish(h)
  /\ UNCHANGED liveOnly
=============================================================================
