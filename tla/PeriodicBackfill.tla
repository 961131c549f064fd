--------------------------- MODULE PeriodicBackfill ---------------------------
(***************************************************************************)
(* scripts/backfill-loop.sh, as docker-compose runs it: a round asks a     *)
(* backfill for the last Period of time, waits for it, sleeps a Period and *)
(* asks again; a container that dies is started again at once.             *)
(***************************************************************************)
EXTENDS Backfill

CONSTANTS Period      \* six hours: the window, and the sleep

ASSUME PeriodAssumption == Period \in 0..InitNow

VARIABLES
  wake,        \* the time the sleep ends
  asked,       \* history: the hours of the windows asked for so far
  reached,     \* history: the last round got to the end of its window
  unbroken     \* history: every round did, and no hour lies between its window
               \* and the next

loop == <<wake, asked, reached, unbroken>>
loopVars == <<vars, loop>>

LoopInit == /\ Init
            /\ wake = InitNow /\ asked = {} /\ reached = TRUE /\ unbroken = TRUE

-----------------------------------------------------------------------------
WindowNow == [start |-> now - Period, end |-> now]

Round ==
  /\ main = "idle" /\ now >= wake
  /\ BeginRun(WindowNow)
  /\ asked' = asked \cup (HourOf(start') .. HourOf(end' - 1))
  /\ unbroken' = \/ runs = 0
                 \/ unbroken /\ reached /\ HourOf(start') <= HourOf(end)
  /\ UNCHANGED <<wake, reached>>

(* Not every run that ends well read its window: some stop at an hour that S3 *)
(* does not have yet, or after the last hour of a day.                        *)
ReadsItsWindow ==
  \/ result' = "complete"
  \/ result' = "ok" /\ \/ curStart >= end
                       \/ cursor # None /\ CursorHour(cursor) >= HourOf(end)

(* The exit code is only echoed: after a failed run the loop sleeps too. *)
Running ==
  /\ MainStep \/ FetcherStep
  /\ IF main' = "idle" THEN wake' = now + Period /\ reached' = ReadsItsWindow
                       ELSE UNCHANGED <<wake, reached>>
  /\ UNCHANGED <<asked, unbroken>>

(* Either the indexer dies, and the loop goes on to its sleep, or the loop    *)
(* dies with it and is started again.                                         *)
RoundCrash ==
  /\ Crash
  /\ wake' \in {now, now + Period} /\ reached' = FALSE
  /\ UNCHANGED <<asked, unbroken>>

(* The sleep ends when it is due: a round begins before the next tick. *)
Environment ==
  /\ \/ Tick /\ (main = "idle" /\ runs < MaxRuns => now < wake)
     \/ \E h \in Hours : Publish(h)
  /\ UNCHANGED loop

LoopRest == main = "idle" /\ (runs = MaxRuns \/ now = MaxNow) /\ UNCHANGED loopVars

LoopNext == Round \/ Running \/ RoundCrash \/ Environment \/ LoopRest
LoopSpec == LoopInit /\ [][LoopNext]_loopVars
-----------------------------------------------------------------------------
(* As long as every round gets to the end of its window and no hour passes    *)
(* between the end of a window and the start of the next, the rounds together *)
(* leave out no hour since the first: each is stored, or failed in a parallel *)
(* page, or was stepped over, although windows begin and end inside an hour,  *)
(* which only the next window can read (lines 12-24).                         *)
Covered(h) == Stored(h) \/ h \in swallowed \/ h \in stepped

LoopCovers ==
  main = "idle" /\ unbroken /\ reached =>
    \A h \in asked \cap Hours : h < HourOf(end) => Covered(h)

=============================================================================
