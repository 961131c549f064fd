----------------------------- MODULE HourlyTime -----------------------------
(***************************************************************************)
(* Clock arithmetic of the indexer.  A time is an integer number of ticks; *)
(* TicksPerHour ticks make an hour and HoursPerDay hours a day, so that an *)
(* hour is named by its index since the epoch and the code's "minus one    *)
(* millisecond" is one tick.  The cursor of a page is the string           *)
(* "YYYYMMDD_H"; it is modelled by its two fields, because the code builds *)
(* the date and the hour separately and the carry between them is a place  *)
(* where it can go wrong.                                                  *)
(***************************************************************************)
EXTENDS Integers

CONSTANTS TicksPerHour, HoursPerDay

ASSUME TimeAssumption == /\ TicksPerHour \in Nat \ {0}
                         /\ HoursPerDay \in Nat \ {0}

HourOf(t) == t \div TicksPerHour
HourStart(h) == h * TicksPerHour
DayOf(t) == HourOf(t) \div HoursPerDay
HourInDay(t) == HourOf(t) % HoursPerDay
Day == TicksPerHour * HoursPerDay

(* chrono's Duration::num_hours: whole hours, truncated toward zero. *)
NumHours(d) == IF d >= 0 THEN d \div TicksPerHour ELSE -((-d) \div TicksPerHour)

(* "{date}_{hour}" of a time: format!("{}_{}", t.format("%Y%m%d"), t.hour()). *)
CursorAt(t) == [date |-> DayOf(t), hour |-> HourInDay(t)]

(* The hour a cursor names, and the time it parses to. *)
CursorHour(c) == c.date * HoursPerDay + c.hour
CursorTime(c) == HourStart(CursorHour(c))
=============================================================================
