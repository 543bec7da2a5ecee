-------------------------------- MODULE Schedule --------------------------------
(***************************************************************************)
(* ScheduledInterval of src/bridgedb/schedule.py: the interval a time lies *)
(* in and the start of the next.  Seconds, minutes, hours, days and weeks  *)
(* are a number of units; months are counted from January of year 0.       *)
(*                                                                         *)
(* The servers pass the float of time.time(), the captchas a whole second. *)
(* A time is a number of ticks here, of TicksPerSecond to the second; what *)
(* an interval starts with is a number of seconds, as in the code.         *)
(***************************************************************************)
EXTENDS Integers

CONSTANT TicksPerSecond

ASSUME ScheduleAssumption == TicksPerSecond \in Nat \ {0}

\* A whole second, as an argument.
AtSecond(second) == second * TicksPerSecond

\* int(math.ceil(when))
Ceil(when) ==
  (when \div TicksPerSecond) + (IF when % TicksPerSecond = 0 THEN 0 ELSE 1)

\* KNOWN_INTERVALS, but for the month; a week is kept as seven days.
Seconds == [second |-> 1, minute |-> 60, hour |-> 3600, day |-> 86400, week |-> 604800]

\* _setIntervalCount: at least one.
setIntervalCount(count) == IF count > 1 THEN count ELSE 1

\* The length of a schedule's intervals, unless they are months.
Length(count, period) == setIntervalCount(count) * Seconds[period]

intervalStart(length, when) == Ceil(when) - (Ceil(when) % length)

nextIntervalStarts(length, when) == intervalStart(length, when) + length

\* The month here is the one that the second Ceil(when) is of.
intervalStartMonth(count, month) == month - (month % count)

\* The month of the year, counted on over its end into the next year.
nextMonth(count, start) == (start % 12) + 1 + count

\* date() has no month after the twelfth of that next year: it raises.
NextMonthExists(count, month) ==
  nextMonth(count, intervalStartMonth(count, month)) =< 24

nextIntervalStartsMonth(count, month) ==
  LET start == intervalStartMonth(count, month)
      year  == start \div 12
      next  == nextMonth(count, start) IN
  IF next > 12 THEN 12 * (year + 1) + (next - 12 - 1) ELSE 12 * year + (next - 1)
===============================================================================
