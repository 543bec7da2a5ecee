----------------------------- MODULE ScheduleProofs -----------------------------
(* What a schedule promises, for intervals of any length and for months.    *)
EXTENDS Schedule, TLAPS

\* A number and its remainder.
LEMMA Remainder ==
  ASSUME NEW n \in Nat \ {0}, NEW t \in Nat
  PROVE  t % n \in 0..(n - 1)
  OBVIOUS

LEMMA Dozens ==
  ASSUME NEW s \in Int
  PROVE  /\ s \div 12 \in Int /\ s % 12 \in 0..11
         /\ s = 12 * (s \div 12) + (s % 12)
  OBVIOUS

LEMMA Monotone ==
  ASSUME NEW n \in Nat, NEW p \in Int, NEW q \in Int, p =< q
  PROVE  p * n =< q * n
  OBVIOUS

\* A time is rounded up to the next whole second.
LEMMA CeilBounds ==
  ASSUME NEW when \in Nat
  PROVE  /\ Ceil(when) \in Nat
         /\ AtSecond(Ceil(when) - 1) < when
         /\ when =< AtSecond(Ceil(when))
  <1> DEFINE q == when \div TicksPerSecond
             k == when % TicksPerSecond
  <1>1. TicksPerSecond \in Nat /\ TicksPerSecond > 0
    BY ScheduleAssumption
  <1>2. q \in Nat /\ k \in 0..(TicksPerSecond - 1) /\ when = q * TicksPerSecond + k
    BY <1>1
  <1>3. Ceil(when) = q + (IF k = 0 THEN 0 ELSE 1)
    BY DEF Ceil
  <1> HIDE DEF q, k
  <1>4. /\ q * TicksPerSecond \in Nat
        /\ (q - 1) * TicksPerSecond = q * TicksPerSecond - TicksPerSecond
        /\ (q + 1) * TicksPerSecond = q * TicksPerSecond + TicksPerSecond
    BY <1>1, <1>2
  <1>5. CASE k = 0
    <2>1. Ceil(when) = q
      BY <1>2, <1>3, <1>5
    <2> QED BY <1>1, <1>2, <1>4, <1>5, <2>1 DEF AtSecond
  <1>6. CASE k # 0
    <2>1. Ceil(when) = q + 1 /\ Ceil(when) - 1 = q
      BY <1>2, <1>3, <1>6
    <2> QED BY <1>1, <1>2, <1>4, <1>6, <2>1 DEF AtSecond
  <1> QED BY <1>5, <1>6

\* ... and to no other.
LEMMA CeilIsTheOnly ==
  ASSUME NEW when \in Nat, NEW second \in Int,
         AtSecond(second - 1) < when, when =< AtSecond(second)
  PROVE  Ceil(when) = second
  <1> DEFINE c == Ceil(when)
  <1>1. c \in Int /\ AtSecond(c - 1) < when /\ when =< AtSecond(c)
    BY CeilBounds
  <1>2. TicksPerSecond \in Nat
    BY ScheduleAssumption
  <1> HIDE DEF c
  <1>3. \A p, r \in Int : AtSecond(p) \in Int /\ (p =< r => AtSecond(p) =< AtSecond(r))
    BY <1>2, Monotone DEF AtSecond
  <1>4. ~(c =< second - 1)
    <2>1. c =< second - 1 => AtSecond(c) =< AtSecond(second - 1)
      BY <1>1, <1>3
    <2> QED BY <1>1, <1>3, <2>1
  <1>5. ~(second =< c - 1)
    <2>1. second =< c - 1 => AtSecond(second) =< AtSecond(c - 1)
      BY <1>1, <1>3
    <2> QED BY <1>1, <1>3, <2>1
  <1> QED BY <1>1, <1>4, <1>5 DEF c

\* A time is told an interval that begins less than a second after it, at
\* most, and that ends a second or more after it.  It need not lie in it: for
\* the last fraction of a second of an interval, the next one is told.
THEOREM TimeIsInInterval ==
  ASSUME NEW length \in Nat \ {0}, NEW when \in Nat
  PROVE  /\ AtSecond(intervalStart(length, when) - 1) < when
         /\ when =< AtSecond(nextIntervalStarts(length, when) - 1)
         /\ intervalStart(length, when) \in Int
  <1> DEFINE c == Ceil(when)
             start == intervalStart(length, when)
  <1>1. c \in Nat /\ AtSecond(c - 1) < when /\ when =< AtSecond(c)
    BY CeilBounds
  <1>2. start \in Int /\ start =< c /\ c =< start + length - 1
    <2>1. c % length \in 0..(length - 1)
      BY <1>1, Remainder
    <2>2. start = c - (c % length)
      BY DEF intervalStart
    <2> HIDE DEF c, start
    <2> QED BY <1>1, <2>1, <2>2
  <1>3. nextIntervalStarts(length, when) = start + length
    BY DEF nextIntervalStarts
  <1>4. TicksPerSecond \in Nat
    BY ScheduleAssumption
  <1> HIDE DEF c, start
  <1>5. \A p, r \in Int : AtSecond(p) \in Int /\ (p =< r => AtSecond(p) =< AtSecond(r))
    BY <1>4, Monotone DEF AtSecond
  <1>6. AtSecond(start - 1) =< AtSecond(c - 1) /\ AtSecond(c) =< AtSecond(start + length - 1)
    <2>1. start - 1 \in Int /\ c - 1 \in Int /\ start + length - 1 \in Int /\ c \in Int
          /\ start - 1 =< c - 1
      BY <1>1, <1>2
    <2> QED BY <1>2, <1>5, <2>1
  <1>7. /\ AtSecond(start - 1) \in Int /\ AtSecond(c - 1) \in Int /\ AtSecond(c) \in Int
        /\ AtSecond(start + length - 1) \in Int
    BY <1>1, <1>2, <1>5
  <1>8. AtSecond(start - 1) < when /\ when =< AtSecond(start + length - 1)
    BY <1>1, <1>6, <1>7
  <1> QED BY <1>2, <1>3, <1>8 DEF start

\* A whole second does lie in the interval it is told.  Captchas are made at
\* whole seconds: none has expired as it is made.
THEOREM SecondIsInInterval ==
  ASSUME NEW length \in Nat \ {0}, NEW second \in Nat
  PROVE  /\ Ceil(AtSecond(second)) = second
         /\ intervalStart(length, AtSecond(second)) =< second
         /\ second < nextIntervalStarts(length, AtSecond(second))
         /\ nextIntervalStarts(length, AtSecond(second)) =< second + length
  <1>1. AtSecond(second) \in Nat /\ AtSecond(second - 1) < AtSecond(second)
    <2>1. TicksPerSecond \in Nat /\ TicksPerSecond > 0
      BY ScheduleAssumption
    <2>2. (second - 1) * TicksPerSecond = second * TicksPerSecond - TicksPerSecond
      BY <2>1
    <2>3. second * TicksPerSecond \in Nat
      BY <2>1
    <2> QED BY <2>1, <2>2, <2>3 DEF AtSecond
  <1>2. Ceil(AtSecond(second)) = second
    <2>1. AtSecond(second) =< AtSecond(second)
      BY <1>1
    <2> QED BY <1>1, <2>1, CeilIsTheOnly
  <1>3. second % length \in 0..(length - 1)
    BY Remainder
  <1> QED BY <1>2, <1>3 DEF intervalStart, nextIntervalStarts

\* What is left of a number when a multiple is taken away.
LEMMA Multiple ==
  ASSUME NEW n \in Nat \ {0}, NEW q \in Int, NEW k \in 0..(n - 1)
  PROVE  (n * q + k) % n = k
  OBVIOUS

\* Numbers between two multiples go down to the same one.
LEMMA SameMultiple ==
  ASSUME NEW n \in Nat \ {0}, NEW c \in Nat, NEW d \in Nat,
         c - (c % n) =< d, d < c - (c % n) + n
  PROVE  d - (d % n) = c - (c % n)
  <1> DEFINE q == c \div n
             k == d - n * q
  <1>1. q \in Int /\ c = n * q + (c % n) /\ c % n \in Int
    OBVIOUS
  <1>2. c - (c % n) = n * q /\ n * q \in Int
    <2> HIDE DEF q
    <2>1. n * q \in Int
      BY <1>1
    <2> QED BY <1>1, <2>1
  <1>3. k \in 0..(n - 1) /\ d = n * q + k
    <2> HIDE DEF q
    <2> QED BY <1>2
  <1>4. d % n = k
    <2> HIDE DEF q, k
    <2> QED BY <1>1, <1>3, Multiple
  <1>5. d - (d % n) = n * q
    <2> HIDE DEF q, k
    <2> QED BY <1>2, <1>3, <1>4
  <1> QED BY <1>2, <1>5

\* All times from just after a second before the interval's start, to a second
\* before its end, are told the same interval, for counts of any unit but
\* months: clients that come then get the same position on a hashring.
THEOREM IntervalsAgree ==
  ASSUME NEW length \in Nat \ {0}, NEW when \in Nat, NEW other \in Nat,
         AtSecond(intervalStart(length, when) - 1) < other,
         other =< AtSecond(nextIntervalStarts(length, when) - 1)
  PROVE  /\ intervalStart(length, other) = intervalStart(length, when)
         /\ nextIntervalStarts(length, other) = nextIntervalStarts(length, when)
  <1> DEFINE c == Ceil(when)
             d == Ceil(other)
             start == intervalStart(length, when)
             next == nextIntervalStarts(length, when)
  <1>1. c \in Nat /\ d \in Nat
    BY CeilBounds
  <1>2. start = c - (c % length) /\ start \in Int
    BY TimeIsInInterval DEF intervalStart
  <1>3. next = start + length
    BY DEF nextIntervalStarts
  <1>4. start =< d /\ d < start + length
    <2>1. /\ AtSecond(start - 1) < other /\ other =< AtSecond(next - 1)
          /\ AtSecond(d - 1) < other /\ other =< AtSecond(d)
      BY CeilBounds
    <2>2. TicksPerSecond \in Nat
      BY ScheduleAssumption
    <2> HIDE DEF c, d, start, next
    <2>3. \A p, r \in Int : AtSecond(p) \in Int /\ (p =< r => AtSecond(p) =< AtSecond(r))
      BY <2>2, Monotone DEF AtSecond
    <2>4. ~(d =< start - 1)
      <3>1. d =< start - 1 => AtSecond(d) =< AtSecond(start - 1)
        BY <1>1, <1>2, <2>3
      <3>2. AtSecond(d) \in Int /\ AtSecond(start - 1) \in Int
        BY <1>1, <1>2, <2>3
      <3> QED BY <2>1, <3>1, <3>2
    <2>5. ~(next - 1 =< d - 1)
      <3>1. next - 1 \in Int /\ d - 1 \in Int
        BY <1>1, <1>2, <1>3
      <3>2. next - 1 =< d - 1 => AtSecond(next - 1) =< AtSecond(d - 1)
        BY <3>1, <2>3
      <3>3. AtSecond(next - 1) \in Int /\ AtSecond(d - 1) \in Int
        BY <3>1, <2>3
      <3> QED BY <2>1, <3>2, <3>3
    <2> QED BY <1>1, <1>2, <1>3, <2>4, <2>5
  <1>5. d - (d % length) = start
    <2> HIDE DEF c, d, start
    <2> QED BY <1>1, <1>2, <1>4, SameMultiple
  <1>6. intervalStart(length, other) = start
    BY <1>5 DEF intervalStart
  <1> QED
    BY <1>6 DEF nextIntervalStarts

\* Months up to twelve at a time are carried into the next year as they
\* should: the next interval starts as many months after this one.  The
\* carry is done once, so this holds of no more than twelve.
THEOREM MonthsAreCarried ==
  ASSUME NEW count \in 1..12, NEW month \in Nat
  PROVE  /\ NextMonthExists(count, month)
         /\ nextIntervalStartsMonth(count, month) = intervalStartMonth(count, month) + count
         /\ intervalStartMonth(count, month) =< month
         /\ month < nextIntervalStartsMonth(count, month)
PROOF
  <1> DEFINE start == intervalStartMonth(count, month)
  <1>1. month % count \in 0..(count - 1)
    BY Remainder
  <1>2. /\ start \in Int /\ start =< month /\ month < start + count
    BY <1>1 DEF intervalStartMonth
  <1>3. /\ start = 12 * (start \div 12) + (start % 12) /\ start % 12 \in 0..11
        /\ start \div 12 \in Int
    <2> HIDE DEF start
    <2> QED BY <1>2, Dozens
  <1>4. nextMonth(count, start) =< 24
    <2> HIDE DEF start
    <2> QED BY <1>3 DEF nextMonth
  <1>5. nextIntervalStartsMonth(count, month) = start + count
    <2> HIDE DEF start
    <2> DEFINE year == start \div 12
               rest == start % 12
               next == rest + 1 + count
    <2>1. start = 12 * year + rest /\ rest \in 0..11 /\ year \in Int
      BY <1>3
    <2>2. nextIntervalStartsMonth(count, month) =
            IF next > 12 THEN 12 * (year + 1) + (next - 12 - 1) ELSE 12 * year + (next - 1)
      BY Zenon DEF nextIntervalStartsMonth, nextMonth, start
    <2> HIDE DEF year, rest
    <2> QED BY <2>1, <2>2
  <1> QED BY <1>2, <1>4, <1>5 DEF NextMonthExists

\* All months of an interval of up to twelve are told the same interval.
THEOREM MonthsAgree ==
  ASSUME NEW count \in 1..12, NEW month \in Nat, NEW other \in Nat,
         intervalStartMonth(count, month) =< other,
         other < nextIntervalStartsMonth(count, month)
  PROVE  /\ intervalStartMonth(count, other) = intervalStartMonth(count, month)
         /\ nextIntervalStartsMonth(count, other) = nextIntervalStartsMonth(count, month)
  <1> DEFINE start == intervalStartMonth(count, month)
  <1>1. /\ start = month - (month % count)
        /\ intervalStartMonth(count, other) = other - (other % count)
    BY DEF intervalStartMonth
  <1>2. nextIntervalStartsMonth(count, month) = start + count
    BY MonthsAreCarried
  <1>3. count \in Nat \ {0}
    OBVIOUS
  <1>4. other - (other % count) = month - (month % count)
    <2>1. month - (month % count) =< other /\ other < month - (month % count) + count
      BY <1>1, <1>2
    <2> QED BY <1>3, <2>1, SameMultiple
  <1>5. intervalStartMonth(count, other) = start
    BY <1>1, <1>4
  <1> QED
    BY <1>2, <1>5, MonthsAreCarried
===============================================================================
