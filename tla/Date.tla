-------------------------------- MODULE Date --------------------------------
(***************************************************************************)
(* The calendar (lib/date.c): time_decode turns a timestamp into the       *)
(* fields of struct datetime_t, one year and then one month at a time.     *)
(*                                                                         *)
(* A timestamp is given as its quotient and remainder by 86400, since TLC  *)
(* has no integers of 32 bits without a sign.                              *)
(***************************************************************************)
EXTENDS Integers, Sequences

CONSTANT Timestamps    \* pairs of a day since 1970-01-01 and a second of it

VARIABLES pc,          \* "idle", "years", "months", "done"
          timestamp,   \* the argument
          date, year,  \* the locals of time_decode
          datetime

vars == <<pc, timestamp, date, year, datetime>>
----------------------------------------------------------------------------
\* Fault: every fourth year is leap.
JulianLeap(y) == y % 4 = 0

year_is_leap(y) == y % 4 = 0 /\ (y % 100 # 0 \/ y % 400 = 0)

year_day_count(y) == IF year_is_leap(y) THEN 366 ELSE 365

MonthTab(leap) == <<31, IF leap THEN 29 ELSE 28, 31, 30, 31, 30, 31, 31, 30, 31, 30, 31>>

month_day_count(y, month) == MonthTab(year_is_leap(y))[month + 1]

Cleared == [sec |-> 0, min |-> 0, hour |-> 0, day_of_week |-> 0, day_of_month |-> 0,
            day_of_year |-> 0, month |-> 0, year |-> 0, daylight_saving |-> FALSE]

Init ==
    /\ pc = "idle"
    /\ timestamp = <<0, 0>> /\ date = 0 /\ year = 0
    /\ datetime = Cleared

\* 1970-01-01 was a Thursday.
Weekday(day) == (day + 4) % 7

TimeDecode ==
    /\ pc = "idle"
    /\ \E t \in Timestamps :
          /\ timestamp' = t
          /\ date' = t[1]
          /\ datetime' = [datetime EXCEPT !.sec = t[2] % 60, !.min = (t[2] % 3600) \div 60,
                                          !.hour = t[2] \div 3600, !.day_of_week = Weekday(t[1])]
    /\ year' = 1970
    /\ pc' = "years"

NextYear ==
    /\ pc = "years" /\ date >= year_day_count(year)
    /\ date' = date - year_day_count(year)
    /\ year' = year + 1
    /\ UNCHANGED <<pc, timestamp, datetime>>

YearFound ==
    /\ pc = "years" /\ date < year_day_count(year)
    /\ datetime' = [datetime EXCEPT !.year = year - 1900, !.day_of_year = date, !.month = 0]
    /\ pc' = "months"
    /\ UNCHANGED <<timestamp, date, year>>

NextMonth ==
    /\ pc = "months" /\ date >= month_day_count(year, datetime.month)
    /\ date' = date - month_day_count(year, datetime.month)
    /\ datetime' = [datetime EXCEPT !.month = @ + 1]
    /\ UNCHANGED <<pc, timestamp, year>>

MonthFound ==
    /\ pc = "months" /\ date < month_day_count(year, datetime.month)
    /\ datetime' = [datetime EXCEPT !.day_of_month = date + 1, !.daylight_saving = FALSE]
    /\ pc' = "done"
    /\ UNCHANGED <<timestamp, date, year>>

Return ==
    /\ pc = "done"
    /\ pc' = "idle"
    /\ timestamp' = <<0, 0>> /\ date' = 0 /\ year' = 0
    /\ datetime' = Cleared

Next == TimeDecode \/ NextYear \/ YearFound \/ NextMonth \/ MonthFound \/ Return

Spec == Init /\ [][Next]_vars
----------------------------------------------------------------------------
\* The Gregorian calendar by count, from rules of its own: the days before a
\* year; the days of a year before a month, five months from March on being 153
\* days; and from these two the days of a month.
DaysBefore(y) == 365 * (y - 1970) + ((y - 1969) \div 4) - ((y - 1901) \div 100) + ((y - 1601) \div 400)

DaysBeforeMonth(y, month) ==
    IF month < 2 THEN 31 * month
    ELSE (DaysBefore(y + 1) - DaysBefore(y)) - 306 + ((153 * (month - 2) + 2) \div 5)

DaysIn(y, month) == DaysBeforeMonth(y, month + 1) - DaysBeforeMonth(y, month)

\* While the years are counted, and the months, no day is lost: the days
\* passed and the days left make up the timestamp (date.c:165, date.c:173).
NoDayLost ==
    pc \in {"years", "months"} =>
        timestamp[1] = date + DaysBefore(year) + DaysBeforeMonth(year, datetime.month)

\* The fields name the second of the timestamp, and name it once: every field
\* is in its range, and together they count back to it; the weekday is that
\* of Zeller's congruence (date.c:153-180).
DateTrue ==
    pc = "done" =>
        LET d == datetime
            y == IF d.month < 2 THEN d.year + 1899 ELSE d.year + 1900
            m == IF d.month < 2 THEN d.month + 13 ELSE d.month + 1
        IN  /\ d.month \in 0 .. 11
            /\ d.day_of_month \in 1 .. DaysIn(d.year + 1900, d.month)
            /\ timestamp[1] = d.day_of_year + DaysBefore(d.year + 1900)
            /\ d.day_of_year = d.day_of_month - 1 + DaysBeforeMonth(d.year + 1900, d.month)
            /\ (d.sec < 60 /\ d.min < 60)
            /\ timestamp[2] = d.hour * 3600 + d.min * 60 + d.sec
            /\ d.day_of_week = (d.day_of_month + ((13 * (m + 1)) \div 5) + y + (y \div 4)
                                  - (y \div 100) + (y \div 400) + 6) % 7
=============================================================================
