------------------------------ MODULE Calendar ------------------------------
(***************************************************************************)
(* The simulated calendar: the pure date operators of src/src/simulation.c *)
(* (days_in_month, advance_date) and the date guard of                     *)
(* src/src/checkpoint.c (checkpoint_date_valid).  A date is the record of  *)
(* the three fields year, month and day of AlifeWorld.                     *)
(***************************************************************************)
EXTENDS Integers

\* The calendar ends with this year.
LastYear == 9999

MonthDays == <<31, 28, 31, 30, 31, 30, 31, 31, 30, 31, 30, 31>>

Dates == [year : 1..LastYear, month : 1..12, day : 1..31]

\* Fault: every fourth year is a leap year.
LeapJulian(y) == y % 4 = 0

Leap(y) == (y % 4 = 0 /\ y % 100 # 0) \/ y % 400 = 0

DaysInMonth(y, m) == IF m = 2 /\ Leap(y) THEN 29 ELSE MonthDays[m]

\* checkpoint_date_valid: the guard that save and load put on a date.
DateValid(d) ==
    /\ d.year \in 1..LastYear
    /\ d.month \in 1..12
    /\ d.day \in 1..DaysInMonth(d.year, d.month)

Date(y, m, n) == [year |-> y, month |-> m, day |-> n]

\* Fault: every month has a day too many.
NextDateLate(d) ==
    IF d.day + 1 <= DaysInMonth(d.year, d.month) + 1
    THEN Date(d.year, d.month, d.day + 1)
    ELSE IF d.month + 1 <= 12 THEN Date(d.year, d.month + 1, 1)
         ELSE Date(d.year + 1, 1, 1)

\* advance_date: the day is incremented first and normalised afterwards.
NextDate(d) ==
    IF d.day + 1 <= DaysInMonth(d.year, d.month)
    THEN Date(d.year, d.month, d.day + 1)
    ELSE IF d.month + 1 <= 12 THEN Date(d.year, d.month + 1, 1)
         ELSE Date(d.year + 1, 1, 1)

IsLastDate(d) == d = Date(LastYear, 12, 31)

IsFoolsDay(d) == d.month = 4 /\ d.day = 1

(***************************************************************************)
(* A reference for the calendar, written from the Gregorian rules and not  *)
(* from the code: the number of days from the first day of year 1.         *)
(***************************************************************************)
DaysBeforeMonth ==
    <<0, 31, 59, 90, 120, 151, 181, 212, 243, 273, 304, 334>>

LeapDaysBefore(y) == (y - 1) \div 4 - (y - 1) \div 100 + (y - 1) \div 400

DayNumber(d) ==
    365 * (d.year - 1) + LeapDaysBefore(d.year) + DaysBeforeMonth[d.month]
        + (IF d.month > 2 THEN LeapDaysBefore(d.year + 1) - LeapDaysBefore(d.year)
           ELSE 0)
        + d.day

=============================================================================
