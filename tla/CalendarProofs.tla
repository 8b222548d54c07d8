--------------------------- MODULE CalendarProofs ---------------------------
(***************************************************************************)
(* What the date operators do, for every date of the calendar.             *)
(***************************************************************************)
EXTENDS Calendar, TLAPS

LEMMA LastYearType == LastYear \in Nat /\ LastYear >= 1
BY DEF LastYear

LEMMA MonthDaysType == \A m \in 1..12 : MonthDays[m] \in 28..31
BY DEF MonthDays

\* Every month of every year has between 28 and 31 days.
LEMMA DaysInMonthType ==
    \A y \in 1..LastYear, m \in 1..12 : DaysInMonth(y, m) \in 28..31
BY MonthDaysType DEF DaysInMonth

\* advance_date leads from every date that the loader accepts, but the last
\* one of the calendar, to another that it accepts.
THEOREM NextDateValid ==
    ASSUME NEW d \in Dates, DateValid(d), ~IsLastDate(d)
    PROVE  NextDate(d) \in Dates /\ DateValid(NextDate(d))
<1> DEFINE n == DaysInMonth(d.year, d.month)
<1>1. /\ d.year \in 1..LastYear /\ d.month \in 1..12 /\ d.day \in 1..n
      /\ d = Date(d.year, d.month, d.day)
  BY DEF Dates, DateValid, Date
<1>2. n \in 28..31
  BY <1>1, DaysInMonthType
<1> HIDE DEF n
<1>3. CASE d.day + 1 <= n
  <2>1. NextDate(d) = Date(d.year, d.month, d.day + 1)
    BY <1>3 DEF NextDate, n
  <2>2. QED
    BY <1>1, <1>2, <1>3, <2>1, LastYearType DEF Date, Dates, DateValid, n
<1>4. CASE ~(d.day + 1 <= n) /\ d.month < 12
  <2>1. NextDate(d) = Date(d.year, d.month + 1, 1)
    BY <1>1, <1>4 DEF NextDate, n
  <2>2. DaysInMonth(d.year, d.month + 1) \in 28..31
    BY <1>1, <1>4, DaysInMonthType
  <2>3. QED
    BY <1>1, <1>4, <2>1, <2>2, LastYearType DEF Date, Dates, DateValid
<1>5. CASE ~(d.day + 1 <= n) /\ d.month = 12
  <2>1. NextDate(d) = Date(d.year + 1, 1, 1)
    BY <1>1, <1>5 DEF NextDate, n
  <2>2. d.day = 31
    BY <1>1, <1>2, <1>5 DEF DaysInMonth, MonthDays, n
  <2>3. d.year # LastYear
    BY <1>1, <1>5, <2>2 DEF IsLastDate
  <2>4. d.year + 1 \in 1..LastYear
    BY <1>1, <2>3, LastYearType
  <2>5. DaysInMonth(d.year + 1, 1) \in 28..31
    BY <2>4, DaysInMonthType
  <2>6. QED
    BY <2>1, <2>4, <2>5, LastYearType DEF Date, Dates, DateValid
<1>6. QED
  BY <1>1, <1>3, <1>4, <1>5

\* The years that have a leap day are those in which the reference counts one.
LEMMA LeapCounted ==
    ASSUME NEW y \in Nat, y >= 1
    PROVE  LeapDaysBefore(y + 1) - LeapDaysBefore(y) = IF Leap(y) THEN 1 ELSE 0
BY DEF LeapDaysBefore, Leap

\* advance_date advances by one day: the month lengths and the leap rule of
\* the code agree with the day count of the Gregorian reference.
THEOREM NextDateIsNextDay ==
    ASSUME NEW d \in Dates, DateValid(d)
    PROVE  DayNumber(NextDate(d)) = DayNumber(d) + 1
<1> DEFINE n == DaysInMonth(d.year, d.month)
           lead(y) == LeapDaysBefore(y + 1) - LeapDaysBefore(y)
<1>1. /\ d.year \in 1..LastYear /\ d.month \in 1..12 /\ d.day \in 1..n
  BY DEF DateValid
<1>2. /\ n \in 28..31
      /\ LeapDaysBefore(d.year) \in Int /\ LeapDaysBefore(d.year + 1) \in Int
  BY <1>1, DaysInMonthType, LastYearType DEF LeapDaysBefore
<1>3. lead(d.year) = IF Leap(d.year) THEN 1 ELSE 0
  BY <1>1, LeapCounted, LastYearType
<1>4. CASE d.day + 1 <= n
  <2>1. NextDate(d) = Date(d.year, d.month, d.day + 1)
    BY <1>4 DEF NextDate
  <2>2. QED
    BY <1>1, <1>2, <2>1, LastYearType DEF Date, DayNumber, DaysBeforeMonth
<1>5. CASE d.day = n /\ d.month < 12
  <2>1. NextDate(d) = Date(d.year, d.month + 1, 1)
    BY <1>1, <1>2, <1>5 DEF NextDate
  <2>2. DaysBeforeMonth[d.month + 1] + (IF d.month + 1 > 2 THEN lead(d.year) ELSE 0)
            = DaysBeforeMonth[d.month] + (IF d.month > 2 THEN lead(d.year) ELSE 0) + n
    BY <1>1, <1>3, <1>5 DEF DaysBeforeMonth, DaysInMonth, MonthDays
  <2>3. QED
    BY <1>1, <1>2, <1>5, <2>1, <2>2, LastYearType DEF Date, DayNumber, DaysBeforeMonth
<1>6. CASE d.day = n /\ d.month = 12
  <2>1. NextDate(d) = Date(d.year + 1, 1, 1)
    BY <1>1, <1>2, <1>6 DEF NextDate
  <2>2. n = 31
    BY <1>6 DEF DaysInMonth, MonthDays
  <2>3. QED
    BY <1>1, <1>2, <1>6, <2>1, <2>2, LastYearType DEF Date, DayNumber, DaysBeforeMonth
<1>7. QED
  BY <1>1, <1>2, <1>4, <1>5, <1>6

LEMMA DayNumberType ==
    ASSUME NEW d \in Dates
    PROVE  DayNumber(d) \in Int
<1>1. d.year \in Nat /\ d.month \in 1..12 /\ d.day \in Nat
  BY LastYearType DEF Dates
<1>2. \A y \in Nat : LeapDaysBefore(y) \in Int
  BY DEF LeapDaysBefore
<1>3. LeapDaysBefore(d.year) \in Int /\ LeapDaysBefore(d.year + 1) \in Int
  BY <1>1, <1>2
<1>4. DaysBeforeMonth[d.month] \in Int
  BY <1>1 DEF DaysBeforeMonth
<1>5. QED
  BY <1>1, <1>3, <1>4 DEF DayNumber

=============================================================================
