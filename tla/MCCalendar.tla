----------------------------- MODULE MCCalendar -----------------------------
(***************************************************************************)
(* Instances of WorldClock for TLC: start dates from which a year and some *)
(* weeks pass a century without and one with a leap day, a leap year, a    *)
(* common year, and the end of the calendar.                               *)
(***************************************************************************)
EXTENDS WorldClock

Starts ==
    {Date(1, 1, 1), Date(1899, 12, 31), Date(1999, 12, 31), Date(2000, 2, 29),
     Date(2003, 6, 30), Date(2023, 12, 1), Date(2100, 2, 28), Date(9998, 12, 30)}

=============================================================================
