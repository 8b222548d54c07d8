---------------------------- MODULE MCSubstrate -----------------------------
(***************************************************************************)
(* Instances of Substrate for TLC.                                         *)
(***************************************************************************)
EXTENDS SubstrateProperties

\* The first day of a run that meets April 1 on its third day.
FoolsEve == Date(2000, 3, 30)

\* A start on Fool's Day itself, and one away from it.
FoolsDay == Date(2000, 4, 1)
MidYear == Date(2000, 6, 1)

\* Two days of the calendar are left.
LastDays == Date(LastYear, 12, 30)

=============================================================================
