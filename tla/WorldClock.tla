----------------------------- MODULE WorldClock -----------------------------
(***************************************************************************)
(* What alife_world_step promises of time.  A tick is begun, which may     *)
(* turn the date over, and later ended, which counts it.  The date belongs *)
(* to the tick being executed: between ticks it is still the date of the   *)
(* last tick executed, also in a checkpoint written there.                 *)
(***************************************************************************)
EXTENDS Calendar

CONSTANTS TicksPerDay,    \* ticks_per_day
          TickCount,      \* tick_count: the tick at which a run ends
          StartDates      \* dates calendar_start_* may name

ASSUME TicksPerDayAssumption == TicksPerDay \in Nat \ {0}
ASSUME TickCountAssumption == TickCount \in Nat \ {0}
ASSUME StartDatesAssumption == StartDates \subseteq {d \in Dates : DateValid(d)}

VARIABLES tick,           \* ticks completed
          date,           \* the simulated date
          start,          \* the configured first date
          ticking,        \* a tick has begun and has not ended
          halted          \* the run is over: "no", "done" or "failed"

clockVars == <<tick, date, start, ticking, halted>>

ClockInit ==
    /\ tick = 0
    /\ start \in StartDates
    /\ date = start
    /\ ticking = FALSE
    /\ halted = "no"

DayTurns == tick > 0 /\ tick % TicksPerDay = 0

\* The head of alife_world_step, when the calendar can go on.
BeginTick ==
    /\ halted = "no" /\ ~ticking /\ tick < TickCount
    /\ DayTurns => ~IsLastDate(date)
    /\ date' = IF DayTurns THEN NextDate(date) ELSE date
    /\ ticking' = TRUE
    /\ UNCHANGED <<tick, start, halted>>

\* The calendar ends after 9999-12-31: the step fails and so does the run.
CalendarEnds ==
    /\ halted = "no" /\ ~ticking /\ tick < TickCount
    /\ DayTurns /\ IsLastDate(date)
    /\ halted' = "failed"
    /\ UNCHANGED <<tick, date, start, ticking>>

\* ++world->tick, after which the step's periodic work may still fail.
EndTick ==
    /\ ticking
    /\ tick' = tick + 1
    /\ ticking' = FALSE
    /\ UNCHANGED <<date, start, halted>>

\* alife_world_run returns: the ticks are done or a step failed.
Halt ==
    /\ halted = "no" /\ ~ticking
    /\ halted' \in {"done", "failed"}
    /\ halted' = "done" => tick >= TickCount
    /\ UNCHANGED <<tick, date, start, ticking>>

ClockNext == BeginTick \/ CalendarEnds \/ EndTick \/ Halt

ClockSpec == ClockInit /\ [][ClockNext]_clockVars

-----------------------------------------------------------------------------
ClockTypeOK ==
    /\ tick \in 0..TickCount
    /\ date \in Dates
    /\ start \in StartDates
    /\ ticking \in BOOLEAN
    /\ halted \in {"no", "done", "failed"}

\* Every date a run can save is one the loader accepts (checkpoint_date_valid
\* is asked on both sides, advance_date and the configuration produce it).
DateAlwaysValid == DateValid(date)

\* The date never drifts from the tick: it is the start date plus the whole
\* days of the tick being executed or, between ticks, of the last one.
DateFollowsTick ==
    DayNumber(date) - DayNumber(start) =
        IF ticking \/ tick = 0 THEN tick \div TicksPerDay
        ELSE (tick - 1) \div TicksPerDay

=============================================================================
