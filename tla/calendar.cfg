\* Two ticks a day for a year and some weeks from each of the start dates.
\* A clock that has halted has no next state.
SPECIFICATION ClockSpec
CONSTANTS
    TicksPerDay = 2
    TickCount = 820
    StartDates <- Starts
INVARIANTS
    DateAlwaysValid
    DateFollowsTick
CHECK_DEADLOCK FALSE
