-------------------------- MODULE WorldClockProofs --------------------------
(***************************************************************************)
(* Proofs of the invariants of WorldClock, for every start date and every  *)
(* length of a day and of a run.                                           *)
(***************************************************************************)
EXTENDS WorldClock, CalendarProofs

\* A tick is only begun when it counts among the ticks of the run.
ClockInv == ClockTypeOK /\ DateAlwaysValid /\ (ticking => tick < TickCount)

LEMMA ClockInvInit == ClockInit => ClockInv
<1> SUFFICES ASSUME ClockInit PROVE ClockInv
  OBVIOUS
<1>1. start \in Dates /\ DateValid(start)
  BY StartDatesAssumption DEF ClockInit
<1>2. tick \in 0..TickCount
  BY TickCountAssumption DEF ClockInit
<1>3. ticking \in BOOLEAN /\ ~ticking
  BY DEF ClockInit
<1>4. QED
  BY <1>1, <1>2, <1>3, Zenon DEF ClockInit, ClockInv, ClockTypeOK, DateAlwaysValid

LEMMA ClockInvStep == ClockInv /\ [ClockNext]_clockVars => ClockInv'
<1> SUFFICES ASSUME ClockInv, [ClockNext]_clockVars
             PROVE  ClockInv'
  OBVIOUS
<1> USE TickCountAssumption DEF ClockInv, ClockTypeOK, DateAlwaysValid
<1>1. CASE BeginTick
  <2>1. date' \in Dates /\ DateValid(date')
    BY <1>1, NextDateValid DEF BeginTick
  <2>2. QED
    BY <1>1, <2>1 DEF BeginTick
<1>2. CASE CalendarEnds
  BY <1>2 DEF CalendarEnds
<1>3. CASE EndTick
  <2>1. tick' \in 0..TickCount
    BY <1>3 DEF EndTick
  <2>2. ticking' \in BOOLEAN /\ ~ticking'
    BY <1>3 DEF EndTick
  <2>3. QED
    BY <1>3, <2>1, <2>2, Zenon DEF EndTick
<1>4. CASE Halt
  BY <1>4 DEF Halt
<1>5. CASE UNCHANGED clockVars
  BY <1>5 DEF clockVars
<1>6. QED
  BY <1>1, <1>2, <1>3, <1>4, <1>5 DEF ClockNext

\* Whatever the start date and the length of a day and of a run are, every
\* field of the clock has its type and every date is one the loader accepts.
THEOREM ClockTypeCorrect == ClockSpec => []ClockTypeOK
<1>1. ClockInv => ClockTypeOK
  BY DEF ClockInv
<1>2. QED
  BY <1>1, ClockInvInit, ClockInvStep, PTL DEF ClockSpec

THEOREM DatesStayValid == ClockSpec => []DateAlwaysValid
<1>1. ClockInv => DateAlwaysValid
  BY DEF ClockInv
<1>2. QED
  BY <1>1, ClockInvInit, ClockInvStep, PTL DEF ClockSpec

(***************************************************************************)
(* The date and the tick                                                   *)
(***************************************************************************)
LEMMA DivModUnique ==
    ASSUME NEW n \in Nat \ {0}, NEW q \in Nat, NEW r \in 0..(n - 1),
           NEW t \in Nat, t = q * n + r
    PROVE  t \div n = q /\ t % n = r
<1>1. t \div n = q
  OBVIOUS
<1>2. t % n = r
  OBVIOUS
<1>3. QED
  BY <1>1, <1>2

\* The days of tick t are those of the tick before, and one more when a day
\* ends there: the condition under which alife_world_step turns the date.
LEMMA DaysOfNextTick ==
    ASSUME NEW n \in Nat \ {0}, NEW t \in Nat \ {0}
    PROVE  t \div n = (t - 1) \div n + (IF t % n = 0 THEN 1 ELSE 0)
<1> DEFINE q == (t - 1) \div n
           r == (t - 1) % n
<1>1. q \in Nat /\ r \in 0..(n - 1) /\ t = q * n + (r + 1)
  OBVIOUS
<1> HIDE DEF q, r
<1>2. CASE r + 1 < n
  <2>1. t \div n = q /\ t % n = r + 1
    BY <1>1, <1>2, DivModUnique
  <2>2. QED
    BY <1>1, <2>1 DEF q
<1>3. CASE r + 1 = n
  <2> DEFINE p == q + 1
  <2>1. p \in Nat /\ 0 \in 0..(n - 1) /\ t = p * n + 0
    BY <1>1, <1>3
  <2> HIDE DEF p
  <2>2. t \div n = p /\ t % n = 0
    BY <2>1, DivModUnique
  <2>3. QED
    BY <1>1, <2>2 DEF p, q
<1>4. QED
  BY <1>1, <1>2, <1>3

\* The date is the start date plus the whole days that have passed: neither
\* a skipped nor a repeated day, for every length of a day, every start and
\* every number of ticks up to the end of the calendar.
DayInv == ClockInv /\ DateFollowsTick

THEOREM DateNeverDrifts == ClockSpec => []DateFollowsTick
<1>1. ClockInit => DayInv
  <2> SUFFICES ASSUME ClockInit PROVE DateFollowsTick
    BY ClockInvInit DEF DayInv
  <2>1. date = start /\ tick = 0 /\ DayNumber(start) \in Int
    BY StartDatesAssumption, DayNumberType DEF ClockInit
  <2>2. tick \div TicksPerDay = 0
    BY <2>1, TicksPerDayAssumption, DivModUnique
  <2>3. QED
    BY <2>1, <2>2 DEF DateFollowsTick
<1>2. DayInv /\ [ClockNext]_clockVars => DayInv'
  <2> SUFFICES ASSUME DayInv, [ClockNext]_clockVars
               PROVE  DateFollowsTick'
    BY ClockInvStep DEF DayInv
  <2>1. /\ tick \in Nat /\ TicksPerDay \in Nat \ {0}
        /\ date \in Dates /\ start \in Dates /\ DateValid(date)
        /\ DayNumber(date) \in Int /\ DayNumber(start) \in Int
    BY TicksPerDayAssumption, TickCountAssumption, StartDatesAssumption, DayNumberType
       DEF DayInv, ClockInv, ClockTypeOK, DateAlwaysValid
  <2>2. CASE BeginTick
    <3>1. /\ ~ticking /\ ticking' /\ tick' = tick /\ start' = start
          /\ DayNumber(date') = DayNumber(date) + (IF DayTurns THEN 1 ELSE 0)
      BY <2>1, <2>2, NextDateIsNextDay DEF BeginTick
    <3>2. CASE tick = 0
      BY <2>1, <3>1, <3>2 DEF DayInv, DateFollowsTick, DayTurns
    <3>3. CASE tick > 0
      <4>1. tick \div TicksPerDay =
                (tick - 1) \div TicksPerDay + (IF DayTurns THEN 1 ELSE 0)
        <5>1. tick \in Nat \ {0} /\ TicksPerDay \in Nat \ {0}
          BY <2>1, <3>3
        <5>2. tick \div TicksPerDay = (tick - 1) \div TicksPerDay
                                + (IF tick % TicksPerDay = 0 THEN 1 ELSE 0)
          BY <5>1, DaysOfNextTick, Zenon
        <5>3. QED
          BY <3>3, <5>2, Zenon DEF DayTurns
      <4>2. ~(ticking \/ tick = 0)
        BY <2>1, <3>1, <3>3
      <4>3. DayNumber(date) - DayNumber(start) = (tick - 1) \div TicksPerDay
        BY <4>2, Zenon DEF DayInv, DateFollowsTick
      <4>4. DayNumber(date') - DayNumber(start') = tick' \div TicksPerDay
        BY <2>1, <3>1, <4>1, <4>3
      <4>5. QED
        BY <3>1, <4>4 DEF DateFollowsTick
    <3>4. QED
      BY <2>1, <3>2, <3>3
  <2>3. CASE EndTick
    BY <2>1, <2>3 DEF EndTick, DayInv, DateFollowsTick
  <2>4. CASE CalendarEnds \/ Halt \/ UNCHANGED clockVars
    BY <2>4 DEF CalendarEnds, Halt, clockVars, DayInv, DateFollowsTick
  <2>5. QED
    BY <2>2, <2>3, <2>4 DEF ClockNext
<1>3. DayInv => DateFollowsTick
  BY DEF DayInv
<1>4. QED
  BY <1>1, <1>2, <1>3, PTL DEF ClockSpec

=============================================================================
