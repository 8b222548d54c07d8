----------------------------- MODULE Substrate ------------------------------
(***************************************************************************)
(* The population substrate of AL4.20: alife_world_step and everything it  *)
(* calls (src/src/simulation.c), with the guards that alife_world_save and *)
(* alife_world_load (src/src/checkpoint.c) put on a world.                 *)
(*                                                                         *)
(* One thread runs the program.  pc is the phase of the tick and idx the   *)
(* loop variable of the phase; an iteration that changes nothing is not a  *)
(* step, so each scan goes to the next slot it acts on.  Neural networks,  *)
(* random draws and allocation are abstracted to the choice they make.     *)
(***************************************************************************)
EXTENDS Calendar, Sequences, FiniteSets

CONSTANTS
    MaxId,              \* bound: ids the model can give out
    Cap,                \* capacity_bytes in organisms
    TicksPerDay,        \* ticks_per_day
    TickCount,          \* tick_count
    StartDate,          \* calendar_start_*
    Duration,           \* courtship_duration_ticks
    AgeScale,           \* ALIFE_BIOLOGICAL_AGE_SCALE
    MaturityAge,        \* maturity_age
    AwakeRate, SleepRate, OffRate,  \* the age rates, in units of 1/AgeScale
    OffMin, OffMax,     \* off_min/max_duration_ticks
    MaxWithoutAwakeDays,    \* max_without_awake_days
    CheckpointInterval, \* checkpoint_interval
    CounterMax,         \* UINT64_MAX for the saturating counters
    GenomeCount,        \* layout.genome_count
    Mutations,          \* bound: mutation counts of an offspring
    Learning,           \* bound: may a run change weights significantly?
    Behaviours,         \* bound: what networks do, see AllBehaviours
    HostCalls           \* bound: calls of the public API between ticks

\* Awake: court (consent to mating), rest, sleep.  Asleep: doze, wake, off.
\* unsound: a network update may leave state that the validator rejects.
\* barren: an offspring may be refused (allocation, invalid genome).
AllBehaviours ==
    {"court", "rest", "sleep", "doze", "wake", "off", "unsound", "barren"}

ASSUME BoundsAssumption ==
    /\ MaxId \in Nat /\ MaxId >= 2
    /\ HostCalls \in Nat
    /\ Mutations \subseteq 0..GenomeCount /\ Mutations # {}
    /\ Learning \subseteq BOOLEAN /\ Learning # {}
    /\ Behaviours \subseteq AllBehaviours

\* alife_config_validate; the capacity must hold the two seeds (setup_world).
ASSUME ConfigAssumption ==
    /\ Cap \in Nat /\ Cap >= 2
    /\ TicksPerDay \in Nat \ {0} /\ TickCount \in Nat \ {0}
    /\ StartDate \in Dates /\ DateValid(StartDate)
    /\ Duration \in Nat \ {0} /\ MaturityAge \in Nat \ {0}
    /\ AgeScale \in Nat \ {0}
    /\ AwakeRate \in Nat /\ SleepRate \in Nat /\ OffRate \in Nat
    /\ OffMin \in Nat \ {0} /\ OffMax \in Nat /\ OffMax >= OffMin
    /\ MaxWithoutAwakeDays \in Nat \ {0}
    /\ CheckpointInterval \in Nat \ {0}
    /\ CounterMax \in Nat /\ GenomeCount \in Nat \ {0}

VARIABLES
    org,        \* org[id]: the AlifeOrganism with that id, or Nobody
    slots,      \* the ids in the order of world->organisms
    nextId,     \* next_id
    tally,      \* the population and courtship counters of AlifeWorld
    moves,      \* the saturating lifecycle transition counters
    tick, date, \* tick; year, month, day
    pc, idx,    \* phase of the tick, loop variable of the phase
    firstNew,   \* first_new_id
    seen,       \* history: the ids that the current loop has handled
    calls       \* history: API calls made, for the bound HostCalls

world == <<org, slots, nextId, tally, moves>>
clock == <<tick, date>>
control == <<pc, idx, firstNew, seen>>
vars == <<world, clock, control, calls>>

Ids == 1..MaxId
LifeStates == {"AWAKE", "ASLEEP", "OFF"}

\* What append_organism is told of a birth: the organism's date of birth, its
\* parents (0 for a seed), its generation and the mutations of its genome.
Seed(m) ==
    [date |-> StartDate, parentA |-> 0, parentB |-> 0, generation |-> 0,
     mutations |-> m]

\* A dead or unborn id; the array holds no such organism.
Nobody ==
    [state |-> "NONE", backOn |-> 0, lastAwake |-> 0, birth |-> 0, age |-> 0,
     bio |-> 0, reward |-> 0, partner |-> 0, progress |-> 0, hears |-> FALSE,
     consent |-> FALSE, roll |-> 0, sent |-> FALSE, inbox |-> {},
     attempts |-> 0, wins |-> 0, executions |-> 0, changes |-> 0,
     sound |-> TRUE, origin |-> Seed(0)]

\* append_organism: zeroed except for what it sets.  roll = 0 is INT32_MIN.
Newborn(t, w) ==
    [Nobody EXCEPT !.state = "AWAKE", !.lastAwake = t, !.birth = t, !.origin = w]

Lives(o) == org[o].state # "NONE"
Living == {o \in Ids : Lives(o)}

(***************************************************************************)
(* Courtship links and removal                                             *)
(***************************************************************************)
Single(r) == [r EXCEPT !.partner = 0, !.progress = 0, !.hears = FALSE]

\* Fault: only the cancelling side is cleared.
CancelOneSided(f, o) == [f EXCEPT ![o] = Single(@)]

\* cancel_courtship: clears o and, when the link is reciprocal, its partner.
CancelIn(f, o) ==
    IF f[o].partner = 0 THEN f
    ELSE [x \in Ids |->
            IF x = o \/ (x = f[o].partner /\ f[x].partner = o)
            THEN Single(f[x]) ELSE f[x]]

\* Fault: active_courtships is not decremented.
CancelStillActive(f, c, o) ==
    IF f[o].partner = 0 THEN c ELSE [c EXCEPT !.failed = @ + 1]

CancelTally(f, c, o) ==
    IF f[o].partner = 0 THEN c
    ELSE [c EXCEPT !.active = IF @ > 0 THEN @ - 1 ELSE 0, !.failed = @ + 1]

\* Faults: the array is compacted in order, or the last one is lost.
ShiftDelete(s, k) == [j \in 1..(Len(s) - 1) |-> IF j < k THEN s[j] ELSE s[j + 1]]
DropLast(s, k) == [j \in 1..(Len(s) - 1) |-> s[j]]

\* The last organism of the array moves into the hole.
SwapDelete(s, k) ==
    [j \in 1..(Len(s) - 1) |-> IF j = k THEN s[Len(s)] ELSE s[j]]

\* Fault: total_deaths is not incremented.
RemoveUncounted(f, c, k) ==
    /\ org' = [CancelIn(f, slots[k]) EXCEPT ![slots[k]] = Nobody]
    /\ tally' = CancelTally(f, c, slots[k])
    /\ slots' = SwapDelete(slots, k)

\* Fault: the partner of the removed organism keeps its link.
RemoveUncancelled(f, c, k) ==
    /\ org' = [f EXCEPT ![slots[k]] = Nobody]
    /\ tally' = [CancelTally(f, c, slots[k]) EXCEPT !.deaths = @ + 1]
    /\ slots' = SwapDelete(slots, k)

\* remove_at, on a world whose organisms are f and whose counters are c.
RemoveAt(f, c, k) ==
    LET o == slots[k] IN
    /\ org' = [CancelIn(f, o) EXCEPT ![o] = Nobody]
    /\ tally' = [CancelTally(f, c, o) EXCEPT !.deaths = @ + 1]
    /\ slots' = SwapDelete(slots, k)

(***************************************************************************)
(* Lifecycle transitions                                                   *)
(***************************************************************************)
\* Fault: sent_message_this_tick survives the transition.
QuietStillSending(r) == [r EXCEPT !.consent = FALSE, !.hears = FALSE, !.inbox = {}]

\* clear_public_outputs
Quiet(r) ==
    [r EXCEPT !.consent = FALSE, !.hears = FALSE, !.sent = FALSE, !.inbox = {}]

ClampOff(d) == IF d < OffMin THEN OffMin ELSE IF d > OffMax THEN OffMax ELSE d

\* Fault: the off timer is not asked.
TransitionAnyTime(o, to) ==
    \/ org[o].state = "AWAKE" /\ to = "ASLEEP"
    \/ org[o].state = "ASLEEP" /\ to \in {"AWAKE", "OFF"}
    \/ org[o].state = "OFF" /\ to = "ASLEEP"

\* transition_at: its guard, ...
TransitionAllowed(o, to) ==
    LET r == org[o] IN
    \/ r.state = "AWAKE" /\ to = "ASLEEP"
    \/ r.state = "ASLEEP" /\ to \in {"AWAKE", "OFF"}
    \/ r.state = "OFF" /\ to = "ASLEEP" /\ tick >= r.backOn

\* Fault: a courtship outlives the sleep of one side.
TransitionUncancelled(f, o, to, d) ==
    [f EXCEPT ![o] =
        [@ EXCEPT !.state = to, !.backOn = IF to = "OFF" THEN tick + ClampOff(d) ELSE 0]]

\* ... what it does to the organisms f, ...
TransitionIn(f, o, to, d) ==
    IF to = "AWAKE"
    THEN [f EXCEPT ![o] =
            [@ EXCEPT !.state = to, !.backOn = 0, !.lastAwake = tick]]
    ELSE [CancelIn(f, o) EXCEPT ![o] =
            Quiet([@ EXCEPT !.state = to,
                            !.backOn = IF to = "OFF" THEN tick + ClampOff(d) ELSE 0])]

\* Fault: a courtship that ends in sleep is counted nowhere.
TransitionUncounted(f, c, o, to) == c

TransitionTally(f, c, o, to) == IF to = "AWAKE" THEN c ELSE CancelTally(f, c, o)

\* ... and to the counters, which stop all together when the total is full.
Saturating(n, counted) == IF counted /\ n < CounterMax THEN n + 1 ELSE n

Counted(m, from, to) ==
    IF m.total = CounterMax THEN m
    ELSE [m EXCEPT
            !.total = @ + 1,
            !.awakeToAsleep = Saturating(@, from = "AWAKE"),
            !.asleepToAwake = Saturating(@, from = "ASLEEP" /\ to = "AWAKE"),
            !.asleepToOff = Saturating(@, from = "ASLEEP" /\ to = "OFF")]

(***************************************************************************)
(* Authorization, state validation and ageing                              *)
(***************************************************************************)
\* alife_reproduction_eligible; nothing in the program sets world->stopped.
Eligible(r) ==
    /\ ~IsFoolsDay(date)
    /\ r.state = "AWAKE"
    /\ r.bio \div AgeScale >= MaturityAge
    /\ r.consent

\* alife_organism_state_valid, with the finiteness and bound checks as sound.
StateValid(r) == r.sound /\ (r.state = "OFF" => r.backOn > tick)

\* The validation of the execution loop: only off_metadata_valid when off.
LoopValid(r) == IF r.state = "OFF" THEN r.backOn > tick ELSE StateValid(r)

\* biological_increment
AgeRate(r) ==
    CASE r.state = "AWAKE" -> AwakeRate
      [] r.state = "ASLEEP" -> SleepRate
      [] OTHER -> OffRate

DormancyLimit == MaxWithoutAwakeDays * TicksPerDay

(***************************************************************************)
(* Control                                                                 *)
(***************************************************************************)
Goto(phase) == pc' = phase /\ idx' = 1 /\ seen' = {}

\* j is the next slot that a scan stopping at the slots S acts on.
NextHit(j, S) == j \in S /\ \A l \in S : j <= l

Here == idx..Len(slots)

\* seed_population: the second seed is a mutation of the first.
Init ==
    /\ \E m \in 1..GenomeCount :
        org = [o \in Ids |-> IF o <= 2 THEN Newborn(0, Seed(IF o = 1 THEN 0 ELSE m))
                               ELSE Nobody]
    /\ slots = <<1, 2>>
    /\ nextId = 3
    /\ tally = [births |-> 2, deaths |-> 0, active |-> 0, started |-> 0,
                failed |-> 0, completed |-> 0, offspring |-> 0]
    /\ moves = [total |-> 0, awakeToAsleep |-> 0, asleepToAwake |-> 0,
                asleepToOff |-> 0]
    /\ tick = 0
    /\ date = StartDate
    /\ pc = "idle" /\ idx = 1 /\ firstNew = 0 /\ seen = {}
    /\ calls = 0


(***************************************************************************)
(* The head of a step, and the loop of alife_world_run around it           *)
(***************************************************************************)
\* Fault: the date turns over before the first tick too.
DayTurnsAtZero == tick % TicksPerDay = 0

DayTurns == tick > 0 /\ tick % TicksPerDay = 0

StartTick ==
    /\ pc = "idle" /\ tick < TickCount
    /\ DayTurns => ~IsLastDate(date)
    /\ date' = IF DayTurns THEN NextDate(date) ELSE date
    /\ Goto("timers")
    /\ UNCHANGED <<world, tick, firstNew, calls>>

\* The step fails at the end of the calendar, and the run with it.
CalendarEnds ==
    /\ pc = "idle" /\ tick < TickCount
    /\ DayTurns /\ IsLastDate(date)
    /\ Goto("failed")
    /\ UNCHANGED <<world, clock, firstNew, calls>>

RunEnds ==
    /\ pc = "idle" /\ tick >= TickCount
    /\ Goto("done")
    /\ UNCHANGED <<world, clock, firstNew, calls>>

(***************************************************************************)
(* Off timers, Fool's Day and dormancy: the three scans before execution   *)
(***************************************************************************)
Expired ==
    {j \in Here : org[slots[j]].state = "OFF" /\ tick >= org[slots[j]].backOn}

Transition(o, to, d) ==
    /\ org' = TransitionIn(org, o, to, d)
    /\ tally' = TransitionTally(org, tally, o, to)
    /\ moves' = Counted(moves, org[o].state, to)

\* process_off_timers
ReturnFromOff ==
    /\ pc = "timers"
    /\ \E j \in Expired :
        /\ NextHit(j, Expired)
        /\ Transition(slots[j], "ASLEEP", 0)
        /\ idx' = j + 1
    /\ UNCHANGED <<slots, nextId, clock, pc, firstNew, seen, calls>>

TimersDone ==
    /\ pc = "timers" /\ Expired = {}
    /\ Goto("foolsday")
    /\ UNCHANGED <<world, clock, firstNew, calls>>

\* Fault: the roll of the year is not remembered.
JudgedEveryTick ==
    {j \in Here : IsFoolsDay(date) /\ org[slots[j]].state \in {"AWAKE", "ASLEEP"}}

\* The organisms that process_foolsday judges.
Judged ==
    {j \in Here :
        /\ IsFoolsDay(date)
        /\ \/ org[slots[j]].state = "AWAKE"
           \/ org[slots[j]].state = "ASLEEP" /\ org[slots[j]].roll # date.year}

FoolAwake ==
    /\ pc = "foolsday"
    /\ \E j \in Judged :
        /\ NextHit(j, Judged)
        /\ org[slots[j]].state = "AWAKE"
        /\ RemoveAt(org, tally, j)
        /\ idx' = j
    /\ UNCHANGED <<nextId, moves, clock, pc, firstNew, seen, calls>>

\* The roll is recorded before its outcome is known.
FoolAsleep ==
    /\ pc = "foolsday"
    /\ \E j \in Judged, survived \in BOOLEAN :
        LET rolled == [org EXCEPT ![slots[j]].roll = date.year] IN
        /\ NextHit(j, Judged)
        /\ org[slots[j]].state = "ASLEEP"
        /\ IF survived
           THEN /\ org' = rolled
                /\ idx' = j + 1
                /\ UNCHANGED <<slots, tally>>
           ELSE RemoveAt(rolled, tally, j) /\ idx' = j
    /\ UNCHANGED <<nextId, moves, clock, pc, firstNew, seen, calls>>

FoolsDayDone ==
    /\ pc = "foolsday" /\ Judged = {}
    /\ Goto("dormancy")
    /\ UNCHANGED <<world, clock, firstNew, calls>>

\* Fault: time spent off does not count.
DormantAsleep ==
    {j \in Here :
        /\ org[slots[j]].state = "ASLEEP"
        /\ tick - org[slots[j]].lastAwake > DormancyLimit}

Dormant ==
    {j \in Here :
        /\ org[slots[j]].state # "AWAKE"
        /\ tick > org[slots[j]].lastAwake
        /\ tick - org[slots[j]].lastAwake > DormancyLimit}

\* process_dormancy_timeouts
DormancyTimeout ==
    /\ pc = "dormancy"
    /\ \E j \in Dormant :
        /\ NextHit(j, Dormant)
        /\ RemoveAt(org, tally, j)
        /\ idx' = j
    /\ UNCHANGED <<nextId, moves, clock, pc, firstNew, seen, calls>>

DormancyDone ==
    /\ pc = "dormancy" /\ Dormant = {}
    /\ Goto("execute")
    /\ UNCHANGED <<world, clock, firstNew, calls>>

(***************************************************************************)
(* The execution loop: execute_lifecycle between two validations.          *)
(* A network update leaves sound = v; a removal does not advance idx.      *)
(***************************************************************************)
Outcomes ==
    [sound : IF "unsound" \in Behaviours THEN BOOLEAN ELSE {TRUE},
     learnt : Learning]

AtWork(o, state) ==
    /\ pc = "execute" /\ idx <= Len(slots)
    /\ o = slots[idx]
    /\ org[o].state = state
    /\ LoopValid(org[o])

ExecuteRest == UNCHANGED <<nextId, clock, pc, firstNew, calls>>

\* Fault: the loop advances past the organism moved into the hole.
SettleSkipping(o, f, c) ==
    /\ IF LoopValid(f[o]) THEN org' = f /\ tally' = c /\ UNCHANGED slots
       ELSE RemoveAt(f, c, idx)
    /\ idx' = idx + 1
    /\ seen' = seen \cup {o}

\* Fault: the loop does not advance at all.
SettleStuck(o, f, c) ==
    /\ IF LoopValid(f[o]) THEN org' = f /\ tally' = c /\ UNCHANGED slots
       ELSE RemoveAt(f, c, idx)
    /\ UNCHANGED idx
    /\ seen' = seen \cup {o}

\* The second validation, after the organisms became f and the counters c.
Settle(o, f, c) ==
    /\ IF LoopValid(f[o])
       THEN /\ org' = f /\ tally' = c
            /\ idx' = idx + 1
            /\ UNCHANGED slots
       ELSE RemoveAt(f, c, idx) /\ UNCHANGED idx
    /\ seen' = seen \cup {o}

InvalidDies ==
    /\ pc = "execute" /\ idx <= Len(slots)
    /\ ~LoopValid(org[slots[idx]])
    /\ RemoveAt(org, tally, idx)
    /\ seen' = seen \cup {slots[idx]}
    /\ UNCHANGED <<idx, moves>> /\ ExecuteRest

ExecuteOff ==
    \E o \in Living :
        /\ AtWork(o, "OFF")
        /\ Settle(o, [org EXCEPT ![o].sent = FALSE], tally)
        /\ UNCHANGED moves /\ ExecuteRest

\* The end of execute_organism: what the network update left of r.
Updated(r, v) ==
    [r EXCEPT !.sound = v.sound, !.executions = @ + 1,
              !.changes = Saturating(@, v.learnt)]

\* execute_organism on an awake organism; it sends, and may consent to mate.
AwakeRun(o, consents, v) ==
    [org EXCEPT ![o] = [Updated(@, v) EXCEPT !.consent = consents, !.sent = TRUE]]

StayAwake ==
    \E o \in Living, b \in Behaviours \cap {"court", "rest"}, v \in Outcomes :
        /\ AtWork(o, "AWAKE")
        /\ Settle(o, AwakeRun(o, b = "court", v), tally)
        /\ UNCHANGED moves /\ ExecuteRest

FallAsleep ==
    \E o \in Living, v \in Outcomes :
        /\ "sleep" \in Behaviours
        /\ AtWork(o, "AWAKE")
        /\ LET ran == AwakeRun(o, FALSE, v) IN
           Settle(o, TransitionIn(ran, o, "ASLEEP", 0),
                     TransitionTally(ran, tally, o, "ASLEEP"))
        /\ moves' = Counted(moves, "AWAKE", "ASLEEP")
        /\ ExecuteRest

\* ... and on a sleeping one, between two clear_public_outputs.
AsleepRun(o, v) == [org EXCEPT ![o] = Updated(Quiet(@), v)]

Doze ==
    \E o \in Living, v \in Outcomes :
        /\ "doze" \in Behaviours
        /\ AtWork(o, "ASLEEP")
        /\ Settle(o, AsleepRun(o, v), tally)
        /\ UNCHANGED moves /\ ExecuteRest

SwitchOff ==
    \E o \in Living, v \in Outcomes, d \in OffMin..OffMax :
        /\ "off" \in Behaviours
        /\ AtWork(o, "ASLEEP")
        /\ LET ran == AsleepRun(o, v) IN
           Settle(o, TransitionIn(ran, o, "OFF", d),
                     TransitionTally(ran, tally, o, "OFF"))
        /\ moves' = Counted(moves, "ASLEEP", "OFF")
        /\ ExecuteRest

\* Fault: waking on April 1 is like waking on any day.
WakeUpUnjudged ==
    \E o \in Living, v \in Outcomes :
        /\ "wake" \in Behaviours
        /\ AtWork(o, "ASLEEP")
        /\ Settle(o, TransitionIn(AsleepRun(o, v), o, "AWAKE", 0), tally)
        /\ moves' = Counted(moves, "ASLEEP", "AWAKE")
        /\ ExecuteRest

\* On April 1 the organism that woke is removed before any validation.
WakeUp ==
    \E o \in Living, v \in Outcomes :
        /\ "wake" \in Behaviours
        /\ AtWork(o, "ASLEEP")
        /\ LET woken == TransitionIn(AsleepRun(o, v), o, "AWAKE", 0) IN
           IF IsFoolsDay(date)
           THEN /\ RemoveAt(woken, tally, idx)
                /\ seen' = seen \cup {o}
                /\ UNCHANGED idx
           ELSE Settle(o, woken, tally)
        /\ moves' = Counted(moves, "ASLEEP", "AWAKE")
        /\ ExecuteRest

ExecutionDone ==
    /\ pc = "execute" /\ idx > Len(slots)
    /\ Goto("deliver")
    /\ UNCHANGED <<world, clock, firstNew, calls>>

(***************************************************************************)
(* Communication: whose outboxes an organism's inbox averages              *)
(***************************************************************************)
Senders == {o \in Living : org[o].sent}

InboxOf(o) == IF org[o].state = "AWAKE" THEN Senders \ {o} ELSE {}

\* deliver_communication
Deliver ==
    /\ pc = "deliver"
    /\ org' = [o \in Ids |-> IF Lives(o) THEN [org[o] EXCEPT !.inbox = InboxOf(o)]
                             ELSE org[o]]
    /\ Goto("courtship")
    /\ UNCHANGED <<slots, nextId, tally, moves, clock, firstNew, calls>>

(***************************************************************************)
(* process_courtships: each pair is met at the slot of its lower id        *)
(***************************************************************************)
Leads(o) == org[o].partner # 0 /\ o <= org[o].partner

Leaders == {j \in Here : Leads(slots[j])}

\* The other side of o's link, when it is living and points back.
Reciprocal(o) == LET p == org[o].partner IN p \in Living /\ org[p].partner = o

MayCourt(o) ==
    /\ Reciprocal(o)
    /\ Eligible(org[o]) /\ Eligible(org[org[o].partner])

Met(o, j) ==
    /\ pc = "courtship"
    /\ NextHit(j, Leaders)
    /\ o = slots[j]
    /\ idx' = j + 1
    /\ seen' = seen \cup {o}

CourtshipFails ==
    /\ \E j \in Leaders, o \in Living :
        /\ Met(o, j)
        /\ ~MayCourt(o)
        /\ org' = CancelIn(org, o)
        /\ tally' = CancelTally(org, tally, o)
    /\ UNCHANGED <<slots, nextId, moves, clock, pc, firstNew, calls>>

\* Both sides hear each other and take the progress of the first.
Progressed(o) ==
    [x \in Ids |->
        IF x = o \/ x = org[o].partner
        THEN [org[x] EXCEPT !.hears = TRUE, !.progress = org[o].progress + 1]
        ELSE org[x]]

CourtshipGoesOn ==
    /\ \E j \in Leaders, o \in Living :
        /\ Met(o, j)
        /\ MayCourt(o)
        /\ org[o].progress + 1 < Duration
        /\ org' = Progressed(o)
    /\ UNCHANGED <<slots, nextId, tally, moves, clock, pc, firstNew, calls>>

\* Fault: the offspring is of the generation of its elder parent.
DescentSameGeneration(a, b, m) ==
    LET g == org[a].origin.generation  h == org[b].origin.generation IN
    [date |-> date, parentA |-> a, parentB |-> b,
     generation |-> IF g > h THEN g ELSE h, mutations |-> m]

\* The origin of an offspring of a and b with m mutations.
Descent(a, b, m) ==
    LET g == org[a].origin.generation  h == org[b].origin.generation IN
    [date |-> date, parentA |-> a, parentB |-> b,
     generation |-> (IF g > h THEN g ELSE h) + 1, mutations |-> m]

\* complete_birth after the courtship is cleared: the eligibility it asks for
\* again still holds, so with two parents it fails only for want of an
\* offspring.
Completed(o, born, m) ==
    [x \in Ids |->
        IF x = o \/ x = org[o].partner
        THEN [Single(org[x]) EXCEPT !.wins = @ + (IF born THEN 1 ELSE 0)]
        ELSE IF born /\ x = nextId
        THEN Newborn(tick, Descent(o, org[o].partner, m)) ELSE org[x]]

CourtshipEnds ==
    /\ \E j \in Leaders, o \in Living, born \in BOOLEAN, m \in Mutations :
        /\ Met(o, j)
        /\ MayCourt(o)
        /\ org[o].progress + 1 >= Duration
        /\ born => nextId <= MaxId /\ o # org[o].partner
        /\ \/ born \/ "barren" \in Behaviours
           \/ nextId > MaxId \/ o = org[o].partner
        /\ org' = Completed(o, born, m)
        /\ slots' = IF born THEN Append(slots, nextId) ELSE slots
        /\ nextId' = IF born THEN nextId + 1 ELSE nextId
        /\ tally' = LET n == IF born THEN 1 ELSE 0 IN
                    [tally EXCEPT !.active = @ - 1, !.completed = @ + 1,
                                  !.births = @ + n, !.offspring = @ + n]
        /\ pc' = IF born THEN "birthEvict" ELSE pc
    /\ UNCHANGED <<moves, clock, firstNew, calls>>

CourtshipsDone ==
    /\ pc = "courtship" /\ Leaders = {}
    /\ Goto("pairing")
    /\ firstNew' = nextId
    /\ UNCHANGED <<world, clock, calls>>

(***************************************************************************)
(* alife_enforce_capacity, after a birth and again at the end of the tick  *)
(***************************************************************************)
\* Fault: displacement goes by biological age.
OldestBiologically(j) ==
    \A l \in DOMAIN slots :
        LET a == org[slots[j]].bio  b == org[slots[l]].bio IN
        a > b \/ (a = b /\ slots[j] <= slots[l])

Oldest(j) ==
    \A l \in DOMAIN slots :
        LET a == org[slots[j]].age  b == org[slots[l]].age IN
        a > b \/ (a = b /\ slots[j] <= slots[l])

EvictOldest ==
    /\ pc \in {"birthEvict", "evict"} /\ Len(slots) > Cap
    /\ \E j \in DOMAIN slots : Oldest(j) /\ RemoveAt(org, tally, j)
    /\ UNCHANGED <<nextId, moves, clock, control, calls>>

\* Fault: a birth does not enforce the capacity.
BirthAlwaysFits ==
    /\ pc = "birthEvict"
    /\ pc' = "courtship"
    /\ UNCHANGED <<world, clock, idx, firstNew, seen, calls>>

\* The courtship loop goes on where it was, with the array as it is now.
BirthFits ==
    /\ pc = "birthEvict" /\ Len(slots) <= Cap
    /\ pc' = "courtship"
    /\ UNCHANGED <<world, clock, idx, firstNew, seen, calls>>

PopulationFits ==
    /\ pc = "evict" /\ Len(slots) <= Cap
    /\ Goto("account")
    /\ UNCHANGED <<world, clock, firstNew, calls>>

(***************************************************************************)
(* process_reproduction: candidates are drawn by lot and paired, so any    *)
(* disjoint couples of single eligible organisms may come out of it        *)
(***************************************************************************)
\* Fault: only the first organism's attempt is recorded.
AttemptedFirst(a, b) ==
    [x \in Ids |-> IF x = a /\ Lives(x)
                   THEN [org[x] EXCEPT !.attempts = @ + 1] ELSE org[x]]

\* record_attempt
Attempted(a, b) ==
    [x \in Ids |-> IF x \in {a, b} /\ Lives(x)
                   THEN [org[x] EXCEPT !.attempts = @ + 1] ELSE org[x]]

MayPair(a, b) ==
    /\ a # b /\ Lives(a) /\ Lives(b)
    /\ org[a].partner = 0 /\ org[b].partner = 0
    /\ Eligible(org[a]) /\ Eligible(org[b])

\* alife_try_birth
TryBirth(a, b, granted) ==
    IF granted /\ MayPair(a, b)
    THEN /\ org' = [Attempted(a, b) EXCEPT
                        ![a].partner = b, ![a].progress = 0,
                        ![b].partner = a, ![b].progress = 0]
         /\ tally' = [tally EXCEPT !.active = @ + 1, !.started = @ + 1]
    ELSE org' = Attempted(a, b) /\ UNCHANGED tally

Pair ==
    /\ pc = "pairing"
    /\ \E a, b \in Living :
        /\ a < b /\ MayPair(a, b)
        /\ TryBirth(a, b, TRUE)
    /\ UNCHANGED <<slots, nextId, moves, clock, control, calls>>

PairingDone ==
    /\ pc = "pairing"
    /\ Goto("evict")
    /\ UNCHANGED <<world, clock, firstNew, calls>>

(***************************************************************************)
(* Accounting, ++tick and periodic_work                                    *)
(***************************************************************************)
\* Fault: chronological age stands still while dormant.
AccountedAwake(r) ==
    [r EXCEPT !.age = @ + (IF r.state = "AWAKE" THEN 1 ELSE 0),
              !.bio = @ + AgeRate(r), !.reward = @ + AgeRate(r),
              !.lastAwake = IF r.state = "AWAKE" THEN tick ELSE @]

Accounted(r) ==
    [r EXCEPT !.age = @ + 1,
              !.bio = @ + AgeRate(r), !.reward = @ + AgeRate(r),
              !.lastAwake = IF r.state = "AWAKE" THEN tick ELSE @]

Account ==
    /\ pc = "account"
    /\ org' = [o \in Ids |-> IF Lives(o) /\ o < firstNew THEN Accounted(org[o])
                             ELSE org[o]]
    /\ tick' = tick + 1
    /\ Goto("periodic")
    /\ UNCHANGED <<slots, nextId, tally, moves, date, firstNew, calls>>

\* transition_counts_valid
CountsValid(m) ==
    /\ m.awakeToAsleep <= m.total
    /\ m.asleepToAwake <= m.total - m.awakeToAsleep
    /\ m.asleepToOff <= m.total - m.awakeToAsleep - m.asleepToAwake

\* The courtship state of one organism, as save and load ask for it.
CourtshipValid(o) ==
    IF org[o].partner = 0 THEN org[o].progress = 0 /\ ~org[o].hears
    ELSE /\ Reciprocal(o) /\ org[o].partner # o
         /\ org[o].state = "AWAKE" /\ org[org[o].partner].state = "AWAKE"
         /\ org[o].progress = org[org[o].partner].progress

\* What alife_world_save asks of the world before it writes.
SaveAccepts ==
    /\ DateValid(date)
    /\ tally.deaths <= tally.births
    /\ Len(slots) = tally.births - tally.deaths
    /\ nextId = tally.births + 1
    /\ CountsValid(moves)
    /\ \A j \in DOMAIN slots :
        StateValid(org[slots[j]]) /\ CourtshipValid(slots[j])

\* What load asks of the birth of the organism o: the mutations of a genome of
\* this layout, and either no parents or two older ones and a generation.
OriginValid(o, w) ==
    /\ DateValid(w.date) /\ w.mutations <= GenomeCount
    /\ IF w.parentA = 0 THEN w.parentB = 0 /\ w.generation = 0
       ELSE /\ w.parentB # 0 /\ w.parentA # w.parentB
            /\ w.parentA < o /\ w.parentB < o
            /\ w.generation # 0

\* What alife_world_load asks of the same world when it has read it back. That
\* the file is whole, and of this configuration, is Loadable in Experiment.
LoadAccepts ==
    /\ DateValid(date)
    /\ nextId = tally.births + 1
    /\ tick <= TickCount
    /\ tally.deaths <= tally.births
    /\ Len(slots) = tally.births - tally.deaths
    /\ CountsValid(moves)
    /\ Len(slots) <= Cap
    /\ \A j \in DOMAIN slots :
        LET o == slots[j]  r == org[o] IN
        /\ r.sound /\ o < nextId /\ r.birth <= tick /\ r.reward = r.bio
        /\ IF r.state = "OFF" THEN r.backOn > tick /\ r.backOn <= TickCount + OffMax
           ELSE r.backOn = 0
        /\ r.roll \in 0..date.year
        /\ r.wins <= r.attempts /\ r.changes <= r.executions
        /\ OriginValid(o, r.origin)
        /\ CourtshipValid(o)
        /\ \A l \in 1..(j - 1) : slots[l] # o
    /\ tally.active =
        Cardinality({j \in DOMAIN slots :
                        org[slots[j]].partner # 0 /\ slots[j] < org[slots[j]].partner})

CheckpointDue == tick % CheckpointInterval = 0

\* A save that is refused fails the step and so the run.
Periodic ==
    /\ pc = "periodic"
    /\ Goto(IF CheckpointDue /\ ~SaveAccepts THEN "failed" ELSE "idle")
    /\ UNCHANGED <<world, clock, firstNew, calls>>

(***************************************************************************)
(* The public API, called between ticks by a host that is not the CLI      *)
(***************************************************************************)
HostCall ==
    /\ pc = "idle" /\ calls < HostCalls
    /\ calls' = calls + 1
    /\ UNCHANGED <<slots, nextId, clock, control>>

\* alife_transition_request; a refused request changes nothing.
HostTransition ==
    /\ HostCall
    /\ \E o \in Living, to \in LifeStates, d \in {0, OffMax + 1} :
        TransitionAllowed(o, to) /\ Transition(o, to, d)

HostTryBirth ==
    /\ HostCall
    /\ \E a, b \in Ids, granted \in BOOLEAN : TryBirth(a, b, granted)
    /\ UNCHANGED moves

\* A write through alife_organism_genome_mut that breaks the weight bound.
HostSpoils ==
    /\ HostCall
    /\ \E o \in Living : org' = [org EXCEPT ![o].sound = FALSE]
    /\ UNCHANGED <<tally, moves>>

-----------------------------------------------------------------------------
\* The process has returned from alife_world_run and does nothing more.
Over == pc \in {"done", "failed"}
Terminated == Over /\ UNCHANGED vars

Step ==
    \/ StartTick \/ CalendarEnds \/ RunEnds
    \/ ReturnFromOff \/ TimersDone
    \/ FoolAwake \/ FoolAsleep \/ FoolsDayDone
    \/ DormancyTimeout \/ DormancyDone
    \/ InvalidDies \/ ExecuteOff \/ StayAwake \/ FallAsleep
    \/ Doze \/ SwitchOff \/ WakeUp \/ ExecutionDone
    \/ Deliver
    \/ CourtshipFails \/ CourtshipGoesOn \/ CourtshipEnds \/ CourtshipsDone
    \/ EvictOldest \/ BirthFits \/ PopulationFits
    \/ Pair \/ PairingDone
    \/ Account \/ Periodic

Host == HostTransition \/ HostTryBirth \/ HostSpoils

Next == Step \/ Host \/ Terminated

Spec == Init /\ [][Next]_vars

\* One thread runs the loop to its end; nothing makes the host call.
FairSpec == Spec /\ WF_vars(Step)

=============================================================================
