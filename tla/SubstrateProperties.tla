------------------------ MODULE SubstrateProperties -------------------------
(***************************************************************************)
(* What the substrate must guarantee, stated about Substrate.              *)
(***************************************************************************)
EXTENDS Substrate

\* The phases of a tick in order; "periodic" follows ++world->tick.
TickPhases ==
    {"timers", "foolsday", "dormancy", "execute", "deliver", "courtship",
     "birthEvict", "pairing", "evict", "account"}
Phases == TickPhases \cup {"idle", "periodic", "done", "failed"}

OriginType ==
    [date : Dates, parentA : 0..MaxId, parentB : 0..MaxId, generation : Nat,
     mutations : 0..GenomeCount]

OrgType ==
    [state : LifeStates \cup {"NONE"}, backOn : Nat, lastAwake : Nat,
     birth : Nat, age : Nat, bio : Nat, reward : Nat, partner : 0..MaxId,
     progress : Nat, hears : BOOLEAN, consent : BOOLEAN, roll : 0..LastYear,
     sent : BOOLEAN, inbox : SUBSET Ids, attempts : Nat, wins : Nat,
     executions : Nat, changes : Nat, sound : BOOLEAN, origin : OriginType]

Orgs == [Ids -> OrgType]

\* active is decremented; CourtshipsBalance says that it never underflows.
TallyType ==
    [births : Nat, deaths : Nat, active : Int, started : Nat, failed : Nat,
     completed : Nat, offspring : Nat]

MovesType ==
    [total : 0..CounterMax, awakeToAsleep : 0..CounterMax,
     asleepToAwake : 0..CounterMax, asleepToOff : 0..CounterMax]

\* Every field has its type and the date is one that the loader accepts.
TypeOK ==
    /\ org \in Orgs
    /\ slots \in Seq(Ids)
    /\ nextId \in 3..(MaxId + 1)
    /\ tally \in TallyType
    /\ moves \in MovesType
    /\ tick \in Nat
    /\ date \in Dates /\ DateValid(date)
    /\ pc \in Phases
    /\ idx \in Nat \ {0}
    /\ firstNew \in 0..(MaxId + 1)
    /\ seen \in SUBSET Ids
    /\ calls \in 0..HostCalls

(***************************************************************************)
(* The population array                                                    *)
(***************************************************************************)
\* The array holds each living organism once and no dead one, at every
\* step of every loop that removes by moving the last organism.
ArrayHoldsTheLiving ==
    /\ \A j, l \in DOMAIN slots : slots[j] = slots[l] => j = l
    /\ {slots[j] : j \in DOMAIN slots} = Living

\* Ids are never given out again, and births, deaths and the array agree.
PopulationBalances ==
    /\ nextId = tally.births + 1
    /\ Len(slots) = tally.births - tally.deaths
    /\ \A o \in Ids : o >= nextId => ~Lives(o)
    /\ tally.births = 2 + tally.offspring

\* Removal during the execution loop neither skips an organism nor runs one
\* twice: those handled so far are exactly the ones in front of the index.
EachRunsOnce ==
    pc = "execute" => seen \cap Living = {slots[j] : j \in 1..(idx - 1)}

\* Births and evictions during the courtship loop neither hide a couple
\* from it nor show it one twice.
NoCoupleSkipped ==
    pc \in {"courtship", "birthEvict"} =>
        \A j \in DOMAIN slots :
            Leads(slots[j]) => (slots[j] \in seen <=> j < idx)

\* The array is over its capacity by the newborn at most, and never when a
\* tick has ended (a checkpoint of a larger world would be rejected).
CapacityHolds ==
    Len(slots) <= Cap + (IF pc = "birthEvict" THEN 1 ELSE 0)

\* An organism's age is the time since its birth, in every phase.
AgeIsElapsed == \A o \in Living : org[o].age = tick - org[o].birth

\* What displacement takes is the lowest living id: ...
OldestGoes ==
    pc \in {"birthEvict", "evict"} =>
        \A o \in Living : ~Lives(o)' => \A x \in Living : o <= x

\* ... never the newborn and never out of turn, whatever order the array
\* has by then, since ages are elapsed times.
EvictsInBirthOrder == [][OldestGoes]_vars

(***************************************************************************)
(* Courtship                                                               *)
(***************************************************************************)
\* Every link points to a living, awake organism that points back with the
\* same progress; an organism without a link has no trace of one.
LinksReciprocal == \A o \in Ids : CourtshipValid(o)

Couples == {{o, org[o].partner} : o \in {x \in Ids : org[x].partner # 0}}

\* The counters agree with the links: each courtship started is active, has
\* failed or was completed, and only completed ones had offspring.
CourtshipsBalance ==
    /\ tally.active = Cardinality(Couples)
    /\ tally.started = tally.active + tally.failed + tally.completed
    /\ tally.offspring <= tally.completed

\* Success never outruns the attempts (the loader rejects it), not even
\* when the courtship that is under way succeeds.
WinsWereAttempted ==
    \A o \in Living :
        org[o].wins + (IF org[o].partner # 0 THEN 1 ELSE 0) <= org[o].attempts

(***************************************************************************)
(* Fool's Day                                                              *)
(***************************************************************************)
AfterFoolsDay == TickPhases \ {"timers", "foolsday"}

\* On April 1, once the day's policy has run, nobody is awake, nobody
\* courts and each sleeper has had the roll of that year.
FoolsDayCulls ==
    IsFoolsDay(date) /\ pc \in AfterFoolsDay =>
        \A o \in Living :
            /\ org[o].state # "AWAKE" /\ org[o].partner = 0
            /\ org[o].state = "ASLEEP" => org[o].roll = date.year

(***************************************************************************)
(* Dormancy and checkpoints                                                *)
(***************************************************************************)
\* Nobody outlives max_without_awake_days without an awake tick.
DormancyBounded ==
    pc \in {"execute", "deliver", "courtship", "pairing", "evict"} =>
        \A o \in Living :
            org[o].state # "AWAKE" =>
                tick - org[o].lastAwake <= DormancyLimit

\* A world that save accepts at the end of a tick is one that load accepts.
SavedIsLoadable ==
    pc \in {"periodic", "idle", "done"} /\ SaveAccepts => LoadAccepts

(***************************************************************************)
(* Refinement                                                              *)
(***************************************************************************)
LifeOf(o) ==
    IF Lives(o) THEN org[o].state ELSE IF o < nextId THEN "dead" ELSE "unborn"

L == INSTANCE Lifecycle WITH
        life <- [o \in Ids |-> LifeOf(o)],
        alarm <- [o \in Ids |-> org[o].backOn],
        now <- tick

C == INSTANCE Courtship WITH
        alive <- Living, couples <- Couples, failed <- tally.failed,
        completed <- tally.completed, offspring <- tally.offspring

W == INSTANCE WorldClock WITH
        StartDates <- {StartDate}, start <- StartDate,
        ticking <- (pc \in TickPhases),
        halted <- (IF Over THEN pc ELSE "no")

\* The organisms follow the lifecycle diagram and the off timer.
KeepsLifecycle == L!LifeSpec

\* Courtship is a matching whose couples begin and end as they should.
KeepsCourtship == C!CourtSpec

\* Time passes as the world clock says.
KeepsTime == W!ClockSpec

(***************************************************************************)
(* Liveness, under the fairness of the one thread                          *)
(***************************************************************************)
\* A run comes to its last tick or to a failed step: no loop of a tick
\* lasts for ever, although none advances when it removes an organism.
RunTerminates == <>Over

(***************************************************************************)
(* What the documentation says and the code does not do                    *)
(***************************************************************************)
\* README.md:256-257: a tick emits its records "and write[s] a scheduled
\* checkpoint".  alife_organism_state_valid refuses an off organism that is
\* due in the tick about to begin, because the tick is already counted.
ScheduledSaveSucceeds == pc = "periodic" /\ CheckpointDue => SaveAccepts

\* docs/architecture.md:334: "A newborn starts with age zero and first
\* executes on the next tick."  first_new_id is taken after the births.
NewbornStartsAtZero ==
    pc = "idle" =>
        \A o \in Living : o > 2 /\ org[o].birth = tick - 1 => org[o].age = 0

=============================================================================
