-------------------------- MODULE SubstrateProofs ---------------------------
(***************************************************************************)
(* Proofs about Substrate, for every capacity, configuration, number of    *)
(* ids and behaviour of the networks: its types and its population array.  *)
(***************************************************************************)
EXTENDS SubstrateHistory, CalendarProofs

(***************************************************************************)
(* Types of the operators that change one organism                         *)
(***************************************************************************)
LEMMA MaxIdType == MaxId \in Nat /\ MaxId >= 2
BY BoundsAssumption

LEMMA SeedType == ASSUME NEW m \in 0..GenomeCount PROVE Seed(m) \in OriginType
<1>1. StartDate \in Dates /\ 0 \in 0..MaxId
  BY MaxIdType, ConfigAssumption
<1>2. QED
  BY <1>1 DEF Seed, OriginType

LEMMA NobodyType == Nobody \in OrgType
<1>1. 0 \in 0..MaxId /\ 0 \in 0..LastYear /\ {} \in SUBSET Ids
  BY MaxIdType, LastYearType
<1>2. Seed(0) \in OriginType
  BY SeedType, ConfigAssumption
<1>3. QED
  BY <1>1, <1>2 DEF Nobody, OrgType

LEMMA NewbornType ==
    ASSUME NEW t \in Nat, NEW w \in OriginType
    PROVE  Newborn(t, w) \in OrgType
BY NobodyType DEF Newborn, OrgType, LifeStates

LEMMA NewbornFields ==
    ASSUME NEW t, NEW w
    PROVE  LET r == Newborn(t, w) IN
           /\ r.state = "AWAKE" /\ r.lastAwake = t /\ r.birth = t /\ r.origin = w
           /\ r.partner = 0 /\ r.progress = 0 /\ ~r.hears
           /\ ~r.sent /\ r.inbox = {} /\ r.roll = 0 /\ r.backOn = 0
           /\ r.attempts = 0 /\ r.wins = 0 /\ r.executions = 0 /\ r.changes = 0
           /\ r.age = 0 /\ r.bio = 0 /\ r.reward = 0
BY DEF Newborn, Nobody

\* The parents of an offspring are living organisms.
LEMMA DescentType ==
    ASSUME org \in Orgs, date \in Dates, NEW a \in Ids, NEW b \in Ids,
           NEW m \in Mutations
    PROVE  Descent(a, b, m) \in OriginType
<1>1. org[a] \in OrgType /\ org[b] \in OrgType
  BY DEF Orgs
<1>2. org[a].origin.generation \in Nat /\ org[b].origin.generation \in Nat
  BY <1>1 DEF OrgType, OriginType
<1>3. a \in 0..MaxId /\ b \in 0..MaxId /\ m \in 0..GenomeCount
  BY BoundsAssumption DEF Ids
<1>4. QED
  BY <1>2, <1>3 DEF Descent, OriginType

LEMMA SingleType == ASSUME NEW r \in OrgType PROVE Single(r) \in OrgType
<1>1. 0 \in 0..MaxId
  BY MaxIdType
<1>2. QED
  BY <1>1 DEF Single, OrgType

LEMMA QuietType == ASSUME NEW r \in OrgType PROVE Quiet(r) \in OrgType
BY DEF Quiet, OrgType

LEMMA ClampOffType == ASSUME NEW d \in Nat PROVE ClampOff(d) \in Nat
BY ConfigAssumption DEF ClampOff

LEMMA AgeRateType == ASSUME NEW r \in OrgType PROVE AgeRate(r) \in Nat
BY ConfigAssumption DEF AgeRate, OrgType

LEMMA AccountedType ==
    ASSUME NEW r \in OrgType, tick \in Nat
    PROVE  Accounted(r) \in OrgType
<1>1. AgeRate(r) \in Nat
  BY AgeRateType
<1>2. /\ r.age + 1 \in Nat /\ r.bio + AgeRate(r) \in Nat
      /\ r.reward + AgeRate(r) \in Nat /\ r.lastAwake \in Nat
  BY <1>1 DEF OrgType
<1>3. QED
  BY <1>2, Zenon DEF Accounted, OrgType

(***************************************************************************)
(* Types of the operators that change the world                            *)
(***************************************************************************)
LEMMA CancelInType ==
    ASSUME NEW f \in Orgs, NEW o \in Ids
    PROVE  CancelIn(f, o) \in Orgs
BY SingleType DEF CancelIn, Orgs

LEMMA CancelTallyType ==
    ASSUME NEW f, NEW c \in TallyType, NEW o
    PROVE  CancelTally(f, c, o) \in TallyType
<1>1. c.active - 1 \in Int /\ 0 \in Int /\ c.failed + 1 \in Nat
  BY DEF TallyType
<1>2. QED
  BY <1>1, Zenon DEF CancelTally, TallyType

LEMMA SwapDeleteType ==
    ASSUME NEW s \in Seq(Ids), NEW k \in 1..Len(s)
    PROVE  SwapDelete(s, k) \in Seq(Ids) /\ Len(SwapDelete(s, k)) = Len(s) - 1
BY DEF SwapDelete

LEMMA CountedType ==
    ASSUME NEW m \in MovesType, NEW from, NEW to
    PROVE  Counted(m, from, to) \in MovesType
<1>1. CounterMax \in Nat
  BY ConfigAssumption
<1>2. \A n \in 0..CounterMax : \A b : Saturating(n, b) \in 0..CounterMax
  BY <1>1 DEF Saturating
<1>3. CASE m.total # CounterMax
  <2>1. m.total + 1 \in 0..CounterMax
    BY <1>1, <1>3 DEF MovesType
  <2>2. QED
    BY <1>2, <1>3, <2>1 DEF Counted, MovesType
<1>4. QED
  BY <1>3 DEF Counted

LEMMA TransitionInType ==
    ASSUME NEW f \in Orgs, NEW o \in Ids, NEW to \in LifeStates, NEW d \in Nat,
           tick \in Nat
    PROVE  TransitionIn(f, o, to, d) \in Orgs
<1>1. CASE to = "AWAKE"
  <2>1. f[o] \in OrgType
    BY DEF Orgs
  <2>2. [f[o] EXCEPT !.state = to, !.backOn = 0, !.lastAwake = tick] \in OrgType
    BY <1>1, <2>1 DEF OrgType, LifeStates
  <2>3. QED
    BY <1>1, <2>2 DEF TransitionIn, Orgs
<1>2. CASE to # "AWAKE"
  <2> DEFINE g == CancelIn(f, o)
             t == IF to = "OFF" THEN tick + ClampOff(d) ELSE 0
             r == [g[o] EXCEPT !.state = to, !.backOn = t]
  <2>1. g \in Orgs /\ t \in Nat
    BY CancelInType, ClampOffType
  <2>2. g[o] \in OrgType
    BY <2>1 DEF Orgs
  <2> HIDE DEF g, t
  <2>3. r \in OrgType
    BY <2>1, <2>2 DEF OrgType, LifeStates
  <2>4. TransitionIn(f, o, to, d) = [g EXCEPT ![o] = Quiet(r)]
    BY <1>2, <2>1 DEF TransitionIn, Orgs, g, t
  <2>5. QED
    BY <2>1, <2>3, <2>4, QuietType DEF Orgs
<1>3. QED
  BY <1>1, <1>2

LEMMA TransitionTallyType ==
    ASSUME NEW f, NEW c \in TallyType, NEW o, NEW to
    PROVE  TransitionTally(f, c, o, to) \in TallyType
BY CancelTallyType DEF TransitionTally

\* What the network update touches, and what it leaves alone.
LEMMA UpdatedType ==
    ASSUME NEW r \in OrgType, NEW v \in Outcomes
    PROVE  Updated(r, v) \in OrgType
<1>1. v.sound \in BOOLEAN
  BY DEF Outcomes
<1>2. r.executions + 1 \in Nat /\ Saturating(r.changes, v.learnt) \in Nat
  BY DEF OrgType, Saturating
<1>3. QED
  BY <1>1, <1>2, Zenon DEF Updated, OrgType

LEMMA AwakeRunType ==
    ASSUME org \in Orgs, NEW o \in Ids, NEW consents \in BOOLEAN, NEW v \in Outcomes
    PROVE  AwakeRun(o, consents, v) \in Orgs
<1>1. Updated(org[o], v) \in OrgType
  BY UpdatedType DEF Orgs
<1>2. [Updated(org[o], v) EXCEPT !.consent = consents, !.sent = TRUE] \in OrgType
  BY <1>1, Zenon DEF OrgType
<1>3. QED
  BY <1>2 DEF AwakeRun, Orgs

LEMMA AsleepRunType ==
    ASSUME org \in Orgs, NEW o \in Ids, NEW v \in Outcomes
    PROVE  AsleepRun(o, v) \in Orgs
<1>1. Quiet(org[o]) \in OrgType
  BY QuietType DEF Orgs
<1>2. Updated(Quiet(org[o]), v) \in OrgType
  BY <1>1, UpdatedType
<1>3. QED
  BY <1>2 DEF AsleepRun, Orgs

LEMMA AttemptedType ==
    ASSUME org \in Orgs, NEW a, NEW b
    PROVE  Attempted(a, b) \in Orgs
<1>1. \A x \in Ids : org[x] \in OrgType
  BY DEF Orgs
<1>2. \A x \in Ids : org[x].attempts + 1 \in Nat
  BY <1>1 DEF OrgType
<1>3. ASSUME NEW x \in Ids PROVE [org[x] EXCEPT !.attempts = @ + 1] \in OrgType
  <2>1. org[x] \in OrgType /\ org[x].attempts + 1 \in Nat
    BY <1>1, <1>2
  <2>2. QED
    BY <2>1, Zenon DEF OrgType
<1>4. QED
  BY <1>1, <1>3 DEF Attempted, Orgs

LEMMA ProgressedType ==
    ASSUME org \in Orgs, NEW o \in Ids
    PROVE  Progressed(o) \in Orgs
<1>1. \A x \in Ids : org[x] \in OrgType
  BY DEF Orgs
<1>2. org[o].progress + 1 \in Nat
  BY <1>1 DEF OrgType
<1>3. ASSUME NEW x \in Ids
      PROVE  [org[x] EXCEPT !.hears = TRUE, !.progress = org[o].progress + 1] \in OrgType
  <2>1. org[x] \in OrgType
    BY <1>1
  <2>2. QED
    BY <1>2, <2>1, Zenon DEF OrgType
<1>4. QED
  BY <1>1, <1>3 DEF Progressed, Orgs

LEMMA CompletedType ==
    ASSUME org \in Orgs, NEW o \in Ids, org[o].partner \in Ids, NEW born \in BOOLEAN,
           NEW m \in Mutations, tick \in Nat, date \in Dates
    PROVE  Completed(o, born, m) \in Orgs
<1>1. \A x \in Ids : org[x] \in OrgType /\ Single(org[x]) \in OrgType
  BY SingleType DEF Orgs
<1>2. \A x \in Ids : Single(org[x]).wins + (IF born THEN 1 ELSE 0) \in Nat
  BY <1>1 DEF OrgType
<1>3. ASSUME NEW x \in Ids
      PROVE  [Single(org[x]) EXCEPT !.wins = @ + (IF born THEN 1 ELSE 0)] \in OrgType
  <2>1. /\ Single(org[x]) \in OrgType
        /\ Single(org[x]).wins + (IF born THEN 1 ELSE 0) \in Nat
    BY <1>1, <1>2
  <2>2. QED
    BY <2>1, Zenon DEF OrgType
<1>4. QED
  BY <1>1, <1>3, NewbornType, DescentType DEF Completed, Orgs

\* The parts of the world that an organism's removal changes.
LEMMA RemoveAtType ==
    ASSUME slots \in Seq(Ids), NEW f \in Orgs, NEW c \in TallyType,
           NEW k \in DOMAIN slots, RemoveAt(f, c, k)
    PROVE  org' \in Orgs /\ tally' \in TallyType /\ slots' \in Seq(Ids)
<1>1. k \in 1..Len(slots) /\ slots[k] \in Ids
  OBVIOUS
<1>2. CancelIn(f, slots[k]) \in Orgs /\ CancelTally(f, c, slots[k]) \in TallyType
  BY <1>1, CancelInType, CancelTallyType
<1>3. org' \in Orgs
  BY <1>2, NobodyType DEF RemoveAt, Orgs
<1>4. CancelTally(f, c, slots[k]).deaths + 1 \in Nat
  BY <1>2 DEF TallyType
<1>5. tally' \in TallyType
  BY <1>2, <1>4, Zenon DEF RemoveAt, TallyType
<1>6. QED
  BY <1>1, <1>3, <1>5, SwapDeleteType DEF RemoveAt

LEMMA SettleType ==
    ASSUME slots \in Seq(Ids), idx \in DOMAIN slots, seen \in SUBSET Ids,
           NEW o \in Ids, NEW f \in Orgs, NEW c \in TallyType, Settle(o, f, c)
    PROVE  /\ org' \in Orgs /\ tally' \in TallyType /\ slots' \in Seq(Ids)
           /\ idx' \in Nat \ {0} /\ seen' \in SUBSET Ids
<1>1. CASE LoopValid(f[o])
  BY <1>1 DEF Settle
<1>2. CASE ~LoopValid(f[o])
  BY <1>2, RemoveAtType DEF Settle
<1>3. QED
  BY <1>1, <1>2

LEMMA TransitionType ==
    ASSUME org \in Orgs, tally \in TallyType, moves \in MovesType, tick \in Nat,
           NEW o \in Ids, NEW to \in LifeStates, NEW d \in Nat,
           Transition(o, to, d)
    PROVE  org' \in Orgs /\ tally' \in TallyType /\ moves' \in MovesType
BY TransitionInType, TransitionTallyType, CountedType DEF Transition

LEMMA TryBirthType ==
    ASSUME org \in Orgs, tally \in TallyType, NEW a \in Ids, NEW b \in Ids,
           NEW granted, TryBirth(a, b, granted)
    PROVE  org' \in Orgs /\ tally' \in TallyType
<1> DEFINE f == Attempted(a, b)
<1>1. f \in Orgs
  BY AttemptedType
<1>2. CASE granted /\ MayPair(a, b)
  <2>1. ASSUME NEW x \in Ids, NEW p \in Ids
        PROVE  [f[x] EXCEPT !.partner = p, !.progress = 0] \in OrgType
    <3>1. f[x] \in OrgType /\ p \in 0..MaxId /\ 0 \in Nat
      BY <1>1, MaxIdType DEF Orgs, Ids
    <3>2. QED
      BY <3>1, Zenon DEF OrgType
  <2>2. org' = [f EXCEPT ![a] = [f[a] EXCEPT !.partner = b, !.progress = 0],
                         ![b] = [f[b] EXCEPT !.partner = a, !.progress = 0]]
    BY <1>1, <1>2 DEF TryBirth, MayPair, Orgs
  <2>3. tally.active + 1 \in Int /\ tally.started + 1 \in Nat
    BY DEF TallyType
  <2>4. tally' \in TallyType
    BY <1>2, <2>3, Zenon DEF TryBirth, TallyType
  <2>5. QED
    BY <1>1, <2>1, <2>2, <2>4 DEF Orgs
<1>3. CASE ~(granted /\ MayPair(a, b))
  BY <1>1, <1>3 DEF TryBirth
<1>4. QED
  BY <1>2, <1>3

(***************************************************************************)
(* Type correctness                                                        *)
(***************************************************************************)
LEMMA SeedsInit ==
    Init => /\ org = [x \in Ids |-> org[x]]
            /\ \A x \in Ids : IF x <= 2 THEN \E m \in 0..GenomeCount : org[x] = Newborn(0, Seed(m))
                              ELSE org[x] = Nobody
<1> SUFFICES ASSUME Init
             PROVE  /\ org = [x \in Ids |-> org[x]]
                    /\ \A x \in Ids : IF x <= 2 THEN \E m \in 0..GenomeCount : org[x] = Newborn(0, Seed(m))
                                      ELSE org[x] = Nobody
  OBVIOUS
<1>1. PICK n \in 1..GenomeCount :
        org = [o \in Ids |-> IF o <= 2 THEN Newborn(0, Seed(IF o = 1 THEN 0 ELSE n)) ELSE Nobody]
  BY DEF Init
<1>2. \A x : (IF x = 1 THEN 0 ELSE n) \in 0..GenomeCount
  BY ConfigAssumption
<1>3. QED
  BY <1>1, <1>2

LEMMA TypeInit == Init => TypeOK
<1> SUFFICES ASSUME Init PROVE TypeOK
  OBVIOUS
<1>1. org \in Orgs
  <2>1. ASSUME NEW x \in Ids PROVE org[x] \in OrgType
    BY SeedsInit, SeedType, NobodyType, NewbornType
  <2>2. QED
    BY <2>1, SeedsInit DEF Orgs
<1>2. slots \in Seq(Ids) /\ nextId \in 3..(MaxId + 1) /\ firstNew \in 0..(MaxId + 1)
  BY MaxIdType DEF Init, Ids
<1>3. tally \in TallyType /\ moves \in MovesType
  BY ConfigAssumption DEF Init, TallyType, MovesType
<1>4. date \in Dates /\ DateValid(date) /\ calls \in 0..HostCalls
  BY ConfigAssumption, BoundsAssumption DEF Init
<1>5. tick \in Nat /\ pc \in Phases /\ idx \in Nat \ {0} /\ seen \in SUBSET Ids
  BY DEF Init, Phases, TickPhases
<1>6. QED
  BY <1>1, <1>2, <1>3, <1>4, <1>5 DEF TypeOK

\* The phases of a tick that only pass the control on.
Passes ==
    \/ CalendarEnds \/ RunEnds \/ TimersDone \/ FoolsDayDone \/ DormancyDone
    \/ ExecutionDone \/ CourtshipsDone \/ BirthFits \/ PopulationFits
    \/ PairingDone \/ Periodic

LEMMA PassesLeavesWorld == Passes => UNCHANGED <<world, clock, calls>>
BY DEF Passes, CalendarEnds, RunEnds, TimersDone, FoolsDayDone, DormancyDone,
       ExecutionDone, CourtshipsDone, BirthFits, PopulationFits, PairingDone, Periodic

LEMMA TypePasses == TypeOK /\ Passes => TypeOK'
<1> SUFFICES ASSUME TypeOK, Passes PROVE TypeOK'
  OBVIOUS
<1>1. UNCHANGED <<org, slots, nextId, tally, moves, tick, date, calls>>
  BY PassesLeavesWorld DEF world, clock
<1>2. /\ pc' \in Phases /\ idx' \in Nat \ {0} /\ seen' \in SUBSET Ids
      /\ firstNew' \in 0..(MaxId + 1)
  BY MaxIdType
     DEF TypeOK, Phases, TickPhases, Goto, Passes, CalendarEnds, RunEnds, TimersDone,
         FoolsDayDone, DormancyDone, ExecutionDone, CourtshipsDone, BirthFits,
         PopulationFits, PairingDone, Periodic
<1>3. QED
  BY <1>1, <1>2 DEF TypeOK

\* What the scans before execution and the execution loop do to the types.
LEMMA TypeScans ==
    TypeOK /\ (ReturnFromOff \/ FoolAwake \/ FoolAsleep \/ DormancyTimeout) => TypeOK'
<1> SUFFICES ASSUME TypeOK, ReturnFromOff \/ FoolAwake \/ FoolAsleep \/ DormancyTimeout
             PROVE  TypeOK'
  OBVIOUS
<1> USE DEF TypeOK
<1>1. CASE ReturnFromOff
  <2>1. PICK j \in Expired : Transition(slots[j], "ASLEEP", 0) /\ idx' = j + 1
    BY <1>1 DEF ReturnFromOff
  <2>2. j \in DOMAIN slots /\ slots[j] \in Ids /\ j + 1 \in Nat \ {0}
    BY DEF Expired, Here
  <2>3. org' \in Orgs /\ tally' \in TallyType /\ moves' \in MovesType
    BY <2>1, <2>2, TransitionType DEF LifeStates
  <2>4. QED
    BY <1>1, <2>1, <2>2, <2>3 DEF ReturnFromOff, clock
<1>2. CASE FoolAwake
  <2>1. PICK j \in Judged : RemoveAt(org, tally, j) /\ idx' = j
    BY <1>2 DEF FoolAwake
  <2>2. j \in DOMAIN slots /\ j \in Nat \ {0}
    BY DEF Judged, Here
  <2>3. org' \in Orgs /\ tally' \in TallyType /\ slots' \in Seq(Ids)
    BY <2>1, <2>2, RemoveAtType
  <2>4. QED
    BY <1>2, <2>1, <2>2, <2>3 DEF FoolAwake, clock
<1>3. CASE FoolAsleep
  <2>1. PICK j \in Judged, survived \in BOOLEAN :
            LET rolled == [org EXCEPT ![slots[j]].roll = date.year] IN
            IF survived
            THEN org' = rolled /\ idx' = j + 1 /\ UNCHANGED <<slots, tally>>
            ELSE RemoveAt(rolled, tally, j) /\ idx' = j
    BY <1>3 DEF FoolAsleep
  <2> DEFINE rolled == [org EXCEPT ![slots[j]].roll = date.year]
  <2>2. j \in DOMAIN slots /\ slots[j] \in Ids /\ j \in Nat \ {0} /\ j + 1 \in Nat \ {0}
    BY DEF Judged, Here
  <2>3. org[slots[j]] \in OrgType /\ date.year \in 0..LastYear
    BY <2>2, LastYearType DEF Orgs, Dates
  <2>4. [org[slots[j]] EXCEPT !.roll = date.year] \in OrgType
    BY <2>3, Zenon DEF OrgType
  <2>5. rolled \in Orgs
    BY <2>2, <2>4 DEF Orgs
  <2>6. /\ org' \in Orgs /\ tally' \in TallyType /\ slots' \in Seq(Ids)
        /\ idx' \in Nat \ {0}
    <3> HIDE DEF rolled
    <3>1. CASE survived
      BY <2>1, <2>2, <2>5, <3>1 DEF rolled
    <3>2. CASE ~survived
      <4>1. RemoveAt(rolled, tally, j) /\ idx' = j
        BY <2>1, <3>2 DEF rolled
      <4>2. QED
        BY <2>2, <2>5, <4>1, RemoveAtType
    <3>3. QED
      BY <3>1, <3>2
  <2>7. QED
    BY <1>3, <2>6 DEF FoolAsleep, clock
<1>4. CASE DormancyTimeout
  <2>1. PICK j \in Dormant : RemoveAt(org, tally, j) /\ idx' = j
    BY <1>4 DEF DormancyTimeout
  <2>2. j \in DOMAIN slots /\ j \in Nat \ {0}
    BY DEF Dormant, Here
  <2>3. org' \in Orgs /\ tally' \in TallyType /\ slots' \in Seq(Ids)
    BY <2>1, <2>2, RemoveAtType
  <2>4. QED
    BY <1>4, <2>1, <2>2, <2>3 DEF DormancyTimeout, clock
<1>5. QED
  BY <1>1, <1>2, <1>3, <1>4

LEMMA LivingType == Living \subseteq Ids
BY DEF Living

Executes == ExecuteOff \/ StayAwake \/ FallAsleep \/ Doze \/ SwitchOff \/ WakeUp

\* An organism at work becomes f[o] and is settled, or is removed outright.
LEMMA TypeExecutes == TypeOK /\ (Executes \/ InvalidDies) => TypeOK'
<1> SUFFICES ASSUME TypeOK, Executes \/ InvalidDies
             PROVE  TypeOK'
  OBVIOUS
<1> USE DEF TypeOK
<1>1. ASSUME NEW o \in Living, NEW state, AtWork(o, state), NEW f \in Orgs,
             NEW c \in TallyType, Settle(o, f, c), ExecuteRest, moves' \in MovesType
      PROVE  TypeOK'
  <2>1. idx \in DOMAIN slots /\ o \in Ids
    BY <1>1, LivingType DEF AtWork
  <2>2. /\ org' \in Orgs /\ tally' \in TallyType /\ slots' \in Seq(Ids)
        /\ idx' \in Nat \ {0} /\ seen' \in SUBSET Ids
    BY <1>1, <2>1, SettleType
  <2>3. QED
    BY <1>1, <2>2 DEF ExecuteRest, clock
<1>2. CASE InvalidDies
  <2>1. idx \in DOMAIN slots /\ slots[idx] \in Ids /\ RemoveAt(org, tally, idx)
    BY <1>2 DEF InvalidDies
  <2>2. org' \in Orgs /\ tally' \in TallyType /\ slots' \in Seq(Ids)
    BY <2>1, RemoveAtType
  <2>3. QED
    BY <1>2, <2>1, <2>2 DEF InvalidDies, ExecuteRest, clock
<1>3. CASE ExecuteOff
  <2>1. PICK o \in Living : /\ AtWork(o, "OFF")
                            /\ Settle(o, [org EXCEPT ![o].sent = FALSE], tally)
                            /\ UNCHANGED moves /\ ExecuteRest
    BY <1>3 DEF ExecuteOff
  <2>2. [org[o] EXCEPT !.sent = FALSE] \in OrgType
    <3>1. org[o] \in OrgType
      BY LivingType DEF Orgs
    <3>2. QED
      BY <3>1, Zenon DEF OrgType
  <2>3. [org EXCEPT ![o].sent = FALSE] \in Orgs
    BY <2>2 DEF Orgs
  <2>4. QED
    BY <1>1, <2>1, <2>3
<1>4. CASE StayAwake
  <2>1. PICK o \in Living, b \in Behaviours \cap {"court", "rest"}, v \in Outcomes :
            /\ AtWork(o, "AWAKE")
            /\ Settle(o, AwakeRun(o, b = "court", v), tally)
            /\ UNCHANGED moves /\ ExecuteRest
    BY <1>4 DEF StayAwake
  <2>2. AwakeRun(o, b = "court", v) \in Orgs
    BY AwakeRunType, LivingType
  <2>3. QED
    BY <1>1, <2>1, <2>2
<1>5. CASE FallAsleep
  <2>1. PICK o \in Living, v \in Outcomes :
            /\ AtWork(o, "AWAKE")
            /\ Settle(o, TransitionIn(AwakeRun(o, FALSE, v), o, "ASLEEP", 0),
                         TransitionTally(AwakeRun(o, FALSE, v), tally, o, "ASLEEP"))
            /\ moves' = Counted(moves, "AWAKE", "ASLEEP")
            /\ ExecuteRest
    BY <1>5 DEF FallAsleep
  <2>2. AwakeRun(o, FALSE, v) \in Orgs
    BY AwakeRunType, LivingType
  <2>3. /\ TransitionIn(AwakeRun(o, FALSE, v), o, "ASLEEP", 0) \in Orgs
        /\ TransitionTally(AwakeRun(o, FALSE, v), tally, o, "ASLEEP") \in TallyType
        /\ moves' \in MovesType
    BY <2>1, <2>2, TransitionInType, TransitionTallyType, CountedType, LivingType
       DEF LifeStates
  <2>4. QED
    BY <1>1, <2>1, <2>3
<1>6. CASE Doze
  <2>1. PICK o \in Living, v \in Outcomes :
            /\ AtWork(o, "ASLEEP")
            /\ Settle(o, AsleepRun(o, v), tally)
            /\ UNCHANGED moves /\ ExecuteRest
    BY <1>6 DEF Doze
  <2>2. AsleepRun(o, v) \in Orgs
    BY AsleepRunType, LivingType
  <2>3. QED
    BY <1>1, <2>1, <2>2
<1>7. CASE SwitchOff
  <2>1. PICK o \in Living, v \in Outcomes, d \in OffMin..OffMax :
            /\ AtWork(o, "ASLEEP")
            /\ Settle(o, TransitionIn(AsleepRun(o, v), o, "OFF", d),
                         TransitionTally(AsleepRun(o, v), tally, o, "OFF"))
            /\ moves' = Counted(moves, "ASLEEP", "OFF")
            /\ ExecuteRest
    BY <1>7 DEF SwitchOff
  <2>2. AsleepRun(o, v) \in Orgs /\ d \in Nat
    BY AsleepRunType, LivingType, ConfigAssumption
  <2>3. /\ TransitionIn(AsleepRun(o, v), o, "OFF", d) \in Orgs
        /\ TransitionTally(AsleepRun(o, v), tally, o, "OFF") \in TallyType
        /\ moves' \in MovesType
    BY <2>1, <2>2, TransitionInType, TransitionTallyType, CountedType, LivingType
       DEF LifeStates
  <2>4. QED
    BY <1>1, <2>1, <2>3
<1>8. CASE WakeUp
  <2>1. PICK o \in Living, v \in Outcomes :
            /\ AtWork(o, "ASLEEP")
            /\ IF IsFoolsDay(date)
               THEN /\ RemoveAt(TransitionIn(AsleepRun(o, v), o, "AWAKE", 0), tally, idx)
                    /\ seen' = seen \cup {o}
                    /\ UNCHANGED idx
               ELSE Settle(o, TransitionIn(AsleepRun(o, v), o, "AWAKE", 0), tally)
            /\ moves' = Counted(moves, "ASLEEP", "AWAKE")
            /\ ExecuteRest
    BY <1>8 DEF WakeUp
  <2> DEFINE woken == TransitionIn(AsleepRun(o, v), o, "AWAKE", 0)
  <2>2. AsleepRun(o, v) \in Orgs
    BY AsleepRunType, LivingType
  <2>3. woken \in Orgs /\ moves' \in MovesType
    BY <2>1, <2>2, TransitionInType, CountedType, LivingType DEF LifeStates
  <2>4. CASE IsFoolsDay(date)
    <3>1. idx \in DOMAIN slots /\ o \in Ids
      BY <2>1, LivingType DEF AtWork
    <3>2. /\ RemoveAt(woken, tally, idx) /\ seen' = seen \cup {o} /\ UNCHANGED idx
          /\ ExecuteRest
      BY <2>1, <2>4
    <3>3. org' \in Orgs /\ tally' \in TallyType /\ slots' \in Seq(Ids)
      <4> HIDE DEF woken
      <4>1. QED
        BY <2>3, <3>1, <3>2, RemoveAtType
    <3>4. QED
      BY <2>3, <3>1, <3>2, <3>3 DEF ExecuteRest, clock
  <2>5. CASE ~IsFoolsDay(date)
    BY <1>1, <2>1, <2>3, <2>5
  <2>6. QED
    BY <2>4, <2>5
<1>9. QED
  BY <1>2, <1>3, <1>4, <1>5, <1>6, <1>7, <1>8 DEF Executes

Courts == CourtshipFails \/ CourtshipGoesOn \/ CourtshipEnds

LEMMA TypeCourts == TypeOK /\ Courts => TypeOK'
<1> SUFFICES ASSUME TypeOK, Courts PROVE TypeOK'
  OBVIOUS
<1> USE DEF TypeOK
<1>1. ASSUME NEW j \in Leaders, NEW o \in Living, Met(o, j)
      PROVE  j \in DOMAIN slots /\ o \in Ids /\ idx' \in Nat \ {0} /\ seen' \in SUBSET Ids
  BY <1>1, LivingType DEF Leaders, Here, Met
<1>2. CASE CourtshipFails
  <2>1. PICK j \in Leaders, o \in Living :
            /\ Met(o, j)
            /\ org' = CancelIn(org, o) /\ tally' = CancelTally(org, tally, o)
    BY <1>2 DEF CourtshipFails
  <2>2. org' \in Orgs /\ tally' \in TallyType
    BY <2>1, CancelInType, CancelTallyType, LivingType
  <2>3. QED
    BY <1>1, <1>2, <2>1, <2>2 DEF CourtshipFails, clock
<1>3. CASE CourtshipGoesOn
  <2>1. PICK j \in Leaders, o \in Living : Met(o, j) /\ org' = Progressed(o)
    BY <1>3 DEF CourtshipGoesOn
  <2>2. org' \in Orgs
    BY <2>1, ProgressedType, LivingType
  <2>3. QED
    BY <1>1, <1>3, <2>1, <2>2 DEF CourtshipGoesOn, clock
<1>4. CASE CourtshipEnds
  <2>1. PICK j \in Leaders, o \in Living, born \in BOOLEAN, m \in Mutations :
            /\ Met(o, j) /\ MayCourt(o)
            /\ born => nextId <= MaxId
            /\ org' = Completed(o, born, m)
            /\ slots' = IF born THEN Append(slots, nextId) ELSE slots
            /\ nextId' = IF born THEN nextId + 1 ELSE nextId
            /\ tally' = LET n == IF born THEN 1 ELSE 0 IN
                        [tally EXCEPT !.active = @ - 1, !.completed = @ + 1,
                                      !.births = @ + n, !.offspring = @ + n]
            /\ pc' = IF born THEN "birthEvict" ELSE pc
    BY <1>4 DEF CourtshipEnds
  <2>2. org' \in Orgs
    BY <2>1, CompletedType, LivingType DEF MayCourt, Reciprocal
  <2>3. tally' \in TallyType
    <3> DEFINE n == IF born THEN 1 ELSE 0
    <3>1. /\ tally.active - 1 \in Int /\ tally.completed + 1 \in Nat
          /\ tally.births + n \in Nat /\ tally.offspring + n \in Nat
      BY DEF TallyType
    <3>2. tally' = [tally EXCEPT !.active = @ - 1, !.completed = @ + 1,
                                 !.births = @ + n, !.offspring = @ + n]
      BY <2>1
    <3> HIDE DEF n
    <3>3. QED
      BY <3>1, <3>2, Zenon DEF TallyType
  <2>4. nextId' \in 3..(MaxId + 1) /\ slots' \in Seq(Ids)
    <3>1. CASE born
      <4>1. nextId \in Ids
        BY <2>1, <3>1 DEF Ids
      <4>2. QED
        BY <2>1, <3>1, <4>1, MaxIdType DEF Ids
    <3>2. CASE ~born
      BY <2>1, <3>2
    <3>3. QED
      BY <3>1, <3>2
  <2>5. pc' \in Phases
    BY <2>1 DEF Phases, TickPhases
  <2>6. QED
    BY <1>1, <1>4, <2>1, <2>2, <2>3, <2>4, <2>5 DEF CourtshipEnds, clock
<1>5. QED
  BY <1>2, <1>3, <1>4 DEF Courts

LEMMA TypeRest ==
    TypeOK /\ (StartTick \/ Deliver \/ EvictOldest \/ Pair \/ Account) => TypeOK'
<1> SUFFICES ASSUME TypeOK, StartTick \/ Deliver \/ EvictOldest \/ Pair \/ Account
             PROVE  TypeOK'
  OBVIOUS
<1> USE DEF TypeOK
<1>0. /\ \A phase : phase \in Phases /\ Goto(phase) =>
                pc' \in Phases /\ idx' \in Nat \ {0} /\ seen' \in SUBSET Ids
      /\ {"timers", "courtship", "periodic"} \subseteq Phases
  BY DEF Goto, Phases, TickPhases
<1>1. CASE StartTick
  <2>1. date' \in Dates /\ DateValid(date')
    BY <1>1, NextDateValid DEF StartTick
  <2>2. QED
    BY <1>0, <1>1, <2>1 DEF StartTick, world
<1>2. CASE Deliver
  <2>1. ASSUME NEW o \in Ids PROVE [org[o] EXCEPT !.inbox = InboxOf(o)] \in OrgType
    <3>1. org[o] \in OrgType /\ InboxOf(o) \in SUBSET Ids
      BY LivingType DEF Orgs, InboxOf, Senders
    <3>2. QED
      BY <3>1, Zenon DEF OrgType
  <2>2. org' \in Orgs
    BY <1>2, <2>1 DEF Deliver, Orgs
  <2>3. QED
    BY <1>0, <1>2, <2>2 DEF Deliver, clock
<1>3. CASE EvictOldest
  <2>1. PICK j \in DOMAIN slots : RemoveAt(org, tally, j)
    BY <1>3 DEF EvictOldest
  <2>2. org' \in Orgs /\ tally' \in TallyType /\ slots' \in Seq(Ids)
    BY <2>1, RemoveAtType
  <2>3. QED
    BY <1>3, <2>2 DEF EvictOldest, clock, control
<1>4. CASE Pair
  <2>1. PICK a, b \in Living : TryBirth(a, b, TRUE)
    BY <1>4 DEF Pair
  <2>2. org' \in Orgs /\ tally' \in TallyType
    BY <2>1, TryBirthType, LivingType
  <2>3. QED
    BY <1>4, <2>2 DEF Pair, clock, control
<1>5. CASE Account
  <2>1. ASSUME NEW o \in Ids PROVE org[o] \in OrgType /\ Accounted(org[o]) \in OrgType
    BY AccountedType DEF Orgs
  <2>2. org' \in Orgs
    BY <1>5, <2>1 DEF Account, Orgs
  <2>3. QED
    BY <1>0, <1>5, <2>2 DEF Account
<1>6. QED
  BY <1>1, <1>2, <1>3, <1>4, <1>5

LEMMA TypeHost == TypeOK /\ Host => TypeOK'
<1> SUFFICES ASSUME TypeOK, Host PROVE TypeOK'
  OBVIOUS
<1> USE DEF TypeOK
<1>1. HostCall => calls' \in 0..HostCalls
  BY BoundsAssumption DEF HostCall
<1>2. CASE HostTransition
  <2>1. PICK o \in Living, to \in LifeStates, d \in {0, OffMax + 1} : Transition(o, to, d)
    BY <1>2 DEF HostTransition
  <2>2. d \in Nat
    BY ConfigAssumption
  <2>3. org' \in Orgs /\ tally' \in TallyType /\ moves' \in MovesType
    BY <2>1, <2>2, TransitionType, LivingType
  <2>4. QED
    BY <1>1, <1>2, <2>3 DEF HostTransition, HostCall, clock, control
<1>3. CASE HostTryBirth
  <2>1. PICK a, b \in Ids, granted \in BOOLEAN : TryBirth(a, b, granted)
    BY <1>3 DEF HostTryBirth
  <2>2. org' \in Orgs /\ tally' \in TallyType
    BY <2>1, TryBirthType
  <2>3. QED
    BY <1>1, <1>3, <2>2 DEF HostTryBirth, HostCall, clock, control
<1>4. CASE HostSpoils
  <2>1. PICK o \in Living : org' = [org EXCEPT ![o].sound = FALSE]
    BY <1>4 DEF HostSpoils
  <2>2. [org[o] EXCEPT !.sound = FALSE] \in OrgType
    <3>1. org[o] \in OrgType
      BY LivingType DEF Orgs
    <3>2. QED
      BY <3>1, Zenon DEF OrgType
  <2>3. org' \in Orgs
    BY <2>1, <2>2 DEF Orgs
  <2>4. QED
    BY <1>1, <1>4, <2>3 DEF HostSpoils, HostCall, clock, control
<1>5. QED
  BY <1>2, <1>3, <1>4 DEF Host

LEMMA TypeStep == TypeOK /\ [Next]_vars => TypeOK'
<1>1. TypeOK /\ UNCHANGED vars => TypeOK'
  BY DEF TypeOK, vars, world, clock, control
<1>2. Terminated => UNCHANGED vars
  BY DEF Terminated
<1>3. QED
  BY <1>1, <1>2, TypePasses, TypeScans, TypeExecutes, TypeCourts, TypeRest, TypeHost
     DEF Next, Step, Passes, Executes, Courts

\* Type correctness: in every configuration each field of the world keeps
\* its type, the array holds ids, and every date is one the loader accepts.
THEOREM TypeCorrect == Spec => []TypeOK
BY TypeInit, TypeStep, PTL DEF Spec

(***************************************************************************)
(* The population array holds exactly the living organisms, each once, and *)
(* ids, births, deaths and the array length agree.  Each step that is not  *)
(* a birth either keeps the living or removes one slot from the array; the *)
(* three kinds are treated once each.                                      *)
(***************************************************************************)

\* Organisms f live where those of the world do; counters c agree with the
\* world's on births and deaths.
SameLiving(f) == \A x \in Ids : f[x].state # "NONE" <=> Lives(x)
SameCounts(c) ==
    c.births = tally.births /\ c.deaths = tally.deaths /\ c.offspring = tally.offspring

PopulationInv == TypeOK /\ ArrayHoldsTheLiving /\ PopulationBalances

Keeps == SameLiving(org') /\ SameCounts(tally') /\ UNCHANGED <<slots, nextId>>

Removes ==
    /\ \E f \in Orgs, c \in TallyType, k \in DOMAIN slots :
            SameLiving(f) /\ SameCounts(c) /\ RemoveAt(f, c, k)
    /\ UNCHANGED nextId

Distinct(s) == \A i, j \in DOMAIN s : s[i] = s[j] => i = j
Elements(s) == {s[i] : i \in DOMAIN s}

(***************************************************************************)
(* The operators                                                           *)
(***************************************************************************)
\* Moving the last element into the hole removes the one that was there
\* and keeps the elements distinct.
LEMMA SwapDeleteElements ==
    ASSUME NEW s \in Seq(Ids), NEW k \in DOMAIN s, Distinct(s)
    PROVE  /\ Distinct(SwapDelete(s, k))
           /\ Elements(SwapDelete(s, k)) = Elements(s) \ {s[k]}
<1> DEFINE t == SwapDelete(s, k)
           n == Len(s)
<1>1. /\ n \in Nat /\ k \in 1..n /\ DOMAIN s = 1..n /\ DOMAIN t = 1..(n - 1)
      /\ \A i \in 1..(n - 1) : t[i] = IF i = k THEN s[n] ELSE s[i]
  BY DEF SwapDelete
<1>2. \A i, j \in DOMAIN s : s[i] = s[j] => i = j
  BY DEF Distinct
<1> HIDE DEF t, n
<1>3. Distinct(t)
  BY <1>1, <1>2 DEF Distinct
<1>4. ASSUME NEW i \in DOMAIN t PROVE t[i] \in Elements(s) \ {s[k]}
  BY <1>1, <1>2 DEF Elements
<1>5. ASSUME NEW j \in DOMAIN s, s[j] # s[k] PROVE s[j] \in Elements(t)
  <2>1. CASE j = n
    <3>1. k \in DOMAIN t /\ t[k] = s[j]
      BY <1>1, <1>5, <2>1
    <3>2. QED
      BY <3>1 DEF Elements
  <2>2. CASE j # n
    <3>1. j \in DOMAIN t /\ t[j] = s[j]
      BY <1>1, <1>5, <2>2
    <3>2. QED
      BY <3>1 DEF Elements
  <2>3. QED
    BY <2>1, <2>2
<1>6. QED
  BY <1>3, <1>4, <1>5 DEF Elements, t

LEMMA AppendElements ==
    ASSUME NEW s \in Seq(Ids), NEW e \in Ids, Distinct(s), e \notin Elements(s)
    PROVE  /\ Distinct(Append(s, e))
           /\ Elements(Append(s, e)) = Elements(s) \cup {e}
           /\ Len(Append(s, e)) = Len(s) + 1
<1> DEFINE t == Append(s, e)
           n == Len(s)
<1>1. /\ n \in Nat /\ DOMAIN s = 1..n /\ DOMAIN t = 1..(n + 1) /\ Len(t) = n + 1
      /\ \A i \in 1..n : t[i] = s[i]
      /\ t[n + 1] = e
  OBVIOUS
<1> HIDE DEF t, n
<1>2. Distinct(t)
  BY <1>1 DEF Distinct, Elements
<1>3. Elements(t) = Elements(s) \cup {e}
  BY <1>1 DEF Elements
<1>4. QED
  BY <1>1, <1>2, <1>3 DEF t, n

LEMMA SingleKeepsState == ASSUME NEW r \in OrgType PROVE Single(r).state = r.state
BY DEF Single, OrgType

LEMMA CancelKeepsState ==
    ASSUME NEW f \in Orgs, NEW o \in Ids, NEW x \in Ids
    PROVE  CancelIn(f, o)[x].state = f[x].state
BY SingleKeepsState DEF CancelIn, Orgs

LEMMA CancelKeepsCounts ==
    ASSUME NEW f, NEW c \in TallyType, NEW o
    PROVE  /\ CancelTally(f, c, o).births = c.births
           /\ CancelTally(f, c, o).deaths = c.deaths
           /\ CancelTally(f, c, o).offspring = c.offspring
BY DEF CancelTally, TallyType

LEMMA TransitionKeepsLiving ==
    ASSUME NEW f \in Orgs, NEW o \in Ids, NEW to \in LifeStates, NEW d,
           f[o].state # "NONE", SameLiving(f)
    PROVE  SameLiving(TransitionIn(f, o, to, d))
<1>1. to # "NONE"
  BY DEF LifeStates
<1>2. ASSUME NEW x \in Ids
      PROVE  /\ x # o => TransitionIn(f, o, to, d)[x].state = f[x].state
             /\ TransitionIn(f, o, to, d)[o].state = to
  <2>1. CancelIn(f, o) \in Orgs /\ CancelIn(f, o)[x].state = f[x].state
    BY CancelInType, CancelKeepsState
  <2>2. CASE to = "AWAKE"
    BY <2>2 DEF TransitionIn, Orgs, OrgType
  <2>3. CASE to # "AWAKE"
    BY <2>1, <2>3 DEF TransitionIn, Quiet, Orgs, OrgType
  <2>4. QED
    BY <2>2, <2>3
<1>3. QED
  BY <1>1, <1>2 DEF SameLiving

(***************************************************************************)
(* The three kinds of step                                                 *)
(***************************************************************************)
LEMMA KeepsInv == PopulationInv /\ Keeps /\ TypeOK' => PopulationInv'
<1> SUFFICES ASSUME PopulationInv, Keeps, TypeOK' PROVE PopulationInv'
  OBVIOUS
<1>1. Living' = Living
  BY DEF Keeps, SameLiving, Living, Lives
<1>2. ArrayHoldsTheLiving'
  BY <1>1 DEF PopulationInv, Keeps, ArrayHoldsTheLiving
<1>3. PopulationBalances'
  BY <1>1 DEF PopulationInv, Keeps, PopulationBalances, SameCounts, Living
<1>4. QED
  BY <1>2, <1>3 DEF PopulationInv

LEMMA RemovesInv == PopulationInv /\ Removes /\ TypeOK' => PopulationInv'
<1> SUFFICES ASSUME PopulationInv, Removes, TypeOK' PROVE PopulationInv'
  OBVIOUS
<1>1. PICK f \in Orgs, c \in TallyType, k \in DOMAIN slots :
            SameLiving(f) /\ SameCounts(c) /\ RemoveAt(f, c, k)
  BY DEF Removes
<1> DEFINE o == slots[k]
<1>2. /\ slots \in Seq(Ids) /\ o \in Ids /\ k \in 1..Len(slots)
      /\ Distinct(slots) /\ Elements(slots) = Living
  BY DEF PopulationInv, TypeOK, ArrayHoldsTheLiving, Distinct, Elements
<1> HIDE DEF o
<1>3. slots' = SwapDelete(slots, k) /\ nextId' = nextId
  BY <1>1 DEF RemoveAt, Removes
<1>4. Living' = Living \ {o}
  <2>1. CancelIn(f, o) \in Orgs
    BY <1>2, CancelInType
  <2>2. ASSUME NEW x \in Ids
        PROVE  org'[x].state = IF x = o THEN "NONE" ELSE f[x].state
    BY <1>1, <1>2, <2>1, CancelKeepsState DEF RemoveAt, Nobody, Orgs, o
  <2>3. QED
    BY <1>1, <1>2, <2>2 DEF SameLiving, Living, Lives
<1>5. ArrayHoldsTheLiving'
  <2>1. Distinct(slots') /\ Elements(slots') = Elements(slots) \ {slots[k]}
    BY <1>2, <1>3, SwapDeleteElements
  <2>2. QED
    BY <1>2, <1>4, <2>1 DEF ArrayHoldsTheLiving, Distinct, Elements, o
<1>6. /\ tally'.births = tally.births /\ tally'.deaths = tally.deaths + 1
      /\ tally'.offspring = tally.offspring
  <2>1. CancelTally(f, c, o) \in TallyType
    BY CancelTallyType
  <2>2. tally' = [CancelTally(f, c, o) EXCEPT !.deaths = @ + 1]
    BY <1>1 DEF RemoveAt, o
  <2>3. QED
    BY <1>1, <2>1, <2>2, CancelKeepsCounts DEF SameCounts, TallyType
<1>7. Len(slots') = Len(slots) - 1
  BY <1>2, <1>3, SwapDeleteType
<1>8. PopulationBalances'
  <2>1. \A x \in Ids : x >= nextId' => ~Lives(x)'
    BY <1>3, <1>4 DEF PopulationInv, PopulationBalances, Living
  <2>2. Len(slots) = tally.births - tally.deaths /\ tally \in TallyType
    BY DEF PopulationInv, PopulationBalances, TypeOK
  <2>3. tally.births \in Int /\ tally.deaths \in Int
    BY <2>2 DEF TallyType
  <2>4. Len(slots') = tally'.births - tally'.deaths
    BY <1>6, <1>7, <2>2, <2>3
  <2>5. QED
    BY <1>3, <1>6, <2>1, <2>4 DEF PopulationInv, PopulationBalances
<1>9. QED
  BY <1>5, <1>8 DEF PopulationInv

\* A birth gives the newborn the next id and the last slot.
LEMMA CourtshipEndsInv == PopulationInv /\ CourtshipEnds /\ TypeOK' => PopulationInv'
<1> SUFFICES ASSUME PopulationInv, CourtshipEnds, TypeOK' PROVE PopulationInv'
  OBVIOUS
<1>1. PICK o \in Living, born \in BOOLEAN, m \in Mutations :
            /\ MayCourt(o)
            /\ born => nextId <= MaxId
            /\ org' = Completed(o, born, m)
            /\ slots' = IF born THEN Append(slots, nextId) ELSE slots
            /\ nextId' = IF born THEN nextId + 1 ELSE nextId
            /\ tally' = LET n == IF born THEN 1 ELSE 0 IN
                        [tally EXCEPT !.active = @ - 1, !.completed = @ + 1,
                                      !.births = @ + n, !.offspring = @ + n]
  BY DEF CourtshipEnds
<1>2. /\ org \in Orgs /\ slots \in Seq(Ids) /\ nextId \in Nat /\ nextId >= 3
      /\ tally \in TallyType /\ o \in Ids
      /\ Distinct(slots) /\ Elements(slots) = Living
      /\ \A x \in Ids : x >= nextId => ~Lives(x)
  BY LivingType, MaxIdType
     DEF PopulationInv, TypeOK, ArrayHoldsTheLiving, PopulationBalances, Distinct, Elements
<1>3. ASSUME NEW x \in Ids
      PROVE  org'[x].state = IF born /\ x = nextId /\ x # o /\ x # org[o].partner
                             THEN "AWAKE" ELSE org[x].state
  <2>1. Single(org[x]) \in OrgType /\ Single(org[x]).state = org[x].state
    BY <1>2, SingleType, SingleKeepsState DEF Orgs
  <2>2. org'[x] = Completed(o, born, m)[x]
    BY <1>1
  <2>3. CASE x = o \/ x = org[o].partner
    BY <2>1, <2>2, <2>3 DEF Completed, OrgType
  <2>4. CASE ~(x = o \/ x = org[o].partner)
    BY <1>2, <2>2, <2>4 DEF Completed, Newborn, Nobody, Orgs, OrgType
  <2>5. QED
    BY <2>3, <2>4
<1>4. CASE ~born
  <2>1. SameLiving(org')
    BY <1>3, <1>4 DEF SameLiving, Lives
  <2>2. SameCounts(tally')
    BY <1>1, <1>2, <1>4 DEF SameCounts, TallyType
  <2>3. QED
    BY <1>1, <1>4, <2>1, <2>2, KeepsInv DEF Keeps
<1>5. CASE born
  <2>1. slots' = Append(slots, nextId) /\ nextId' = nextId + 1 /\ nextId \in Ids
    BY <1>1, <1>2, <1>5 DEF Ids
  <2>2. ~Lives(nextId)
    BY <1>2, <2>1
  <2>3. /\ tally'.births = tally.births + 1 /\ tally'.deaths = tally.deaths
        /\ tally'.offspring = tally.offspring + 1
    BY <1>1, <1>2, <1>5 DEF TallyType
  <2>4. nextId # o /\ nextId # org[o].partner
    BY <1>1, <2>2 DEF MayCourt, Reciprocal, Living
  <2>5. Living' = Living \cup {nextId}
    BY <1>3, <1>5, <2>1, <2>4 DEF Living, Lives
  <2>6. nextId \notin Elements(slots)
    BY <1>2, <2>2 DEF Living
  <2>7. /\ Distinct(slots') /\ Elements(slots') = Elements(slots) \cup {nextId}
        /\ Len(slots') = Len(slots) + 1
    BY <1>2, <2>1, <2>6, AppendElements
  <2>8. ArrayHoldsTheLiving'
    BY <1>2, <2>5, <2>7 DEF ArrayHoldsTheLiving, Distinct, Elements
  <2>9. \A x \in Ids : x >= nextId' => ~Lives(x)'
    BY <1>2, <2>1, <2>5 DEF Living, Ids
  <2>10. Len(slots') = tally'.births - tally'.deaths
    <3>1. Len(slots) = tally.births - tally.deaths
      BY <1>2 DEF PopulationInv, PopulationBalances
    <3>2. tally.births \in Int /\ tally.deaths \in Int
      BY <1>2 DEF TallyType
    <3>3. QED
      BY <2>3, <2>7, <3>1, <3>2
  <2>11. nextId' = tally'.births + 1 /\ tally'.births = 2 + tally'.offspring
    BY <1>2, <2>1, <2>3 DEF PopulationInv, PopulationBalances, TallyType
  <2>12. QED
    BY <2>8, <2>9, <2>10, <2>11 DEF PopulationInv, PopulationBalances
<1>6. QED
  BY <1>4, <1>5

(***************************************************************************)
(* Every other step keeps the living or removes one of them                *)
(***************************************************************************)
LEMMA RemoveAsIs ==
    ASSUME TypeOK, NEW k \in DOMAIN slots, RemoveAt(org, tally, k), UNCHANGED nextId
    PROVE  Removes
BY DEF TypeOK, Removes, SameLiving, SameCounts, Lives

LEMMA TransitionKeeps ==
    ASSUME TypeOK, NEW o \in Living, NEW to \in LifeStates, NEW d, Transition(o, to, d)
    PROVE  SameLiving(org') /\ SameCounts(tally')
<1>1. org \in Orgs /\ tally \in TallyType /\ o \in Ids /\ org[o].state # "NONE"
  BY DEF TypeOK, Living, Lives
<1>2. SameLiving(org)
  BY DEF SameLiving, Lives
<1>3. QED
  BY <1>1, <1>2, TransitionKeepsLiving, CancelKeepsCounts
     DEF Transition, TransitionTally, SameCounts

LEMMA TryBirthKeeps ==
    ASSUME TypeOK, NEW a \in Ids, NEW b \in Ids, NEW granted, TryBirth(a, b, granted)
    PROVE  SameLiving(org') /\ SameCounts(tally')
<1>1. Attempted(a, b) \in Orgs /\ org \in Orgs /\ tally \in TallyType
  BY AttemptedType DEF TypeOK
<1>2. \A x \in Ids : Attempted(a, b)[x].state = org[x].state
  BY <1>1 DEF Attempted, Orgs, OrgType
<1>3. ASSUME NEW x \in Ids PROVE org'[x].state = org[x].state
  <2>1. CASE granted /\ MayPair(a, b)
    BY <1>1, <1>2, <2>1 DEF TryBirth, MayPair, Orgs, OrgType
  <2>2. CASE ~(granted /\ MayPair(a, b))
    BY <1>2, <2>2 DEF TryBirth
  <2>3. QED
    BY <2>1, <2>2
<1>4. SameCounts(tally')
  BY <1>1 DEF TryBirth, SameCounts, TallyType
<1>5. QED
  BY <1>3, <1>4 DEF SameLiving, Lives

LEMMA ScansKeepOrRemove ==
    TypeOK /\ (ReturnFromOff \/ FoolAwake \/ FoolAsleep \/ DormancyTimeout) =>
        Keeps \/ Removes
<1> SUFFICES ASSUME TypeOK, ReturnFromOff \/ FoolAwake \/ FoolAsleep \/ DormancyTimeout
             PROVE  Keeps \/ Removes
  OBVIOUS
<1>0. /\ org \in Orgs /\ slots \in Seq(Ids) /\ tally \in TallyType /\ idx \in Nat \ {0}
      /\ Here \subseteq DOMAIN slots
  BY DEF TypeOK, Here
<1>1. CASE ReturnFromOff
  <2>1. PICK j \in Expired : Transition(slots[j], "ASLEEP", 0)
    BY <1>1 DEF ReturnFromOff
  <2>2. slots[j] \in Living
    BY <1>0 DEF Expired, Living, Lives
  <2>3. SameLiving(org') /\ SameCounts(tally')
    BY <2>1, <2>2, TransitionKeeps DEF LifeStates
  <2>4. QED
    BY <1>1, <2>3 DEF Keeps, ReturnFromOff
<1>2. CASE FoolAwake
  <2>1. PICK j \in Judged : RemoveAt(org, tally, j)
    BY <1>2 DEF FoolAwake
  <2>2. QED
    BY <1>0, <1>2, <2>1, RemoveAsIs DEF FoolAwake, Judged
<1>3. CASE FoolAsleep
  <2>1. PICK j \in Judged, survived \in BOOLEAN :
            LET rolled == [org EXCEPT ![slots[j]].roll = date.year] IN
            IF survived THEN org' = rolled /\ UNCHANGED <<slots, tally>>
            ELSE RemoveAt(rolled, tally, j)
    BY <1>3 DEF FoolAsleep
  <2> DEFINE rolled == [org EXCEPT ![slots[j]].roll = date.year]
  <2>2. j \in DOMAIN slots /\ slots[j] \in Ids
    BY <1>0 DEF Judged
  <2>3. date.year \in 0..LastYear
    BY LastYearType DEF TypeOK, Dates
  <2>4. [org[slots[j]] EXCEPT !.roll = date.year] \in OrgType
    <3>1. org[slots[j]] \in OrgType
      BY <1>0, <2>2 DEF Orgs
    <3>2. QED
      BY <2>3, <3>1, Zenon DEF OrgType
  <2>5. rolled \in Orgs
    BY <1>0, <2>4 DEF Orgs
  <2>6. SameLiving(rolled) /\ SameCounts(tally)
    <3>1. ASSUME NEW x \in Ids PROVE rolled[x].state = org[x].state
      <4>1. org[x] \in OrgType
        BY <1>0 DEF Orgs
      <4>2. [org[x] EXCEPT !.roll = date.year].state = org[x].state
        BY <4>1, Zenon DEF OrgType
      <4>3. QED
        BY <1>0, <2>2, <4>2 DEF Orgs
    <3>2. QED
      BY <3>1 DEF SameLiving, SameCounts, Lives
  <2>7. CASE survived
    BY <1>3, <2>1, <2>6, <2>7 DEF Keeps, FoolAsleep
  <2>8. CASE ~survived
    <3>1. RemoveAt(rolled, tally, j)
      BY <2>1, <2>8
    <3> HIDE DEF rolled
    <3>2. QED
      BY <1>0, <1>3, <2>2, <2>5, <2>6, <3>1 DEF Removes, FoolAsleep
  <2>9. QED
    BY <2>7, <2>8
<1>4. CASE DormancyTimeout
  <2>1. PICK j \in Dormant : RemoveAt(org, tally, j)
    BY <1>4 DEF DormancyTimeout
  <2>2. QED
    BY <1>0, <1>4, <2>1, RemoveAsIs DEF DormancyTimeout, Dormant
<1>5. QED
  BY <1>1, <1>2, <1>3, <1>4

LEMMA AwakeRunKeepsLiving ==
    ASSUME TypeOK, NEW o \in Ids, NEW consents, NEW v
    PROVE  SameLiving(AwakeRun(o, consents, v))
<1>1. ASSUME NEW x \in Ids PROVE AwakeRun(o, consents, v)[x].state = org[x].state
  BY DEF TypeOK, AwakeRun, Updated, Orgs, OrgType
<1>2. QED
  BY <1>1 DEF SameLiving, Lives

LEMMA AsleepRunKeepsLiving ==
    ASSUME TypeOK, NEW o \in Ids, NEW v
    PROVE  SameLiving(AsleepRun(o, v))
<1>1. ASSUME NEW x \in Ids PROVE AsleepRun(o, v)[x].state = org[x].state
  BY DEF TypeOK, AsleepRun, Updated, Quiet, Orgs, OrgType
<1>2. QED
  BY <1>1 DEF SameLiving, Lives

LEMMA SettleKeepsOrRemoves ==
    ASSUME TypeOK, NEW o \in Living, NEW state, AtWork(o, state), NEW f \in Orgs,
           NEW c \in TallyType, SameLiving(f), SameCounts(c), Settle(o, f, c),
           UNCHANGED nextId
    PROVE  Keeps \/ Removes
<1>1. idx \in DOMAIN slots
  BY DEF TypeOK, AtWork
<1>2. CASE LoopValid(f[o])
  BY <1>2 DEF Settle, Keeps
<1>3. CASE ~LoopValid(f[o])
  BY <1>1, <1>3 DEF Settle, Removes
<1>4. QED
  BY <1>2, <1>3

LEMMA ExecutesKeepOrRemove ==
    TypeOK /\ (Executes \/ InvalidDies) => Keeps \/ Removes
<1> SUFFICES ASSUME TypeOK, Executes \/ InvalidDies
             PROVE  Keeps \/ Removes
  OBVIOUS
<1>0. /\ org \in Orgs /\ tally \in TallyType /\ Living \subseteq Ids
      /\ SameCounts(tally)
      /\ \A o \in Living : org[o].state # "NONE"
  BY DEF TypeOK, Living, Lives, SameCounts
<1>1. CASE InvalidDies
  <2>1. idx \in DOMAIN slots /\ RemoveAt(org, tally, idx) /\ UNCHANGED nextId
    BY <1>1 DEF TypeOK, InvalidDies, ExecuteRest
  <2>2. QED
    BY <2>1, RemoveAsIs
<1>2. CASE ExecuteOff
  <2>1. PICK o \in Living : /\ AtWork(o, "OFF") /\ UNCHANGED nextId
                            /\ Settle(o, [org EXCEPT ![o].sent = FALSE], tally)
    BY <1>2 DEF ExecuteOff, ExecuteRest
  <2> DEFINE f == [org EXCEPT ![o].sent = FALSE]
  <2>2. ASSUME NEW x \in Ids
        PROVE  /\ [org[x] EXCEPT !.sent = FALSE] \in OrgType
               /\ [org[x] EXCEPT !.sent = FALSE].state = org[x].state
    <3>1. org[x] \in OrgType
      BY <1>0 DEF Orgs
    <3>2. QED
      BY <3>1, Zenon DEF OrgType
  <2>3. f \in Orgs /\ SameLiving(f)
    BY <1>0, <2>2 DEF Orgs, SameLiving, Lives
  <2> HIDE DEF f
  <2>4. QED
    BY <1>0, <2>1, <2>3, SettleKeepsOrRemoves DEF f
<1>3. CASE StayAwake
  <2>1. PICK o \in Living, consents \in BOOLEAN, v \in Outcomes :
            /\ AtWork(o, "AWAKE") /\ UNCHANGED nextId
            /\ Settle(o, AwakeRun(o, consents, v), tally)
    BY <1>3 DEF StayAwake, ExecuteRest
  <2>2. AwakeRun(o, consents, v) \in Orgs /\ SameLiving(AwakeRun(o, consents, v))
    BY <1>0, AwakeRunType, AwakeRunKeepsLiving
  <2>3. QED
    BY <1>0, <2>1, <2>2, SettleKeepsOrRemoves
<1>4. CASE Doze
  <2>1. PICK o \in Living, v \in Outcomes :
            /\ AtWork(o, "ASLEEP") /\ UNCHANGED nextId
            /\ Settle(o, AsleepRun(o, v), tally)
    BY <1>4 DEF Doze, ExecuteRest
  <2>2. AsleepRun(o, v) \in Orgs /\ SameLiving(AsleepRun(o, v))
    BY <1>0, AsleepRunType, AsleepRunKeepsLiving
  <2>3. QED
    BY <1>0, <2>1, <2>2, SettleKeepsOrRemoves
<1>5. ASSUME NEW o \in Living, NEW ran \in Orgs, SameLiving(ran),
             NEW to \in LifeStates, NEW d \in Nat
      PROVE  /\ TransitionIn(ran, o, to, d) \in Orgs
             /\ SameLiving(TransitionIn(ran, o, to, d))
             /\ TransitionTally(ran, tally, o, to) \in TallyType
             /\ SameCounts(TransitionTally(ran, tally, o, to))
  <2>1. ran[o].state # "NONE" /\ tick \in Nat
    BY <1>0, <1>5 DEF SameLiving, Lives, TypeOK
  <2>2. SameCounts(TransitionTally(ran, tally, o, to))
    BY <1>0, CancelKeepsCounts DEF TransitionTally, SameCounts
  <2>3. QED
    BY <1>0, <1>5, <2>1, <2>2, TransitionInType, TransitionKeepsLiving,
       TransitionTallyType
<1>6. CASE FallAsleep
  <2>1. PICK o \in Living, v \in Outcomes :
            /\ AtWork(o, "AWAKE") /\ UNCHANGED nextId
            /\ Settle(o, TransitionIn(AwakeRun(o, FALSE, v), o, "ASLEEP", 0),
                         TransitionTally(AwakeRun(o, FALSE, v), tally, o, "ASLEEP"))
    BY <1>6 DEF FallAsleep, ExecuteRest
  <2>2. AwakeRun(o, FALSE, v) \in Orgs /\ SameLiving(AwakeRun(o, FALSE, v))
    BY <1>0, AwakeRunType, AwakeRunKeepsLiving
  <2>3. "ASLEEP" \in LifeStates /\ 0 \in Nat
    BY DEF LifeStates
  <2>4. QED
    BY <1>5, <2>1, <2>2, <2>3, SettleKeepsOrRemoves
<1>7. CASE SwitchOff
  <2>1. PICK o \in Living, v \in Outcomes, d \in OffMin..OffMax :
            /\ AtWork(o, "ASLEEP") /\ UNCHANGED nextId
            /\ Settle(o, TransitionIn(AsleepRun(o, v), o, "OFF", d),
                         TransitionTally(AsleepRun(o, v), tally, o, "OFF"))
    BY <1>7 DEF SwitchOff, ExecuteRest
  <2>2. AsleepRun(o, v) \in Orgs /\ SameLiving(AsleepRun(o, v))
    BY <1>0, AsleepRunType, AsleepRunKeepsLiving
  <2>3. "OFF" \in LifeStates /\ d \in Nat
    BY ConfigAssumption DEF LifeStates
  <2>4. QED
    BY <1>5, <2>1, <2>2, <2>3, SettleKeepsOrRemoves
<1>8. CASE WakeUp
  <2>1. PICK o \in Living, v \in Outcomes :
            /\ AtWork(o, "ASLEEP") /\ UNCHANGED nextId
            /\ IF IsFoolsDay(date)
               THEN RemoveAt(TransitionIn(AsleepRun(o, v), o, "AWAKE", 0), tally, idx)
               ELSE Settle(o, TransitionIn(AsleepRun(o, v), o, "AWAKE", 0), tally)
    BY <1>8 DEF WakeUp, ExecuteRest
  <2> DEFINE woken == TransitionIn(AsleepRun(o, v), o, "AWAKE", 0)
  <2>2. AsleepRun(o, v) \in Orgs /\ SameLiving(AsleepRun(o, v))
    BY <1>0, AsleepRunType, AsleepRunKeepsLiving
  <2>3. "AWAKE" \in LifeStates /\ 0 \in Nat
    BY DEF LifeStates
  <2>4. woken \in Orgs /\ SameLiving(woken)
    BY <1>5, <2>2, <2>3
  <2>5. idx \in DOMAIN slots
    BY <2>1 DEF TypeOK, AtWork
  <2> HIDE DEF woken
  <2>6. CASE IsFoolsDay(date)
    BY <1>0, <2>1, <2>4, <2>5, <2>6 DEF Removes, woken
  <2>7. CASE ~IsFoolsDay(date)
    BY <1>0, <2>1, <2>4, <2>7, SettleKeepsOrRemoves DEF woken
  <2>8. QED
    BY <2>6, <2>7
<1>9. QED
  BY <1>1, <1>2, <1>3, <1>4, <1>6, <1>7, <1>8 DEF Executes

LEMMA AccountedKeepsState ==
    ASSUME NEW r \in OrgType
    PROVE  Accounted(r).state = r.state
<1> DEFINE awake == IF r.state = "AWAKE" THEN tick ELSE r.lastAwake
           age == r.age + 1
           bio == r.bio + AgeRate(r)
           reward == r.reward + AgeRate(r)
<1>1. Accounted(r) = [r EXCEPT !.age = age, !.bio = bio, !.reward = reward,
                               !.lastAwake = awake]
  BY DEF Accounted
<1> HIDE DEF awake, age, bio, reward
<1>2. QED
  BY <1>1, Zenon DEF OrgType

LEMMA RestKeepsOrRemoves ==
    TypeOK /\ (Deliver \/ CourtshipFails \/ CourtshipGoesOn \/ EvictOldest \/ Pair \/ Account)
        => Keeps \/ Removes
<1> SUFFICES ASSUME TypeOK,
                    Deliver \/ CourtshipFails \/ CourtshipGoesOn \/ EvictOldest \/ Pair \/ Account
             PROVE  Keeps \/ Removes
  OBVIOUS
<1>0. /\ org \in Orgs /\ tally \in TallyType /\ Living \subseteq Ids /\ SameCounts(tally)
      /\ \A x \in Ids : org[x] \in OrgType
  BY DEF TypeOK, Living, SameCounts, Orgs
<1>1. CASE Deliver
  <2>1. ASSUME NEW x \in Ids PROVE org'[x].state = org[x].state
    BY <1>0, <1>1 DEF Deliver, OrgType
  <2>2. QED
    BY <1>0, <1>1, <2>1 DEF Deliver, Keeps, SameLiving, Lives, SameCounts
<1>2. CASE CourtshipFails
  <2>1. PICK o \in Living :
            org' = CancelIn(org, o) /\ tally' = CancelTally(org, tally, o)
    BY <1>2 DEF CourtshipFails
  <2>2. \A x \in Ids : org'[x].state = org[x].state
    BY <1>0, <2>1, CancelKeepsState
  <2>3. SameCounts(tally')
    BY <1>0, <2>1, CancelKeepsCounts DEF SameCounts
  <2>4. QED
    BY <1>2, <2>2, <2>3 DEF CourtshipFails, Keeps, SameLiving, Lives
<1>3. CASE CourtshipGoesOn
  <2>1. PICK o \in Living : org' = Progressed(o)
    BY <1>3 DEF CourtshipGoesOn
  <2>2. ASSUME NEW x \in Ids PROVE org'[x].state = org[x].state
    <3>1. org[x] \in OrgType
      BY <1>0
    <3>2. \A n : [org[x] EXCEPT !.hears = TRUE, !.progress = n].state = org[x].state
      BY <3>1, Zenon DEF OrgType
    <3>3. QED
      BY <2>1, <3>2 DEF Progressed
  <2>3. QED
    BY <1>0, <1>3, <2>2 DEF CourtshipGoesOn, Keeps, SameLiving, Lives, SameCounts
<1>4. CASE EvictOldest
  <2>1. PICK j \in DOMAIN slots : RemoveAt(org, tally, j)
    BY <1>4 DEF EvictOldest
  <2>2. QED
    BY <1>4, <2>1, RemoveAsIs DEF EvictOldest
<1>5. CASE Pair
  <2>1. PICK a, b \in Living : TryBirth(a, b, TRUE)
    BY <1>5 DEF Pair
  <2>2. SameLiving(org') /\ SameCounts(tally')
    BY <1>0, <2>1, TryBirthKeeps
  <2>3. QED
    BY <1>5, <2>2 DEF Pair, Keeps
<1>6. CASE Account
  <2>1. ASSUME NEW x \in Ids PROVE org'[x].state = org[x].state
    <3>1. Accounted(org[x]).state = org[x].state
      BY AccountedKeepsState, <1>0
    <3>2. QED
      BY <1>6, <3>1 DEF Account
  <2>2. QED
    BY <1>0, <1>6, <2>1 DEF Account, Keeps, SameLiving, Lives, SameCounts
<1>7. QED
  BY <1>1, <1>2, <1>3, <1>4, <1>5, <1>6

LEMMA HostKeeps == TypeOK /\ Host => Keeps
<1> SUFFICES ASSUME TypeOK, Host PROVE Keeps
  OBVIOUS
<1>0. HostCall => UNCHANGED <<slots, nextId>>
  BY DEF HostCall
<1>1. CASE HostTransition
  <2>1. PICK o \in Living, to \in LifeStates, d \in {0, OffMax + 1} : Transition(o, to, d)
    BY <1>1 DEF HostTransition
  <2>2. SameLiving(org') /\ SameCounts(tally')
    BY <2>1, TransitionKeeps
  <2>3. QED
    BY <1>0, <1>1, <2>2 DEF HostTransition, Keeps
<1>2. CASE HostTryBirth
  <2>1. PICK a, b \in Ids, granted \in BOOLEAN : TryBirth(a, b, granted)
    BY <1>2 DEF HostTryBirth
  <2>2. SameLiving(org') /\ SameCounts(tally')
    BY <2>1, TryBirthKeeps
  <2>3. QED
    BY <1>0, <1>2, <2>2 DEF HostTryBirth, Keeps
<1>3. CASE HostSpoils
  <2>1. PICK o \in Living : org' = [org EXCEPT ![o].sound = FALSE]
    BY <1>3 DEF HostSpoils
  <2>2. ASSUME NEW x \in Ids PROVE org'[x].state = org[x].state
    BY <2>1 DEF TypeOK, Orgs, OrgType
  <2>3. QED
    BY <1>0, <1>3, <2>2 DEF HostSpoils, Keeps, SameLiving, Lives, SameCounts
<1>4. QED
  BY <1>1, <1>2, <1>3 DEF Host

(***************************************************************************)
(* The invariants                                                          *)
(***************************************************************************)
LEMMA PopulationInit == Init => PopulationInv
<1> SUFFICES ASSUME Init PROVE PopulationInv
  OBVIOUS
<1>1. Living = {1, 2}
  <2>1. ASSUME NEW x \in Ids PROVE Lives(x) <=> x <= 2
    <3>1. CASE x <= 2
      <4>1. PICK m \in 0..GenomeCount : org[x] = Newborn(0, Seed(m))
        BY <2>1, <3>1, SeedsInit
      <4>2. QED
        BY <3>1, <4>1, NewbornFields DEF Lives
    <3>2. CASE ~(x <= 2)
      BY <2>1, <3>2, SeedsInit DEF Lives, Nobody
    <3>3. QED
      BY <3>1, <3>2
  <2>2. QED
    BY <2>1, MaxIdType DEF Living, Ids
<1>2. slots = <<1, 2>> /\ nextId = 3
  BY DEF Init
<1>3. ArrayHoldsTheLiving
  BY <1>1, <1>2 DEF ArrayHoldsTheLiving
<1>4. \A x \in Ids : x >= nextId => ~Lives(x)
  BY <1>1, <1>2 DEF Living
<1>5. PopulationBalances
  BY <1>2, <1>4 DEF Init, PopulationBalances
<1>6. QED
  BY <1>3, <1>5, TypeInit DEF PopulationInv

LEMMA PopulationStep == PopulationInv /\ [Next]_vars => PopulationInv'
<1> SUFFICES ASSUME PopulationInv, [Next]_vars PROVE PopulationInv'
  OBVIOUS
<1>1. TypeOK /\ TypeOK'
  BY TypeStep DEF PopulationInv
<1>2. CASE UNCHANGED <<org, slots, nextId, tally>>
  BY <1>1, <1>2, KeepsInv DEF Keeps, SameLiving, Lives, SameCounts
<1>3. CASE CourtshipEnds
  BY <1>1, <1>3, CourtshipEndsInv
<1>4. CASE Keeps \/ Removes
  BY <1>1, <1>4, KeepsInv, RemovesInv
<1>5. (Passes \/ StartTick \/ Terminated \/ UNCHANGED vars) =>
        UNCHANGED <<org, slots, nextId, tally>>
  BY PassesLeavesWorld DEF StartTick, Terminated, vars, world
<1>6. QED
  BY <1>1, <1>2, <1>3, <1>4, <1>5, ScansKeepOrRemove, ExecutesKeepOrRemove,
     RestKeepsOrRemoves, HostKeeps DEF Next, Step, Passes, Executes

\* After any number of births, evictions and deaths, by whichever loop and
\* in whatever order, the array holds each living organism once and nothing
\* else: removal by moving the last organism loses and doubles none.
THEOREM ArrayIsTheLiving == Spec => []ArrayHoldsTheLiving
<1>1. PopulationInv => ArrayHoldsTheLiving
  BY DEF PopulationInv
<1>2. QED
  BY <1>1, PopulationInit, PopulationStep, PTL DEF Spec

\* The equalities that alife_world_save demands of the counters hold after
\* every step, so it is never they that make a save fail.
THEOREM PopulationIsBalanced == Spec => []PopulationBalances
<1>1. PopulationInv => PopulationBalances
  BY DEF PopulationInv
<1>2. QED
  BY <1>1, PopulationInit, PopulationStep, PTL DEF Spec

=============================================================================
