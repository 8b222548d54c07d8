----------------------------- MODULE TickProofs ------------------------------
(***************************************************************************)
(* Proofs of what the phases of a tick guarantee. First, what one step may *)
(* make of one organism, whichever operation takes the step (StepsEvolve); *)
(* then the invariants of single organisms, which follow from that alone,  *)
(* and the order of displacement; the scans, which treat the slots in      *)
(* front of the loop variable; the loops that may shrink the array behind  *)
(* themselves; what the history variables remember, who was rolled for and *)
(* who ran awake, beside what the organisms carry; what one step does to   *)
(* lives and couples (StepsCourt), with the abstract specifications of     *)
(* time, life and courtship; and, from all of these, that what is saved    *)
(* can be loaded.                                                          *)
(***************************************************************************)
EXTENDS CourtshipProofs, FiniteSetTheorems

(***************************************************************************)
(* What a step makes of an organism: r before, s after                     *)
(***************************************************************************)
SamePast(r, s) ==
    /\ s.birth = r.birth /\ s.age = r.age /\ s.bio = r.bio /\ s.reward = r.reward
    /\ s.origin = r.origin
    /\ r.changes <= r.executions => s.changes <= s.executions

SameState(r, s) ==
    s.state = r.state /\ s.backOn = r.backOn /\ s.lastAwake = r.lastAwake

Sleeps(r, s) ==
    /\ r.state = "AWAKE" /\ s.state = "ASLEEP" /\ pc \in {"execute", "idle"}
    /\ s.backOn = 0 /\ s.lastAwake = r.lastAwake

\* Nobody stays awake who wakes on April 1.
WakesHere == pc = "idle" \/ (pc = "execute" /\ ~IsFoolsDay(date))

Awakens(r, s) ==
    /\ r.state = "ASLEEP" /\ s.state = "AWAKE"
    /\ s.backOn = 0 /\ s.lastAwake = tick /\ WakesHere

GoesOff(r, s) ==
    /\ r.state = "ASLEEP" /\ s.state = "OFF" /\ pc \in {"execute", "idle"}
    /\ s.backOn \in (tick + OffMin)..(tick + OffMax) /\ s.lastAwake = r.lastAwake

ComesBack(r, s) ==
    /\ r.state = "OFF" /\ s.state = "ASLEEP" /\ pc \in {"timers", "idle"}
    /\ tick >= r.backOn /\ s.backOn = 0 /\ s.lastAwake = r.lastAwake

LifeStep(r, s) ==
    SameState(r, s) \/ Sleeps(r, s) \/ Awakens(r, s) \/ GoesOff(r, s) \/ ComesBack(r, s)

RollStep(r, s) ==
    \/ s.roll = r.roll
    \/ /\ s.roll = date.year /\ r.state = "ASLEEP" /\ r.roll # date.year
       /\ IsFoolsDay(date) /\ pc = "foolsday"

BondStep(r, s) ==
    \/ s.partner \in {0, r.partner} /\ s.wins = r.wins /\ s.attempts \in {r.attempts, r.attempts + 1}
    \/ r.partner = 0 /\ s.wins = r.wins /\ s.attempts = r.attempts + 1
    \/ s.partner = 0 /\ r.partner # 0 /\ s.wins = r.wins + 1 /\ s.attempts = r.attempts

\* Out of the execution loop, the voice of an organism changes with its state.
VoiceStep(r, s) ==
    /\ pc # "execute" /\ s.state = r.state => s.sent = r.sent /\ s.inbox = r.inbox
    /\ s.sent => s.state = "AWAKE" \/ (r.sent /\ s.state = r.state)
    /\ s.inbox = {} \/ (s.inbox = r.inbox /\ s.state \in {r.state, "AWAKE"})

Survives(r, s) ==
    /\ SamePast(r, s) /\ LifeStep(r, s) /\ RollStep(r, s)
    /\ BondStep(r, s) /\ VoiceStep(r, s)

\* On April 1, while the day's policy runs, whoever is removed was awake or
\* had no roll yet.
Removable(r) ==
    /\ r.state # "NONE"
    /\ pc = "foolsday" =>
            r.state = "AWAKE" \/ (r.state = "ASLEEP" /\ r.roll # date.year)

Removed(r, s) == s = Nobody /\ Removable(r)

IsBorn(x, r, s) ==
    /\ \E w \in OriginType : s = Newborn(tick, w) /\ OriginValid(x, w)
    /\ r.state = "NONE" /\ x = nextId
    /\ ~IsFoolsDay(date) /\ pc = "courtship"

Evolves(x, r, s) == Survives(r, s) \/ Removed(r, s) \/ IsBorn(x, r, s)

\* f is what survivors of a step may have become; all but o in the second.
SurvivesIn(f) == \A x \in Ids : Survives(org[x], f[x])
SurvivesBut(f, o) == \A x \in Ids : x # o => Survives(org[x], f[x])
AllEvolve == \A x \in Ids : Evolves(x, org[x], org'[x])

(***************************************************************************)
(* Operators on one organism                                               *)
(***************************************************************************)
LEMMA SurvivesSame ==
    ASSUME NEW r \in OrgType
    PROVE  Survives(r, r)
BY DEF Survives, SamePast, LifeStep, SameState, RollStep, BondStep, VoiceStep, OrgType

LEMMA SingleFields ==
    ASSUME NEW r \in OrgType
    PROVE  LET s == Single(r) IN
           /\ SamePast(r, s) /\ SameState(r, s)
           /\ s.roll = r.roll /\ s.sent = r.sent /\ s.inbox = r.inbox
           /\ s.attempts = r.attempts /\ s.wins = r.wins /\ s.partner = 0
BY Zenon DEF Single, OrgType, SamePast, SameState

\* Losing its courtship in the same step changes nothing else of it.
LEMMA SurvivesSingle ==
    ASSUME NEW r \in OrgType, NEW s \in OrgType, Survives(r, s)
    PROVE  Survives(r, Single(s))
<1> DEFINE t == Single(s)
<1>1. /\ SamePast(s, t) /\ SameState(s, t)
      /\ t.roll = s.roll /\ t.sent = s.sent /\ t.inbox = s.inbox
      /\ t.attempts = s.attempts /\ t.wins = s.wins /\ t.partner = 0
  BY SingleFields
<1> HIDE DEF t
<1>2. SamePast(r, t)
  BY <1>1 DEF Survives, SamePast
<1>3. LifeStep(r, t)
  BY <1>1 DEF Survives, LifeStep, SameState, Sleeps, Awakens, GoesOff, ComesBack
<1>4. RollStep(r, t)
  BY <1>1 DEF Survives, RollStep
<1>5. BondStep(r, t)
  BY <1>1 DEF Survives, BondStep
<1>6. VoiceStep(r, t)
  BY <1>1 DEF Survives, VoiceStep, SameState
<1>7. QED
  BY <1>2, <1>3, <1>4, <1>5, <1>6 DEF Survives, t

(***************************************************************************)
(* Operators on the organisms                                              *)
(***************************************************************************)
LEMMA CancelSurvives ==
    ASSUME org \in Orgs, NEW f \in Orgs, NEW o \in Ids, NEW x \in Ids,
           Survives(org[x], f[x])
    PROVE  Survives(org[x], CancelIn(f, o)[x])
<1>1. org[x] \in OrgType /\ f[x] \in OrgType
  BY DEF Orgs
<1>2. CancelIn(f, o)[x] = f[x] \/ CancelIn(f, o)[x] = Single(f[x])
  BY DEF CancelIn
<1>3. QED
  BY <1>1, <1>2, SurvivesSingle

LEMMA RemoveAtEvolves ==
    ASSUME org \in Orgs, slots \in Seq(Ids), NEW f \in Orgs, NEW c,
           NEW k \in DOMAIN slots, Removable(org[slots[k]]),
           SurvivesBut(f, slots[k]), RemoveAt(f, c, k)
    PROVE  AllEvolve
<1> DEFINE o == slots[k]
<1>1. o \in Ids /\ CancelIn(f, o) \in Orgs
  BY CancelInType
<1>2. \A x \in Ids : org'[x] = IF x = o THEN Nobody ELSE CancelIn(f, o)[x]
  BY <1>1 DEF RemoveAt, Orgs
<1>3. \A x \in Ids : x # o => Survives(org[x], CancelIn(f, o)[x])
  BY <1>1, CancelSurvives DEF SurvivesBut
<1> HIDE DEF o
<1>4. Removable(org[o])
  BY DEF o
<1>5. QED
  BY <1>2, <1>3, <1>4 DEF AllEvolve, Evolves, Removed

LEMMA SettleEvolves ==
    ASSUME TypeOK, pc = "execute", NEW o \in Living, o = slots[idx], idx \in DOMAIN slots,
           NEW f \in Orgs, NEW c, SurvivesIn(f), Settle(o, f, c)
    PROVE  AllEvolve
<1>1. CASE LoopValid(f[o])
  BY <1>1 DEF Settle, AllEvolve, Evolves, SurvivesIn
<1>2. CASE ~LoopValid(f[o])
  <2>1. Removable(org[slots[idx]])
    BY DEF Removable, Living, Lives
  <2>2. SurvivesBut(f, slots[idx])
    BY DEF SurvivesBut, SurvivesIn
  <2>3. QED
    BY <1>2, <2>1, <2>2, RemoveAtEvolves DEF TypeOK, Settle
<1>3. QED
  BY <1>1, <1>2

\* The network update counts a run, and a significant change with it at most.
LEMMA UpdatedKeeps ==
    ASSUME NEW r \in OrgType, NEW v \in Outcomes
    PROVE  LET s == Updated(r, v) IN
           /\ SamePast(r, s) /\ SameState(r, s)
           /\ s.roll = r.roll /\ s.sent = r.sent /\ s.inbox = r.inbox
           /\ s.partner = r.partner /\ s.attempts = r.attempts /\ s.wins = r.wins
<1> DEFINE n == r.executions + 1
           k == Saturating(r.changes, v.learnt)
           s == [r EXCEPT !.sound = v.sound, !.executions = n, !.changes = k]
<1>1. r.changes <= r.executions => k <= n
  BY DEF OrgType, Saturating
<1>2. /\ s.birth = r.birth /\ s.age = r.age /\ s.bio = r.bio /\ s.reward = r.reward
      /\ s.origin = r.origin /\ s.executions = n /\ s.changes = k
      /\ s.state = r.state /\ s.backOn = r.backOn /\ s.lastAwake = r.lastAwake
      /\ s.roll = r.roll /\ s.sent = r.sent /\ s.inbox = r.inbox
      /\ s.partner = r.partner /\ s.attempts = r.attempts /\ s.wins = r.wins
  <2> HIDE DEF n, k
  <2>1. QED
    BY Zenon DEF OrgType
<1>3. Updated(r, v) = s
  BY DEF Updated
<1> HIDE DEF s, n, k
<1>4. QED
  BY <1>1, <1>2, <1>3 DEF SamePast, SameState

\* What networks do to an organism leaves its lifecycle state alone.
LEMMA AwakeRunSurvives ==
    ASSUME org \in Orgs, NEW o \in Ids, org[o].state = "AWAKE", pc = "execute",
           NEW consents \in BOOLEAN, NEW v \in Outcomes
    PROVE  /\ SurvivesIn(AwakeRun(o, consents, v))
           /\ SameState(org[o], AwakeRun(o, consents, v)[o])
           /\ AwakeRun(o, consents, v)[o].sent
<1> DEFINE u == Updated(org[o], v)
           r == [u EXCEPT !.consent = consents, !.sent = TRUE]
<1>1. org[o] \in OrgType /\ u \in OrgType
  BY UpdatedType DEF Orgs
<1>2. /\ SamePast(u, r) /\ SameState(u, r) /\ r.sent = TRUE
      /\ r.roll = u.roll /\ r.inbox = u.inbox /\ r.partner = u.partner
      /\ r.attempts = u.attempts /\ r.wins = u.wins
  <2> HIDE DEF u
  <2>1. QED
    BY <1>1, Zenon DEF OrgType, SamePast, SameState
<1>7. /\ SamePast(org[o], u) /\ SameState(org[o], u)
      /\ u.roll = org[o].roll /\ u.inbox = org[o].inbox /\ u.partner = org[o].partner
      /\ u.attempts = org[o].attempts /\ u.wins = org[o].wins
  BY <1>1, UpdatedKeeps
<1>3. \A x \in Ids : AwakeRun(o, consents, v)[x] = IF x = o THEN r ELSE org[x]
  BY DEF AwakeRun, Orgs
<1> HIDE DEF r, u
<1>8. SamePast(org[o], r) /\ SameState(org[o], r)
  BY <1>2, <1>7 DEF SamePast, SameState
<1>4. Survives(org[o], r)
  BY <1>2, <1>7, <1>8 DEF Survives, LifeStep, RollStep, BondStep, VoiceStep, SameState
<1>5. \A x \in Ids : Survives(org[x], org[x])
  BY SurvivesSame DEF Orgs
<1>6. QED
  BY <1>2, <1>3, <1>4, <1>5, <1>8 DEF SurvivesIn

LEMMA AsleepRunSurvives ==
    ASSUME org \in Orgs, NEW o \in Ids, pc = "execute", NEW v \in Outcomes
    PROVE  /\ SurvivesIn(AsleepRun(o, v))
           /\ SameState(org[o], AsleepRun(o, v)[o])
           /\ AsleepRun(o, v)[o].inbox = {} /\ ~AsleepRun(o, v)[o].sent
<1> DEFINE q == Quiet(org[o])
           r == Updated(q, v)
<1>1. org[o] \in OrgType /\ q \in OrgType
  BY QuietType DEF Orgs
<1>7. /\ SamePast(org[o], q) /\ SameState(org[o], q)
      /\ q.roll = org[o].roll /\ q.inbox = {} /\ ~q.sent /\ q.partner = org[o].partner
      /\ q.attempts = org[o].attempts /\ q.wins = org[o].wins
  BY <1>1, Zenon DEF OrgType, Quiet, SamePast, SameState
<1> HIDE DEF q
<1>8. /\ SamePast(q, r) /\ SameState(q, r)
      /\ r.roll = q.roll /\ r.sent = q.sent /\ r.inbox = q.inbox /\ r.partner = q.partner
      /\ r.attempts = q.attempts /\ r.wins = q.wins
  BY <1>1, UpdatedKeeps
<1>2. /\ SamePast(org[o], r) /\ SameState(org[o], r)
      /\ r.roll = org[o].roll /\ r.inbox = {} /\ ~r.sent /\ r.partner = org[o].partner
      /\ r.attempts = org[o].attempts /\ r.wins = org[o].wins
  <2> HIDE DEF r
  <2>1. QED
    BY <1>7, <1>8 DEF SamePast, SameState
<1>3. \A x \in Ids : AsleepRun(o, v)[x] = IF x = o THEN r ELSE org[x]
  BY DEF AsleepRun, Orgs, q
<1> HIDE DEF r
<1>4. Survives(org[o], r)
  BY <1>2 DEF Survives, LifeStep, RollStep, BondStep, VoiceStep, SameState
<1>5. \A x \in Ids : Survives(org[x], org[x])
  BY SurvivesSame DEF Orgs
<1>6. QED
  BY <1>2, <1>3, <1>4, <1>5 DEF SurvivesIn

\* A transition out of the state that the step began in.
Moves(r, to) ==
    \/ r.state = "AWAKE" /\ to = "ASLEEP" /\ pc \in {"execute", "idle"}
    \/ r.state = "ASLEEP" /\ to = "AWAKE"
    \/ r.state = "ASLEEP" /\ to = "OFF" /\ pc \in {"execute", "idle"}
    \/ r.state = "OFF" /\ to = "ASLEEP" /\ tick >= r.backOn /\ pc \in {"timers", "idle"}

LEMMA ClampOffRange ==
    ASSUME NEW d \in Nat
    PROVE  ClampOff(d) \in OffMin..OffMax
BY ConfigAssumption DEF ClampOff

LEMMA TransitionSurvives ==
    ASSUME org \in Orgs, tick \in Nat, NEW f \in Orgs, SurvivesIn(f), NEW o \in Ids,
           NEW to \in LifeStates, NEW d \in Nat, SameState(org[o], f[o]), Moves(org[o], to)
    PROVE  /\ SurvivesBut(TransitionIn(f, o, to, d), o)
           /\ (to = "AWAKE" => WakesHere) => SurvivesIn(TransitionIn(f, o, to, d))
           /\ TransitionIn(f, o, to, d)[o].state = to
<1> DEFINE t == TransitionIn(f, o, to, d)
<1>0. org[o] \in OrgType /\ f[o] \in OrgType /\ Survives(org[o], f[o])
  BY DEF Orgs, SurvivesIn
<1>1. CASE to = "AWAKE"
  <2> DEFINE r == [f[o] EXCEPT !.state = to, !.backOn = 0, !.lastAwake = tick]
  <2>1. \A x \in Ids : t[x] = IF x = o THEN r ELSE f[x]
    BY <1>1 DEF TransitionIn, Orgs
  <2>2. /\ SamePast(f[o], r) /\ r.state = "AWAKE" /\ r.backOn = 0 /\ r.lastAwake = tick
        /\ r.roll = f[o].roll /\ r.sent = f[o].sent /\ r.inbox = f[o].inbox
        /\ r.partner = f[o].partner /\ r.attempts = f[o].attempts /\ r.wins = f[o].wins
    BY <1>0, <1>1, Zenon DEF OrgType, SamePast
  <2> HIDE DEF r, t
  <2>3. SamePast(org[o], r) /\ RollStep(org[o], r) /\ BondStep(org[o], r) /\ VoiceStep(org[o], r)
    <3>1. SamePast(org[o], r) /\ RollStep(org[o], r)
      BY <1>0, <2>2 DEF Survives, SamePast, RollStep
    <3>2. BondStep(org[o], r)
      BY <1>0, <2>2 DEF Survives, BondStep
    <3>3. VoiceStep(org[o], r)
      <4>1. org[o].state = "ASLEEP"
        BY <1>1 DEF Moves
      <4>2. QED
        BY <1>0, <2>2, <4>1 DEF Survives, VoiceStep
    <3>4. QED
      BY <3>1, <3>2, <3>3
  <2>4. WakesHere => LifeStep(org[o], r)
    BY <1>1, <2>2 DEF LifeStep, Awakens, Moves
  <2>5. QED
    BY <1>1, <2>1, <2>2, <2>3, <2>4 DEF SurvivesIn, SurvivesBut, Survives, t
<1>2. CASE to # "AWAKE"
  <2> DEFINE g == CancelIn(f, o)
             b == IF to = "OFF" THEN tick + ClampOff(d) ELSE 0
             r == Quiet([g[o] EXCEPT !.state = to, !.backOn = b])
  <2>1. g \in Orgs /\ g[o] \in OrgType /\ \A x \in Ids : Survives(org[x], g[x])
    BY CancelInType, CancelSurvives DEF Orgs, SurvivesIn
  <2>2. g[o] = f[o] \/ g[o] = Single(f[o])
    BY DEF CancelIn
  <2>3. SameState(org[o], g[o])
    BY <1>0, <2>2, SingleFields DEF SameState
  <2>4. \A x \in Ids : t[x] = IF x = o THEN r ELSE g[x]
    BY <1>2, <2>1 DEF TransitionIn, Orgs
  <2> HIDE DEF g, b
  <2>5. /\ SamePast(g[o], r) /\ r.state = to /\ r.backOn = b /\ r.lastAwake = g[o].lastAwake
        /\ r.roll = g[o].roll /\ ~r.sent /\ r.inbox = {}
        /\ r.partner = g[o].partner /\ r.attempts = g[o].attempts /\ r.wins = g[o].wins
    BY <2>1, Zenon DEF OrgType, SamePast, Quiet
  <2> HIDE DEF r, t
  <2>6. SamePast(org[o], r) /\ RollStep(org[o], r) /\ BondStep(org[o], r) /\ VoiceStep(org[o], r)
    <3>1. SamePast(org[o], r) /\ RollStep(org[o], r)
      BY <2>1, <2>5 DEF Survives, SamePast, RollStep
    <3>2. BondStep(org[o], r)
      BY <2>1, <2>5 DEF Survives, BondStep
    <3>3. VoiceStep(org[o], r)
      <4>1. org[o].state # to
        BY <1>2 DEF Moves
      <4>2. QED
        BY <2>5, <4>1 DEF VoiceStep
    <3>4. QED
      BY <3>1, <3>2, <3>3
  <2>7. to = "OFF" => b \in (tick + OffMin)..(tick + OffMax)
    BY ClampOffRange, ConfigAssumption DEF b
  <2>8. LifeStep(org[o], r)
    <3>1. r.lastAwake = org[o].lastAwake
      BY <2>3, <2>5 DEF SameState
    <3>2. to # "OFF" => b = 0
      BY DEF b
    <3>3. QED
      BY <1>2, <2>5, <2>7, <3>1, <3>2 DEF LifeStep, Moves, Sleeps, GoesOff, ComesBack
  <2>9. QED
    BY <1>2, <2>1, <2>4, <2>5, <2>6, <2>8 DEF SurvivesIn, SurvivesBut, Survives, t
<1>3. QED
  BY <1>1, <1>2

LEMMA ProgressedSurvives ==
    ASSUME org \in Orgs, NEW o \in Ids
    PROVE  SurvivesIn(Progressed(o))
<1>1. ASSUME NEW x \in Ids PROVE Survives(org[x], Progressed(o)[x])
  <2> DEFINE n == org[o].progress + 1
             r == [org[x] EXCEPT !.hears = TRUE, !.progress = n]
  <2>1. org[x] \in OrgType
    BY DEF Orgs
  <2>2. /\ SamePast(org[x], r) /\ SameState(org[x], r)
        /\ r.roll = org[x].roll /\ r.sent = org[x].sent /\ r.inbox = org[x].inbox
        /\ r.partner = org[x].partner /\ r.attempts = org[x].attempts /\ r.wins = org[x].wins
    <3> HIDE DEF n
    <3>1. QED
      BY <2>1, Zenon DEF OrgType, SamePast, SameState
  <2>3. Progressed(o)[x] = r \/ Progressed(o)[x] = org[x]
    BY DEF Progressed
  <2> HIDE DEF r
  <2>4. Survives(org[x], r)
    BY <2>2 DEF Survives, LifeStep, RollStep, BondStep, VoiceStep, SameState
  <2>5. QED
    BY <2>1, <2>3, <2>4, SurvivesSame
<1>2. QED
  BY <1>1 DEF SurvivesIn

\* Two organisms are single before they court.
LEMMA TryBirthSurvives ==
    ASSUME org \in Orgs, NEW a \in Ids, NEW b \in Ids, NEW granted, TryBirth(a, b, granted)
    PROVE  SurvivesIn(org')
<1> DEFINE f == Attempted(a, b)
<1>1. f \in Orgs
  BY AttemptedType
<1>2. ASSUME NEW x \in Ids
      PROVE  /\ SamePast(org[x], f[x]) /\ SameState(org[x], f[x])
             /\ f[x].roll = org[x].roll /\ f[x].sent = org[x].sent
             /\ f[x].inbox = org[x].inbox /\ f[x].partner = org[x].partner
             /\ f[x].wins = org[x].wins
             /\ f[x].attempts \in {org[x].attempts, org[x].attempts + 1}
             /\ x \in {a, b} /\ Lives(x) => f[x].attempts = org[x].attempts + 1
  <2> DEFINE n == org[x].attempts + 1
             r == [org[x] EXCEPT !.attempts = n]
  <2>1. org[x] \in OrgType
    BY DEF Orgs
  <2>2. /\ SamePast(org[x], r) /\ SameState(org[x], r)
        /\ r.roll = org[x].roll /\ r.sent = org[x].sent /\ r.inbox = org[x].inbox
        /\ r.partner = org[x].partner /\ r.attempts = n /\ r.wins = org[x].wins
    <3> HIDE DEF n
    <3>1. QED
      BY <2>1, Zenon DEF OrgType, SamePast, SameState
  <2>3. f[x] = IF x \in {a, b} /\ Lives(x) THEN r ELSE org[x]
    BY DEF Attempted
  <2> HIDE DEF r, f
  <2>4. QED
    BY <2>2, <2>3 DEF SamePast, SameState
<1> HIDE DEF f
<1>3. ASSUME NEW x \in Ids PROVE Survives(org[x], f[x])
  BY <1>2 DEF Survives, LifeStep, RollStep, BondStep, VoiceStep, SameState
<1>4. CASE granted /\ MayPair(a, b)
  <2>1. /\ a # b /\ Lives(a) /\ Lives(b)
        /\ org' = [f EXCEPT ![a].partner = b, ![a].progress = 0,
                            ![b].partner = a, ![b].progress = 0]
        /\ org[a].partner = 0 /\ org[b].partner = 0
    BY <1>4 DEF TryBirth, MayPair, f
  <2>2. ASSUME NEW x \in {a, b}, NEW p
        PROVE  Survives(org[x], [f[x] EXCEPT !.partner = p, !.progress = 0])
    <3> DEFINE r == [f[x] EXCEPT !.partner = p, !.progress = 0]
    <3>1. f[x] \in OrgType
      BY <1>1 DEF Orgs
    <3>2. /\ SamePast(f[x], r) /\ SameState(f[x], r)
          /\ r.roll = f[x].roll /\ r.sent = f[x].sent /\ r.inbox = f[x].inbox
          /\ r.attempts = f[x].attempts /\ r.wins = f[x].wins
      BY <3>1, Zenon DEF OrgType, SamePast, SameState
    <3> HIDE DEF r
    <3>3. /\ SamePast(org[x], r) /\ SameState(org[x], r)
          /\ r.roll = org[x].roll /\ r.sent = org[x].sent /\ r.inbox = org[x].inbox
          /\ r.attempts = org[x].attempts + 1 /\ r.wins = org[x].wins
      BY <1>2, <2>1, <3>2 DEF SamePast, SameState
    <3>4. BondStep(org[x], r)
      BY <2>1, <3>3 DEF BondStep
    <3>5. QED
      BY <3>3, <3>4 DEF Survives, LifeStep, RollStep, VoiceStep, SameState, r
  <2>3. \A x \in Ids : org'[x] = IF x = a THEN [f[a] EXCEPT !.partner = b, !.progress = 0]
                                 ELSE IF x = b THEN [f[b] EXCEPT !.partner = a, !.progress = 0]
                                 ELSE f[x]
    BY <1>1, <2>1 DEF Orgs
  <2>4. QED
    BY <1>3, <2>2, <2>3 DEF SurvivesIn
<1>5. CASE ~(granted /\ MayPair(a, b))
  BY <1>3, <1>5 DEF TryBirth, SurvivesIn, f
<1>6. QED
  BY <1>4, <1>5

LEMMA CompletedEvolves ==
    ASSUME PopulationInv, NEW o \in Living, NEW born \in BOOLEAN, NEW m \in Mutations,
           MayCourt(o), born => o # org[o].partner, pc = "courtship",
           org' = Completed(o, born, m)
    PROVE  AllEvolve
<1> DEFINE p == org[o].partner
           w == Descent(o, p, m)
<1>0. /\ org \in Orgs /\ nextId \in Nat /\ (nextId \in Ids => ~Lives(nextId))
      /\ date \in Dates /\ DateValid(date)
  BY MaxIdType DEF PopulationInv, TypeOK, PopulationBalances, Ids
<1>1. /\ o \in Ids /\ p \in Ids /\ org[o].partner # 0 /\ org[p].partner # 0
      /\ o \in Living /\ p \in Living
  BY MaxIdType DEF MayCourt, Reciprocal, Living, Ids
<1>5. o < nextId /\ p < nextId
  BY <1>0, <1>1, MaxIdType DEF PopulationInv, PopulationBalances, Living, Ids
<1>6. w \in OriginType
  BY <1>0, <1>1, DescentType
<1>7. born => OriginValid(nextId, w)
  <2>1. /\ w.date = date /\ w.mutations = m /\ w.parentA = o /\ w.parentB = p
        /\ w.generation # 0
    <3>1. /\ org[o].origin.generation \in Nat /\ org[p].origin.generation \in Nat
      BY <1>0, <1>1 DEF Orgs, OrgType, OriginType
    <3>2. QED
      BY <3>1 DEF Descent
  <2>2. m \in Nat /\ m <= GenomeCount /\ o # 0 /\ p # 0
    BY <1>1, BoundsAssumption, ConfigAssumption DEF Ids
  <2> HIDE DEF w, p
  <2>3. born => o # p
    BY DEF p
  <2>4. QED
    BY <1>0, <1>5, <2>1, <2>2, <2>3 DEF OriginValid
<1>2. ~IsFoolsDay(date)
  BY DEF MayCourt, Eligible
<1> HIDE DEF p, w
<1>3. ASSUME NEW x \in Ids PROVE Evolves(x, org[x], org'[x])
  <2> DEFINE n == Single(org[x]).wins + (IF born THEN 1 ELSE 0)
             r == [Single(org[x]) EXCEPT !.wins = n]
  <2>1. org[x] \in OrgType /\ Single(org[x]) \in OrgType
    BY <1>0, SingleType DEF Orgs
  <2>2. n = org[x].wins \/ n = org[x].wins + 1
    BY <2>1, SingleFields DEF OrgType
  <2>3. /\ SamePast(Single(org[x]), r) /\ SameState(Single(org[x]), r)
        /\ r.roll = Single(org[x]).roll /\ r.sent = Single(org[x]).sent
        /\ r.inbox = Single(org[x]).inbox /\ r.partner = Single(org[x]).partner
        /\ r.attempts = Single(org[x]).attempts /\ r.wins = n
    <3> HIDE DEF n
    <3>1. QED
      BY <2>1, Zenon DEF OrgType, SamePast, SameState
  <2>4. org'[x] = IF x = o \/ x = p THEN r
                  ELSE IF born /\ x = nextId THEN Newborn(tick, w) ELSE org[x]
    BY DEF Completed, p, w
  <2> HIDE DEF r, n
  <2>5. CASE x = o \/ x = p
    <3>1. /\ SamePast(org[x], r) /\ SameState(org[x], r)
          /\ r.roll = org[x].roll /\ r.sent = org[x].sent /\ r.inbox = org[x].inbox
          /\ r.attempts = org[x].attempts /\ r.wins = n /\ r.partner = 0
      BY <2>1, <2>3, SingleFields DEF SamePast, SameState
    <3>2. org[x].partner # 0
      BY <1>1, <2>5 DEF p
    <3>3. BondStep(org[x], r)
      BY <2>2, <3>1, <3>2 DEF BondStep
    <3>4. Survives(org[x], r)
      BY <3>1, <3>3 DEF Survives, LifeStep, RollStep, VoiceStep, SameState
    <3>5. QED
      BY <2>4, <2>5, <3>4 DEF Evolves
  <2>6. CASE ~(x = o \/ x = p)
    <3>1. born /\ x = nextId => org[x].state = "NONE"
      BY <1>0 DEF Lives
    <3>2. CASE born /\ x = nextId
      <4>1. org'[x] = Newborn(tick, w)
        BY <2>4, <2>6, <3>2
      <4>2. QED
        BY <1>2, <1>6, <1>7, <3>1, <3>2, <4>1 DEF Evolves, IsBorn
    <3>3. QED
      BY <2>1, <2>4, <2>6, <3>2, SurvivesSame DEF Evolves
  <2>7. QED
    BY <2>5, <2>6
<1>4. QED
  BY <1>3 DEF AllEvolve

(***************************************************************************)
(* Every step but delivery and accounting                                  *)
(***************************************************************************)
LEMMA UnmovedEvolve ==
    ASSUME org \in Orgs, org' = org
    PROVE  AllEvolve
<1>1. \A x \in Ids : Survives(org[x], org[x])
  BY SurvivesSame DEF Orgs
<1>2. QED
  BY <1>1 DEF AllEvolve, Evolves

LEMMA SurvivorsEvolve == SurvivesIn(org') => AllEvolve
BY DEF AllEvolve, Evolves, SurvivesIn

LEMMA RemoveAtWorld ==
    ASSUME TypeOK, NEW k \in DOMAIN slots, Removable(org[slots[k]]), RemoveAt(org, tally, k)
    PROVE  AllEvolve
<1>1. org \in Orgs /\ slots \in Seq(Ids)
  BY DEF TypeOK
<1>2. SurvivesBut(org, slots[k])
  BY <1>1, SurvivesSame DEF SurvivesBut, Orgs
<1>3. QED
  BY <1>1, <1>2, RemoveAtEvolves

LEMMA SlotsLive ==
    ASSUME PopulationInv, NEW k \in DOMAIN slots
    PROVE  slots[k] \in Living /\ org[slots[k]].state # "NONE"
BY DEF PopulationInv, ArrayHoldsTheLiving, Living, Lives

LEMMA ScansEvolve ==
    PopulationInv /\ (ReturnFromOff \/ FoolAwake \/ FoolAsleep \/ DormancyTimeout) => AllEvolve
<1> SUFFICES ASSUME PopulationInv, ReturnFromOff \/ FoolAwake \/ FoolAsleep \/ DormancyTimeout
             PROVE  AllEvolve
  OBVIOUS
<1>0. /\ org \in Orgs /\ slots \in Seq(Ids) /\ tick \in Nat /\ idx \in Nat \ {0} /\ TypeOK
      /\ Here \subseteq DOMAIN slots /\ \A x \in Ids : org[x] \in OrgType
  BY DEF PopulationInv, TypeOK, Here, Orgs
<1>1. CASE ReturnFromOff
  <2>1. PICK j \in Expired : org' = TransitionIn(org, slots[j], "ASLEEP", 0)
    BY <1>1 DEF ReturnFromOff, Transition
  <2>2. slots[j] \in Ids /\ Moves(org[slots[j]], "ASLEEP")
    BY <1>0, <1>1 DEF Expired, Moves, ReturnFromOff
  <2>3. SurvivesIn(org) /\ SameState(org[slots[j]], org[slots[j]])
    BY <1>0, SurvivesSame DEF SurvivesIn, SameState
  <2>4. "ASLEEP" \in LifeStates /\ "ASLEEP" # "AWAKE" /\ 0 \in Nat
    BY DEF LifeStates
  <2>5. QED
    BY <1>0, <2>1, <2>2, <2>3, <2>4, TransitionSurvives, SurvivorsEvolve
<1>2. CASE FoolAwake
  <2>1. PICK j \in Judged : org[slots[j]].state = "AWAKE" /\ RemoveAt(org, tally, j)
    BY <1>2 DEF FoolAwake
  <2>2. j \in DOMAIN slots /\ Removable(org[slots[j]])
    BY <1>0, <2>1 DEF Judged, Removable
  <2>3. QED
    BY <1>0, <2>1, <2>2, RemoveAtWorld
<1>3. CASE FoolAsleep
  <2>1. PICK j \in Judged, survived \in BOOLEAN :
            LET rolled == [org EXCEPT ![slots[j]].roll = date.year] IN
            /\ org[slots[j]].state = "ASLEEP"
            /\ IF survived THEN org' = rolled /\ UNCHANGED <<slots, tally>>
               ELSE RemoveAt(rolled, tally, j)
    BY <1>3 DEF FoolAsleep
  <2> DEFINE o == slots[j]
             r == [org[o] EXCEPT !.roll = date.year]
             rolled == [org EXCEPT ![o].roll = date.year]
  <2>2. j \in DOMAIN slots /\ o \in Ids
    BY <1>0 DEF Judged
  <2>3. /\ IsFoolsDay(date) /\ org[o].state = "ASLEEP" /\ org[o].roll # date.year
        /\ pc = "foolsday"
    BY <1>3, <2>1 DEF Judged, FoolAsleep
  <2>4. /\ r \in OrgType /\ SamePast(org[o], r) /\ SameState(org[o], r)
        /\ r.roll = date.year /\ r.sent = org[o].sent /\ r.inbox = org[o].inbox
        /\ r.partner = org[o].partner /\ r.attempts = org[o].attempts /\ r.wins = org[o].wins
    <3>1. date.year \in 0..LastYear /\ org[o] \in OrgType
      BY <1>0, <2>2, LastYearType DEF TypeOK, Dates
    <3>2. QED
      BY <3>1, Zenon DEF OrgType, SamePast, SameState
  <2>5. rolled \in Orgs /\ \A x \in Ids : rolled[x] = IF x = o THEN r ELSE org[x]
    BY <1>0, <2>2, <2>4 DEF Orgs
  <2> HIDE DEF r, o, rolled
  <2>6. Survives(org[o], r)
    BY <2>3, <2>4 DEF Survives, LifeStep, RollStep, BondStep, VoiceStep, SameState
  <2>7. SurvivesIn(rolled)
    BY <1>0, <2>5, <2>6, SurvivesSame DEF SurvivesIn
  <2>8. CASE survived
    <3>1. org' = rolled
      BY <2>1, <2>8 DEF rolled, o
    <3>2. QED
      BY <2>7, <3>1, SurvivorsEvolve
  <2>9. CASE ~survived
    <3>1. RemoveAt(rolled, tally, j)
      BY <2>1, <2>9 DEF rolled, o
    <3>2. SurvivesBut(rolled, slots[j])
      BY <2>7 DEF SurvivesIn, SurvivesBut
    <3>3. Removable(org[slots[j]])
      BY <2>3 DEF Removable, o
    <3>4. QED
      BY <1>0, <2>2, <2>5, <3>1, <3>2, <3>3, RemoveAtEvolves
  <2>10. QED
    BY <2>8, <2>9
<1>4. CASE DormancyTimeout
  <2>1. PICK j \in Dormant : RemoveAt(org, tally, j)
    BY <1>4 DEF DormancyTimeout
  <2>2. j \in DOMAIN slots
    BY <1>0 DEF Dormant
  <2>3. Removable(org[slots[j]])
    BY <1>4, <2>2, SlotsLive DEF Removable, DormancyTimeout
  <2>4. QED
    BY <1>0, <2>1, <2>2, <2>3, RemoveAtWorld
<1>5. QED
  BY <1>1, <1>2, <1>3, <1>4

\* A transition in the execution loop, after the networks made f of the
\* organisms, and the settlement that follows.
LEMMA MovesEvolve ==
    ASSUME TypeOK, pc = "execute", NEW o \in Living, NEW state, AtWork(o, state), NEW f \in Orgs,
           SurvivesIn(f), SameState(org[o], f[o]), NEW to \in LifeStates, NEW d \in Nat,
           Moves(org[o], to), (to = "AWAKE") => ~IsFoolsDay(date),
           NEW c, Settle(o, TransitionIn(f, o, to, d), c)
    PROVE  AllEvolve
<1>1. org \in Orgs /\ tick \in Nat /\ o \in Ids /\ idx \in DOMAIN slots /\ o = slots[idx]
  BY LivingType DEF TypeOK, AtWork
<1>2. TransitionIn(f, o, to, d) \in Orgs
  BY <1>1, TransitionInType
<1>3. SurvivesIn(TransitionIn(f, o, to, d))
  BY <1>1, TransitionSurvives DEF WakesHere
<1>4. QED
  BY <1>1, <1>2, <1>3, SettleEvolves

LEMMA ExecutesEvolve == PopulationInv /\ (Executes \/ InvalidDies) => AllEvolve
<1> SUFFICES ASSUME PopulationInv, Executes \/ InvalidDies
             PROVE  AllEvolve
  OBVIOUS
<1>0. /\ TypeOK /\ org \in Orgs /\ slots \in Seq(Ids) /\ tick \in Nat /\ Living \subseteq Ids
      /\ {"AWAKE", "ASLEEP", "OFF"} = LifeStates
      /\ \A x \in Ids : org[x] \in OrgType
  BY DEF PopulationInv, TypeOK, Living, LifeStates, Orgs
<1>1. CASE InvalidDies
  <2>1. idx \in DOMAIN slots /\ RemoveAt(org, tally, idx) /\ pc = "execute"
    BY <1>0, <1>1 DEF TypeOK, InvalidDies
  <2>2. QED
    BY <1>0, <2>1, SlotsLive, RemoveAtWorld DEF Removable
<1>2. ASSUME NEW o \in Living, NEW state, AtWork(o, state), NEW f \in Orgs, SurvivesIn(f),
             NEW c, Settle(o, f, c)
      PROVE  AllEvolve
  <2>1. pc = "execute" /\ idx \in DOMAIN slots /\ o = slots[idx]
    BY <1>0, <1>2 DEF TypeOK, AtWork
  <2>2. QED
    BY <1>0, <1>2, <2>1, SettleEvolves
<1>3. CASE ExecuteOff
  <2>1. PICK o \in Living : AtWork(o, "OFF") /\ Settle(o, [org EXCEPT ![o].sent = FALSE], tally)
    BY <1>3 DEF ExecuteOff
  <2> DEFINE r == [org[o] EXCEPT !.sent = FALSE]
             f == [org EXCEPT ![o].sent = FALSE]
  <2>2. /\ r \in OrgType /\ SamePast(org[o], r) /\ SameState(org[o], r)
        /\ r.roll = org[o].roll /\ ~r.sent /\ r.inbox = org[o].inbox
        /\ r.partner = org[o].partner /\ r.attempts = org[o].attempts /\ r.wins = org[o].wins
    <3>1. org[o] \in OrgType
      BY <1>0
    <3>2. QED
      BY <3>1, Zenon DEF OrgType, SamePast, SameState
  <2>3. f \in Orgs /\ \A x \in Ids : f[x] = IF x = o THEN r ELSE org[x]
    BY <1>0, <2>2 DEF Orgs
  <2> HIDE DEF r, f
  <2>4. Survives(org[o], r)
    BY <2>1, <2>2 DEF AtWork, Survives, LifeStep, RollStep, BondStep, VoiceStep, SameState
  <2>5. SurvivesIn(f)
    BY <1>0, <2>3, <2>4, SurvivesSame DEF SurvivesIn
  <2>6. QED
    BY <1>2, <2>1, <2>3, <2>5 DEF f
<1>4. CASE StayAwake
  <2>1. PICK o \in Living, consents \in BOOLEAN, v \in Outcomes :
            AtWork(o, "AWAKE") /\ Settle(o, AwakeRun(o, consents, v), tally)
    BY <1>4 DEF StayAwake
  <2>2. AwakeRun(o, consents, v) \in Orgs /\ SurvivesIn(AwakeRun(o, consents, v))
    BY <1>0, <2>1, AwakeRunType, AwakeRunSurvives DEF AtWork
  <2>3. QED
    BY <1>2, <2>1, <2>2
<1>5. CASE FallAsleep
  <2>1. PICK o \in Living, v \in Outcomes :
            /\ AtWork(o, "AWAKE")
            /\ Settle(o, TransitionIn(AwakeRun(o, FALSE, v), o, "ASLEEP", 0),
                         TransitionTally(AwakeRun(o, FALSE, v), tally, o, "ASLEEP"))
    BY <1>5 DEF FallAsleep
  <2>2. /\ AwakeRun(o, FALSE, v) \in Orgs /\ SurvivesIn(AwakeRun(o, FALSE, v))
        /\ SameState(org[o], AwakeRun(o, FALSE, v)[o])
    BY <1>0, <2>1, AwakeRunType, AwakeRunSurvives DEF AtWork
  <2>3. Moves(org[o], "ASLEEP") /\ pc = "execute" /\ "ASLEEP" \in LifeStates /\ 0 \in Nat
    BY <1>0, <2>1 DEF Moves, AtWork
  <2>4. QED
    BY <1>0, <2>1, <2>2, <2>3, MovesEvolve
<1>6. CASE Doze
  <2>1. PICK o \in Living, v \in Outcomes :
            AtWork(o, "ASLEEP") /\ Settle(o, AsleepRun(o, v), tally)
    BY <1>6 DEF Doze
  <2>2. AsleepRun(o, v) \in Orgs /\ SurvivesIn(AsleepRun(o, v))
    BY <1>0, <2>1, AsleepRunType, AsleepRunSurvives DEF AtWork
  <2>3. QED
    BY <1>2, <2>1, <2>2
<1>7. CASE SwitchOff
  <2>1. PICK o \in Living, v \in Outcomes, d \in OffMin..OffMax :
            /\ AtWork(o, "ASLEEP")
            /\ Settle(o, TransitionIn(AsleepRun(o, v), o, "OFF", d),
                         TransitionTally(AsleepRun(o, v), tally, o, "OFF"))
    BY <1>7 DEF SwitchOff
  <2>2. /\ AsleepRun(o, v) \in Orgs /\ SurvivesIn(AsleepRun(o, v))
        /\ SameState(org[o], AsleepRun(o, v)[o])
    BY <1>0, <2>1, AsleepRunType, AsleepRunSurvives DEF AtWork
  <2>3. Moves(org[o], "OFF") /\ pc = "execute" /\ "OFF" \in LifeStates /\ d \in Nat
    BY <1>0, <2>1, ConfigAssumption DEF Moves, AtWork
  <2>4. QED
    BY <1>0, <2>1, <2>2, <2>3, MovesEvolve
<1>8. CASE WakeUp
  <2>1. PICK o \in Living, v \in Outcomes :
            /\ AtWork(o, "ASLEEP")
            /\ IF IsFoolsDay(date)
               THEN RemoveAt(TransitionIn(AsleepRun(o, v), o, "AWAKE", 0), tally, idx)
               ELSE Settle(o, TransitionIn(AsleepRun(o, v), o, "AWAKE", 0), tally)
    BY <1>8 DEF WakeUp
  <2>2. /\ AsleepRun(o, v) \in Orgs /\ SurvivesIn(AsleepRun(o, v))
        /\ SameState(org[o], AsleepRun(o, v)[o])
    BY <1>0, <2>1, AsleepRunType, AsleepRunSurvives DEF AtWork
  <2>3. Moves(org[o], "AWAKE") /\ pc = "execute" /\ "AWAKE" \in LifeStates /\ 0 \in Nat
    BY <1>0, <2>1 DEF Moves, AtWork
  <2>4. CASE IsFoolsDay(date)
    <3> DEFINE f == TransitionIn(AsleepRun(o, v), o, "AWAKE", 0)
    <3>1. f \in Orgs /\ SurvivesBut(f, o) /\ o \in Ids
      BY <1>0, <2>2, <2>3, TransitionInType, TransitionSurvives
    <3>2. RemoveAt(f, tally, idx) /\ idx \in DOMAIN slots /\ o = slots[idx]
      BY <1>0, <2>1, <2>4 DEF AtWork, TypeOK
    <3> HIDE DEF f
    <3>3. Removable(org[o])
      BY <2>3 DEF Removable, Living, Lives
    <3>4. QED
      BY <1>0, <3>1, <3>2, <3>3, RemoveAtEvolves
  <2>5. CASE ~IsFoolsDay(date)
    BY <1>0, <2>1, <2>2, <2>3, <2>5, MovesEvolve
  <2>6. QED
    BY <2>4, <2>5
<1>9. QED
  BY <1>1, <1>3, <1>4, <1>5, <1>6, <1>7, <1>8 DEF Executes

LEMMA RestEvolves ==
    PopulationInv /\ (Courts \/ EvictOldest \/ Pair \/ Host) => AllEvolve
<1> SUFFICES ASSUME PopulationInv, Courts \/ EvictOldest \/ Pair \/ Host
             PROVE  AllEvolve
  OBVIOUS
<1>0. /\ TypeOK /\ org \in Orgs /\ slots \in Seq(Ids) /\ tick \in Nat /\ Living \subseteq Ids
      /\ \A x \in Ids : org[x] \in OrgType
      /\ SurvivesIn(org)
  BY SurvivesSame DEF PopulationInv, TypeOK, Living, Orgs, SurvivesIn
<1>1. CASE CourtshipFails
  <2>1. PICK o \in Living : org' = CancelIn(org, o)
    BY <1>1 DEF CourtshipFails
  <2>2. SurvivesIn(org')
    BY <1>0, <2>1, CancelSurvives DEF SurvivesIn
  <2>3. QED
    BY <2>2, SurvivorsEvolve
<1>2. CASE CourtshipGoesOn
  <2>1. PICK o \in Living : org' = Progressed(o)
    BY <1>2 DEF CourtshipGoesOn
  <2>2. QED
    BY <1>0, <2>1, ProgressedSurvives, SurvivorsEvolve
<1>3. CASE CourtshipEnds
  <2>1. PICK o \in Living, born \in BOOLEAN, m \in Mutations :
            /\ MayCourt(o) /\ (born => o # org[o].partner)
            /\ org' = Completed(o, born, m) /\ pc = "courtship"
    BY <1>3 DEF CourtshipEnds, Met
  <2>2. QED
    BY <2>1, CompletedEvolves
<1>4. CASE EvictOldest
  <2>1. PICK j \in DOMAIN slots : RemoveAt(org, tally, j)
    BY <1>4 DEF EvictOldest
  <2>2. Removable(org[slots[j]])
    BY <1>4, SlotsLive DEF EvictOldest, Removable
  <2>3. QED
    BY <1>0, <2>1, <2>2, RemoveAtWorld
<1>5. CASE Pair \/ HostTryBirth
  <2>1. PICK a, b \in Ids, granted \in BOOLEAN : TryBirth(a, b, granted)
    BY <1>0, <1>5 DEF Pair, HostTryBirth
  <2>2. QED
    BY <1>0, <2>1, TryBirthSurvives, SurvivorsEvolve
<1>6. CASE HostTransition
  <2>1. PICK o \in Living, to \in LifeStates, d \in {0, OffMax + 1} :
            TransitionAllowed(o, to) /\ org' = TransitionIn(org, o, to, d) /\ pc = "idle"
    BY <1>6 DEF HostTransition, Transition, HostCall
  <2>2. d \in Nat /\ o \in Ids /\ Moves(org[o], to) /\ SameState(org[o], org[o])
    BY <1>0, <2>1, ConfigAssumption DEF TransitionAllowed, Moves, SameState
  <2>3. SurvivesIn(org')
    BY <1>0, <2>1, <2>2, TransitionSurvives DEF WakesHere
  <2>4. QED
    BY <2>3, SurvivorsEvolve
<1>7. CASE HostSpoils
  <2>1. PICK o \in Living : org' = [org EXCEPT ![o].sound = FALSE]
    BY <1>7 DEF HostSpoils
  <2> DEFINE r == [org[o] EXCEPT !.sound = FALSE]
  <2>2. /\ SamePast(org[o], r) /\ SameState(org[o], r)
        /\ r.roll = org[o].roll /\ r.sent = org[o].sent /\ r.inbox = org[o].inbox
        /\ r.partner = org[o].partner /\ r.attempts = org[o].attempts /\ r.wins = org[o].wins
    <3>1. org[o] \in OrgType
      BY <1>0
    <3>2. QED
      BY <3>1, Zenon DEF OrgType, SamePast, SameState
  <2>3. \A x \in Ids : org'[x] = IF x = o THEN r ELSE org[x]
    BY <1>0, <2>1 DEF Orgs
  <2> HIDE DEF r
  <2>4. Survives(org[o], r)
    BY <2>2 DEF Survives, LifeStep, RollStep, BondStep, VoiceStep, SameState
  <2>5. SurvivesIn(org')
    BY <1>0, <2>3, <2>4 DEF SurvivesIn
  <2>6. QED
    BY <2>5, SurvivorsEvolve
<1>8. QED
  BY <1>1, <1>2, <1>3, <1>4, <1>5, <1>6, <1>7 DEF Courts, Host

\* Whatever step is taken, delivery and accounting apart, each organism
\* evolves as the relations above say.
LEMMA StepsEvolve ==
    PopulationInv /\ [Next]_vars => AllEvolve \/ Deliver \/ Account
<1> SUFFICES ASSUME PopulationInv, [Next]_vars PROVE AllEvolve \/ Deliver \/ Account
  OBVIOUS
<1>1. org \in Orgs
  BY DEF PopulationInv, TypeOK
<1>2. (Passes \/ StartTick \/ Terminated \/ UNCHANGED vars) => org' = org
  BY PassesLeavesWorld DEF StartTick, Terminated, vars, world
<1>3. QED
  BY <1>1, <1>2, UnmovedEvolve, ScansEvolve, ExecutesEvolve, RestEvolves
     DEF Next, Step, Passes, Executes, Courts

(***************************************************************************)
(* What moves the clock, the phase and the ids                             *)
(***************************************************************************)
\* The head of a step moves the date, accounting the tick.
LEMMA ClockFlow == [Next]_vars => UNCHANGED clock \/ StartTick \/ Account
BY PassesLeavesWorld
   DEF Next, Step, Host, Passes, Terminated, vars, clock, control, HostCall, HostTransition,
       HostTryBirth, HostSpoils, ReturnFromOff, FoolAwake, FoolAsleep, DormancyTimeout,
       InvalidDies, ExecuteOff, StayAwake, FallAsleep, Doze, SwitchOff, WakeUp, ExecuteRest,
       Deliver, CourtshipFails, CourtshipGoesOn, CourtshipEnds, EvictOldest, Pair

\* Only the end of the courtship loop notes the first new id.
LEMMA FirstNewFlow == [Next]_vars => firstNew' = firstNew \/ CourtshipsDone
BY DEF Next, Step, Host, Terminated, vars, clock, control, HostCall, HostTransition,
       HostTryBirth, HostSpoils, ReturnFromOff, FoolAwake, FoolAsleep, DormancyTimeout,
       InvalidDies, ExecuteOff, StayAwake, FallAsleep, Doze, SwitchOff, WakeUp, ExecuteRest,
       Deliver, CourtshipFails, CourtshipGoesOn, CourtshipEnds, EvictOldest, Pair,
       StartTick, CalendarEnds, RunEnds, TimersDone, FoolsDayDone, DormancyDone,
       ExecutionDone, BirthFits, PopulationFits, PairingDone, Account, Periodic

\* Only a birth gives out an id.
LEMMA NextIdFlow == [Next]_vars => nextId' = nextId \/ CourtshipEnds
BY PassesLeavesWorld
   DEF Next, Step, Host, Passes, Terminated, vars, world, HostCall, HostTransition,
       HostTryBirth, HostSpoils, ReturnFromOff, FoolAwake, FoolAsleep, DormancyTimeout,
       InvalidDies, ExecuteOff, StayAwake, FallAsleep, Doze, SwitchOff, WakeUp, ExecuteRest,
       Deliver, CourtshipFails, CourtshipGoesOn, EvictOldest, Pair, StartTick, Account

\* The steps that leave a phase.
LEMMA PhaseFlow ==
    [Next]_vars => pc' = pc \/ Passes \/ StartTick \/ CourtshipEnds \/ Deliver \/ Account
BY DEF Next, Step, Host, Passes, Terminated, vars, clock, control, HostCall, HostTransition,
       HostTryBirth, HostSpoils, ReturnFromOff, FoolAwake, FoolAsleep, DormancyTimeout,
       InvalidDies, ExecuteOff, StayAwake, FallAsleep, Doze, SwitchOff, WakeUp, ExecuteRest,
       CourtshipFails, CourtshipGoesOn, EvictOldest, Pair

LEMMA NextDateYear ==
    ASSUME NEW d \in Dates
    PROVE  NextDate(d).year >= d.year
BY DEF NextDate, Date, Dates

\* Delivery fills the inboxes and does nothing else to an organism.
LEMMA DeliverOrg ==
    ASSUME org \in Orgs, Deliver, NEW x \in Ids
    PROVE  LET r == org[x]  s == org'[x] IN
           /\ SamePast(r, s) /\ SameState(r, s) /\ s.roll = r.roll
           /\ s.partner = r.partner /\ s.wins = r.wins /\ s.attempts = r.attempts
           /\ s.sent = r.sent /\ s.inbox = IF Lives(x) THEN InboxOf(x) ELSE r.inbox
<1> DEFINE r == org[x]
           box == InboxOf(x)
           s == [r EXCEPT !.inbox = box]
<1>1. r \in OrgType
  BY DEF Orgs
<1>2. org'[x] = IF Lives(x) THEN s ELSE r
  BY DEF Deliver
<1>3. /\ SamePast(r, s) /\ SameState(r, s) /\ s.roll = r.roll
      /\ s.partner = r.partner /\ s.wins = r.wins /\ s.attempts = r.attempts
      /\ s.sent = r.sent /\ s.inbox = box
  <2> HIDE DEF r, box
  <2>1. QED
    BY <1>1, Zenon DEF OrgType, SamePast, SameState
<1>4. SamePast(r, r) /\ SameState(r, r)
  BY DEF SamePast, SameState
<1> HIDE DEF r, s, box
<1>5. QED
  BY <1>2, <1>3, <1>4 DEF r, box

\* Accounting ages an organism and notes who was awake.
LEMMA AccountOrg ==
    ASSUME org \in Orgs, NEW r \in OrgType, tick \in Nat
    PROVE  LET s == Accounted(r) IN
           /\ s.birth = r.birth /\ s.age = r.age + 1
           /\ s.bio = r.bio + AgeRate(r) /\ s.reward = r.reward + AgeRate(r)
           /\ s.state = r.state /\ s.backOn = r.backOn
           /\ s.lastAwake = IF r.state = "AWAKE" THEN tick ELSE r.lastAwake
           /\ s.roll = r.roll /\ s.partner = r.partner /\ s.wins = r.wins
           /\ s.attempts = r.attempts /\ s.sent = r.sent /\ s.inbox = r.inbox
           /\ s.origin = r.origin /\ s.executions = r.executions /\ s.changes = r.changes
<1> DEFINE awake == IF r.state = "AWAKE" THEN tick ELSE r.lastAwake
           age == r.age + 1
           bio == r.bio + AgeRate(r)
           reward == r.reward + AgeRate(r)
           s == [r EXCEPT !.age = age, !.bio = bio, !.reward = reward, !.lastAwake = awake]
<1>1. Accounted(r) = s
  BY DEF Accounted
<1>2. /\ s.birth = r.birth /\ s.age = age /\ s.bio = bio /\ s.reward = reward
      /\ s.state = r.state /\ s.backOn = r.backOn /\ s.lastAwake = awake
      /\ s.roll = r.roll /\ s.partner = r.partner /\ s.wins = r.wins
      /\ s.attempts = r.attempts /\ s.sent = r.sent /\ s.inbox = r.inbox
      /\ s.origin = r.origin /\ s.executions = r.executions /\ s.changes = r.changes
  <2> HIDE DEF awake, age, bio, reward
  <2>1. QED
    BY Zenon DEF OrgType
<1>3. QED
  BY <1>1, <1>2

(***************************************************************************)
(* Each organism on its own                                                *)
(***************************************************************************)
\* Who is not off has no timer, and nobody's timer is out of reach.
TimerSane(r) ==
    /\ r.state # "OFF" => r.backOn = 0
    /\ r.backOn <= tick + OffMax

\* The age is the time since birth, and no reward outlives its age.
AgeSane(r) ==
    /\ r.state # "NONE" => r.age + r.birth = tick
    /\ r.reward = r.bio

\* The awake were awake in this tick or the one before.
AwakeSane(r) ==
    /\ r.lastAwake <= tick
    /\ r.state = "AWAKE" => tick <= r.lastAwake + 1

RollSane(r) == r.roll <= date.year

BondSane(r) == r.wins + (IF r.partner # 0 THEN 1 ELSE 0) <= r.attempts

VoiceSane(x, r) ==
    /\ r.sent => r.state = "AWAKE"
    /\ r.inbox # {} => r.state = "AWAKE"
    /\ x \notin r.inbox

\* The networks have not changed more often than they have run.
RunsSane(r) == r.changes <= r.executions

OriginSane(x, r) == OriginValid(x, r.origin)

Sane(x, r) ==
    /\ TimerSane(r) /\ AgeSane(r) /\ AwakeSane(r)
    /\ RollSane(r) /\ BondSane(r) /\ VoiceSane(x, r)
    /\ RunsSane(r) /\ OriginSane(x, r)

\* From the births to the accounting, first_new_id is the next id.
FirstNewNoted == pc \in {"pairing", "evict", "account"} => firstNew = nextId

OrganismInv == PopulationInv /\ FirstNewNoted /\ \A x \in Ids : Sane(x, org[x])

LEMMA SurvivesSane ==
    ASSUME tick \in Nat, NEW x, NEW r \in OrgType, NEW s \in OrgType, Sane(x, r), Survives(r, s)
    PROVE  Sane(x, s)
<1>0. OffMax \in Nat /\ OffMin \in Nat
  BY ConfigAssumption
<1>1. LifeStep(r, s) /\ SamePast(r, s) /\ RollStep(r, s) /\ BondStep(r, s) /\ VoiceStep(r, s)
  BY DEF Survives
<1>2. TimerSane(s)
  BY <1>0, <1>1 DEF Sane, TimerSane, LifeStep, SameState, Sleeps, Awakens, GoesOff, ComesBack, OrgType
<1>3. AgeSane(s)
  BY <1>1 DEF Sane, AgeSane, SamePast, LifeStep, SameState, Sleeps, Awakens, GoesOff, ComesBack
<1>4. AwakeSane(s)
  BY <1>1 DEF Sane, AwakeSane, LifeStep, SameState, Sleeps, Awakens, GoesOff, ComesBack, OrgType
<1>5. RollSane(s)
  BY <1>1 DEF Sane, RollSane, RollStep, OrgType
<1>6. BondSane(s)
  BY <1>1 DEF Sane, BondSane, BondStep, OrgType
<1>7. VoiceSane(x, s)
  BY <1>1 DEF Sane, VoiceSane, VoiceStep
<1>8. RunsSane(s) /\ OriginSane(x, s)
  BY <1>1 DEF Sane, RunsSane, OriginSane, SamePast
<1>9. QED
  BY <1>2, <1>3, <1>4, <1>5, <1>6, <1>7, <1>8 DEF Sane

LEMMA SeedSane ==
    ASSUME NEW x, NEW m \in 0..GenomeCount
    PROVE  OriginValid(x, Seed(m))
BY ConfigAssumption DEF OriginValid, Seed

LEMMA EvolvesSane ==
    ASSUME tick \in Nat, date \in Dates, NEW x \in Ids, NEW r \in OrgType, NEW s \in OrgType,
           Sane(x, r), Evolves(x, r, s)
    PROVE  Sane(x, s)
<1>0. OffMax \in Nat
  BY ConfigAssumption
<1>1. CASE Survives(r, s)
  BY <1>1, SurvivesSane
<1>2. CASE Removed(r, s)
  <2>1. OriginValid(x, Seed(0))
    BY SeedSane, ConfigAssumption
  <2>2. QED
    BY <1>0, <1>2, <2>1 DEF Removed, Nobody, Sane, TimerSane, AgeSane, AwakeSane, RollSane,
                            BondSane, VoiceSane, RunsSane, OriginSane, Dates
<1>3. CASE IsBorn(x, r, s)
  <2>1. /\ s.state = "AWAKE" /\ s.backOn = 0 /\ s.lastAwake = tick /\ s.birth = tick
        /\ s.age = 0 /\ s.bio = 0 /\ s.reward = 0 /\ s.partner = 0 /\ s.roll = 0
        /\ ~s.sent /\ s.inbox = {} /\ s.attempts = 0 /\ s.wins = 0
        /\ s.executions = 0 /\ s.changes = 0 /\ OriginValid(x, s.origin)
    BY <1>3, NewbornFields DEF IsBorn
  <2>2. QED
    BY <1>0, <2>1 DEF Sane, TimerSane, AgeSane, AwakeSane, RollSane, BondSane, VoiceSane,
                      RunsSane, OriginSane, Dates
<1>4. QED
  BY <1>1, <1>2, <1>3 DEF Evolves

LEMMA OrganismInit == Init => OrganismInv
<1> SUFFICES ASSUME Init PROVE OrganismInv
  OBVIOUS
<1>1. OffMax \in Nat
  BY ConfigAssumption
<1>2. PopulationInv /\ date \in Dates
  BY PopulationInit DEF PopulationInv, TypeOK
<1>3. tick = 0 /\ pc = "idle"
  BY DEF Init
<1>4. ASSUME NEW x \in Ids PROVE Sane(x, org[x])
  <2>1. org[x] = Nobody \/ \E m \in 0..GenomeCount : org[x] = Newborn(0, Seed(m))
    BY SeedsInit
  <2>2. ASSUME NEW r, NEW m \in 0..GenomeCount, r = Newborn(0, Seed(m)) \/ r = Nobody
        PROVE  Sane(x, r)
    <3>1. /\ r.state # "OFF" /\ r.backOn = 0 /\ r.lastAwake = 0 /\ r.birth = 0
          /\ r.age = 0 /\ r.bio = 0 /\ r.reward = 0 /\ r.partner = 0
          /\ r.roll = 0 /\ ~r.sent /\ r.inbox = {} /\ r.attempts = 0 /\ r.wins = 0
          /\ r.executions = 0 /\ r.changes = 0 /\ OriginValid(x, r.origin)
      <4>1. CASE r = Nobody
        BY <4>1, SeedSane, ConfigAssumption DEF Nobody
      <4>2. CASE r = Newborn(0, Seed(m))
        BY <4>2, NewbornFields, SeedSane
      <4>3. QED
        BY <2>2, <4>1, <4>2
    <3>2. QED
      BY <1>1, <1>2, <1>3, <3>1
         DEF Sane, TimerSane, AgeSane, AwakeSane, RollSane, BondSane, VoiceSane,
             RunsSane, OriginSane, Dates
  <2>3. QED
    BY <2>1, <2>2, ConfigAssumption
<1>5. QED
  BY <1>2, <1>3, <1>4 DEF OrganismInv, FirstNewNoted

LEMMA FirstNewStep == FirstNewNoted /\ [Next]_vars => FirstNewNoted'
<1> SUFFICES ASSUME FirstNewNoted, [Next]_vars, pc' \in {"pairing", "evict", "account"}
             PROVE  firstNew' = nextId'
  BY DEF FirstNewNoted
<1>1. CourtshipEnds => pc' \in {"courtship", "birthEvict"}
  BY DEF CourtshipEnds, Met
<1>2. nextId' = nextId
  BY <1>1, NextIdFlow
<1>3. CourtshipsDone => firstNew' = nextId
  BY DEF CourtshipsDone
<1>4. CASE ~CourtshipsDone
  <2>1. firstNew' = firstNew
    BY <1>4, FirstNewFlow
  <2>2. pc \in {"pairing", "evict", "account"}
    BY <1>1, <1>4, PhaseFlow
       DEF Passes, CalendarEnds, RunEnds, TimersDone, FoolsDayDone, DormancyDone,
           ExecutionDone, BirthFits, PopulationFits, PairingDone, Periodic, StartTick,
           Deliver, Account, Goto
  <2>3. QED
    BY <1>2, <2>1, <2>2 DEF FirstNewNoted
<1>5. QED
  BY <1>2, <1>3, <1>4

LEMMA OrganismStep == OrganismInv /\ [Next]_vars => OrganismInv'
<1> SUFFICES ASSUME OrganismInv, [Next]_vars PROVE OrganismInv'
  OBVIOUS
<1>1. PopulationInv /\ PopulationInv' /\ FirstNewNoted'
  BY PopulationStep, FirstNewStep DEF OrganismInv
<1>2. /\ tick \in Nat /\ date \in Dates /\ org \in Orgs /\ org' \in Orgs
      /\ \A x \in Ids : org[x] \in OrgType /\ org'[x] \in OrgType /\ Sane(x, org[x])
  BY <1>1 DEF PopulationInv, TypeOK, Orgs, OrganismInv
<1>3. ASSUME NEW x \in Ids PROVE Sane(x, org[x])'
  <2> DEFINE r == org[x]
             s == org'[x]
  <2>0. r \in OrgType /\ s \in OrgType /\ Sane(x, r)
    BY <1>2
  <2>1. CASE AllEvolve /\ UNCHANGED clock
    <3>1. Evolves(x, r, s)
      BY <2>1 DEF AllEvolve
    <3>2. Sane(x, s)
      BY <1>2, <2>0, <3>1, EvolvesSane
    <3>3. tick' = tick /\ date' = date
      BY <2>1 DEF clock
    <3>4. QED
      BY <3>2, <3>3 DEF Sane, TimerSane, AgeSane, AwakeSane, RollSane, BondSane, VoiceSane,
                        RunsSane, OriginSane
  <2>2. CASE StartTick
    <3>1. s = r /\ tick' = tick
      BY <2>2 DEF StartTick, world
    <3>2. date'.year >= date.year
      BY <1>2, <2>2, NextDateYear DEF StartTick, Dates
    <3>3. date'.year \in Int /\ r.roll \in Int /\ date.year \in Int
      <4>1. date' \in Dates
        BY <1>1 DEF PopulationInv, TypeOK
      <4>2. QED
        BY <1>2, <2>0, <4>1 DEF Dates, OrgType
    <3>4. QED
      BY <2>0, <3>1, <3>2, <3>3
         DEF Sane, TimerSane, AgeSane, AwakeSane, RollSane, BondSane, VoiceSane,
             RunsSane, OriginSane
  <2>3. CASE Deliver
    <3>1. tick' = tick /\ date' = date
      BY <2>3 DEF Deliver, clock
    <3>2. /\ SamePast(r, s) /\ SameState(r, s) /\ s.roll = r.roll
          /\ s.partner = r.partner /\ s.wins = r.wins /\ s.attempts = r.attempts
          /\ s.sent = r.sent /\ s.inbox = IF Lives(x) THEN InboxOf(x) ELSE r.inbox
      BY <1>2, <2>3, DeliverOrg
    <3>3. s.inbox # {} => s.state = "AWAKE"
      BY <2>0, <3>2 DEF InboxOf, Sane, VoiceSane, SameState
    <3>4. x \notin s.inbox
      BY <2>0, <3>2 DEF InboxOf, Sane, VoiceSane
    <3>5. QED
      BY <2>0, <3>1, <3>2, <3>3, <3>4
         DEF Sane, TimerSane, AgeSane, AwakeSane, RollSane, BondSane, VoiceSane,
             RunsSane, OriginSane, SamePast, SameState
  <2>4. CASE Account
    <3>1. /\ tick' = tick + 1 /\ date' = date /\ pc = "account"
          /\ s = IF Lives(x) /\ x < firstNew THEN Accounted(r) ELSE r
      BY <2>4 DEF Account
    <3>2. Lives(x) => x < firstNew
      BY <1>1, <3>1 DEF OrganismInv, FirstNewNoted, PopulationInv, PopulationBalances, TypeOK, Ids
    <3>3. CASE Lives(x)
      <4>1. s = Accounted(r)
        BY <3>1, <3>2, <3>3
      <4>2. /\ s.birth = r.birth /\ s.age = r.age + 1
            /\ s.bio = r.bio + AgeRate(r) /\ s.reward = r.reward + AgeRate(r)
            /\ s.state = r.state /\ s.backOn = r.backOn
            /\ s.lastAwake = IF r.state = "AWAKE" THEN tick ELSE r.lastAwake
            /\ s.roll = r.roll /\ s.partner = r.partner /\ s.wins = r.wins
            /\ s.attempts = r.attempts /\ s.sent = r.sent /\ s.inbox = r.inbox
            /\ s.origin = r.origin /\ s.executions = r.executions /\ s.changes = r.changes
        BY <1>2, <2>0, <4>1, AccountOrg
      <4>3. /\ r.age \in Nat /\ r.birth \in Nat /\ r.lastAwake \in Nat /\ r.backOn \in Nat
            /\ OffMax \in Nat
        BY <2>0, ConfigAssumption DEF OrgType
      <4>4. (TimerSane(org[x]) /\ AgeSane(org[x]) /\ AwakeSane(org[x]))'
        BY <1>2, <2>0, <3>1, <4>2, <4>3 DEF Sane, TimerSane, AgeSane, AwakeSane
      <4>5. RollSane(org[x])' /\ BondSane(org[x])'
        BY <2>0, <3>1, <4>2 DEF Sane, RollSane, BondSane
      <4>6. VoiceSane(x, org[x])'
        BY <2>0, <4>2 DEF Sane, VoiceSane
      <4>7. RunsSane(org[x])' /\ OriginSane(x, org[x])'
        BY <2>0, <4>2 DEF Sane, RunsSane, OriginSane
      <4>8. QED
        BY <4>4, <4>5, <4>6, <4>7 DEF Sane
    <3>4. CASE ~Lives(x)
      <4>1. r.state = "NONE" /\ s = r /\ r.lastAwake \in Nat /\ r.backOn \in Nat /\ OffMax \in Nat
        BY <2>0, <3>1, <3>4, ConfigAssumption DEF Lives, OrgType
      <4>2. QED
        BY <1>2, <2>0, <3>1, <4>1
           DEF Sane, TimerSane, AgeSane, AwakeSane, RollSane, BondSane, VoiceSane,
               RunsSane, OriginSane
    <3>5. QED
      BY <3>3, <3>4
  <2>5. CASE AllEvolve \/ Deliver \/ Account
    BY <2>1, <2>2, <2>3, <2>4, <2>5, ClockFlow
  <2>6. QED
    BY <1>1, <2>5, StepsEvolve
<1>4. QED
  BY <1>1, <1>3 DEF OrganismInv

\* In every phase an organism's age is the time since its birth.
THEOREM AgesAreElapsed == Spec => []AgeIsElapsed
<1>1. OrganismInv => AgeIsElapsed
  <2>1. ASSUME OrganismInv, NEW o \in Living PROVE org[o].age = tick - org[o].birth
    <3>1. org[o] \in OrgType /\ Sane(o, org[o]) /\ org[o].state # "NONE" /\ tick \in Nat
      BY <2>1 DEF OrganismInv, PopulationInv, TypeOK, Orgs, Living, Lives
    <3>2. org[o].age \in Nat /\ org[o].birth \in Nat
      BY <3>1 DEF OrgType
    <3>3. QED
      BY <3>1, <3>2 DEF Sane, AgeSane
  <2>2. QED
    BY <2>1 DEF AgeIsElapsed
<1>2. QED
  BY <1>1, OrganismInit, OrganismStep, PTL DEF Spec

\* No organism succeeds more often than it attempted, not even when the
\* courtship that is under way succeeds: the loader would reject it.
THEOREM WinsStayAttempted == Spec => []WinsWereAttempted
<1>1. OrganismInv => WinsWereAttempted
  BY DEF OrganismInv, Sane, BondSane, WinsWereAttempted, Living
<1>2. QED
  BY <1>1, OrganismInit, OrganismStep, PTL DEF Spec

(***************************************************************************)
(* The order of births                                                     *)
(***************************************************************************)
\* A step gives birth to the next id at most, and moves no date of birth.
LEMMA BirthFlow ==
    ASSUME PopulationInv, [Next]_vars, NEW x \in Ids, Lives(x)'
    PROVE  \/ Lives(x) /\ org'[x].birth = org[x].birth
           \/ ~Lives(x) /\ x = nextId /\ org'[x].birth = tick
<1>1. org \in Orgs /\ org[x] \in OrgType /\ tick \in Nat
  BY DEF PopulationInv, TypeOK, Orgs
<1>2. CASE AllEvolve
  <2>1. CASE Survives(org[x], org'[x])
    BY <2>1 DEF Survives, SamePast, LifeStep, SameState, Sleeps, Awakens, GoesOff, ComesBack, Lives
  <2>2. CASE Removed(org[x], org'[x])
    BY <2>2 DEF Removed, Nobody, Lives
  <2>3. CASE IsBorn(x, org[x], org'[x])
    BY <2>3 DEF IsBorn, Newborn, Nobody, Lives
  <2>4. QED
    BY <1>2, <2>1, <2>2, <2>3 DEF AllEvolve, Evolves
<1>3. CASE Deliver
  BY <1>1, <1>3, DeliverOrg DEF SamePast, SameState, Lives
<1>4. CASE Account
  <2>1. org'[x] = Accounted(org[x]) \/ org'[x] = org[x]
    BY <1>4 DEF Account
  <2>2. QED
    BY <1>1, <2>1, AccountOrg DEF Lives
<1>5. QED
  BY <1>2, <1>3, <1>4, StepsEvolve

\* Ids are given out in the order of birth.
InBirthOrder == \A x, y \in Living : x <= y => org[x].birth <= org[y].birth

BirthInv == OrganismInv /\ InBirthOrder

\* Two organisms live at first, single and awake.
LEMMA SeedsFields ==
    ASSUME Init, NEW x \in Ids
    PROVE  /\ org[x].state = IF x <= 2 THEN "AWAKE" ELSE "NONE"
           /\ org[x].birth = 0 /\ org[x].backOn = 0 /\ org[x].partner = 0 /\ org[x].roll = 0
           /\ ~org[x].sent /\ org[x].inbox = {}
<1>1. CASE x <= 2
  <2>1. PICK m \in 0..GenomeCount : org[x] = Newborn(0, Seed(m))
    BY <1>1, SeedsInit
  <2>2. QED
    BY <1>1, <2>1, NewbornFields
<1>2. CASE ~(x <= 2)
  BY <1>2, SeedsInit DEF Nobody
<1>3. QED
  BY <1>1, <1>2

LEMMA BirthInit == Init => BirthInv
<1> SUFFICES ASSUME Init PROVE BirthInv
  OBVIOUS
<1>1. \A x \in Living : org[x].birth = 0
  BY SeedsFields DEF Living
<1>2. QED
  BY <1>1, OrganismInit DEF BirthInv, InBirthOrder

LEMMA BirthStep == BirthInv /\ [Next]_vars => BirthInv'
<1> SUFFICES ASSUME BirthInv, [Next]_vars PROVE BirthInv'
  OBVIOUS
<1>1. OrganismInv /\ OrganismInv' /\ PopulationInv
  BY OrganismStep DEF BirthInv, OrganismInv
<1>2. ASSUME NEW x \in Living PROVE org[x].birth <= tick /\ x < nextId /\ org[x].birth \in Nat /\ x \in Ids
  <2>1. /\ org[x] \in OrgType /\ AgeSane(org[x]) /\ org[x].state # "NONE" /\ tick \in Nat
        /\ x \in Ids /\ nextId \in Nat /\ (x >= nextId => ~Lives(x))
    BY <1>1 DEF OrganismInv, Sane, PopulationInv, PopulationBalances, TypeOK, Orgs, Living, Lives
  <2>2. org[x].age \in Nat /\ org[x].birth \in Nat
    BY <2>1 DEF OrgType
  <2>3. QED
    BY <2>1, <2>2 DEF AgeSane, Ids, Lives
<1>3. ASSUME NEW x \in Living', NEW y \in Living', x <= y
      PROVE  org'[x].birth <= org'[y].birth
  <2>1. x \in Ids /\ y \in Ids /\ Lives(x)' /\ Lives(y)'
    BY DEF Living
  <2>2. \/ x \in Living /\ org'[x].birth = org[x].birth
        \/ ~Lives(x) /\ x = nextId /\ org'[x].birth = tick
    BY <1>1, <2>1, BirthFlow DEF Living
  <2>3. \/ y \in Living /\ org'[y].birth = org[y].birth
        \/ ~Lives(y) /\ y = nextId /\ org'[y].birth = tick
    BY <1>1, <2>1, BirthFlow DEF Living
  <2>4. CASE x \in Living /\ y \in Living
    BY <1>3, <2>2, <2>3, <2>4 DEF BirthInv, InBirthOrder, Living
  <2>5. CASE x \in Living /\ y \notin Living
    BY <1>2, <2>1, <2>2, <2>3, <2>5 DEF Living
  <2>6. CASE x \notin Living
    <3>1. x = nextId /\ org'[x].birth = tick
      BY <2>2, <2>6
    <3>2. y \notin Living
      BY <1>2, <1>3, <2>1, <3>1 DEF Ids
    <3>3. tick \in Nat /\ org'[y].birth = tick
      BY <1>1, <2>3, <3>2 DEF PopulationInv, TypeOK
    <3>4. QED
      BY <3>1, <3>3
  <2>7. QED
    BY <2>4, <2>5, <2>6
<1>4. QED
  BY <1>1, <1>3 DEF BirthInv, InBirthOrder

\* Displacement takes the one with the lowest id among the living.
LEMMA EvictsOldest == BirthInv /\ [Next]_vars => OldestGoes
<1> SUFFICES ASSUME BirthInv, [Next]_vars, pc \in {"birthEvict", "evict"},
                    NEW o \in Living, ~Lives(o)', NEW x \in Living
             PROVE  o <= x
  BY DEF OldestGoes
<1>1. /\ TypeOK /\ org \in Orgs /\ slots \in Seq(Ids) /\ o \in Ids /\ x \in Ids
      /\ {slots[j] : j \in DOMAIN slots} = Living /\ InBirthOrder
      /\ \A y \in Ids : org[y] \in OrgType /\ AgeSane(org[y])
  BY DEF BirthInv, OrganismInv, PopulationInv, ArrayHoldsTheLiving, TypeOK, Living, Sane, Orgs
<1>2. org' # org
  BY DEF Living, Lives
<1>3. EvictOldest
  BY <1>2, PassesLeavesWorld
     DEF Next, Step, Host, Passes, Terminated, vars, world, HostCall, HostTransition,
         HostTryBirth, HostSpoils, ReturnFromOff, FoolAwake, FoolAsleep, DormancyTimeout,
         InvalidDies, ExecuteOff, StayAwake, FallAsleep, Doze, SwitchOff, WakeUp, AtWork,
         Deliver, CourtshipFails, CourtshipGoesOn, CourtshipEnds, Met, Pair, StartTick, Account
<1>4. PICK j \in DOMAIN slots : Oldest(j) /\ RemoveAt(org, tally, j)
  BY <1>3 DEF EvictOldest
<1>5. slots[j] \in Ids /\ CancelIn(org, slots[j]) \in Orgs
  BY <1>1, CancelInType
<1>6. o = slots[j]
  <2>1. o # slots[j] => org'[o].state = org[o].state
    BY <1>1, <1>4, <1>5, CancelKeepsState DEF RemoveAt, Orgs
  <2>2. QED
    BY <2>1 DEF Living, Lives
<1>7. PICK l \in DOMAIN slots : slots[l] = x
  BY <1>1
<1>8. org[o].age > org[x].age \/ (org[o].age = org[x].age /\ o <= x)
  BY <1>4, <1>6, <1>7 DEF Oldest
<1>9. /\ org[o].age + org[o].birth = tick /\ org[x].age + org[x].birth = tick
      /\ org[o].age \in Nat /\ org[o].birth \in Nat /\ org[x].age \in Nat /\ org[x].birth \in Nat
  <2>1. org[o].state # "NONE" /\ org[x].state # "NONE" /\ org[o] \in OrgType /\ org[x] \in OrgType
    BY <1>1 DEF Living, Lives
  <2>2. QED
    BY <1>1, <2>1 DEF AgeSane, OrgType
<1>10. x <= o => org[x].birth <= org[o].birth
  BY <1>1 DEF InBirthOrder
<1>11. tick \in Nat /\ o \in Int /\ x \in Int
  BY <1>1 DEF TypeOK, Ids
<1>12. QED
  BY <1>8, <1>9, <1>10, <1>11

\* Displacement never takes the newborn and never goes out of turn: by age
\* and by id is the same order, however the array has been shuffled.
THEOREM DisplacementKeepsOrder == Spec => EvictsInBirthOrder
BY BirthInit, BirthStep, EvictsOldest, PTL DEF Spec, EvictsInBirthOrder

(***************************************************************************)
(* The scans                                                               *)
(***************************************************************************)
\* In the phase of a scan, nothing but the scan takes steps.
LEMMA TimersPhase ==
    pc = "timers" /\ [Next]_vars => ReturnFromOff \/ TimersDone \/ UNCHANGED vars
BY DEF Next, Step, Host, HostCall, HostTransition, HostTryBirth, HostSpoils, Terminated, Over,
       StartTick, CalendarEnds, RunEnds, FoolAwake, FoolAsleep, FoolsDayDone,
       DormancyTimeout, DormancyDone, InvalidDies, ExecuteOff, StayAwake, FallAsleep, Doze,
       SwitchOff, WakeUp, AtWork, ExecutionDone, Deliver, CourtshipFails, CourtshipGoesOn,
       CourtshipEnds, Met, CourtshipsDone, EvictOldest, BirthFits, PopulationFits, Pair,
       PairingDone, Account, Periodic

LEMMA FoolsDayPhase ==
    pc = "foolsday" /\ [Next]_vars =>
        FoolAwake \/ FoolAsleep \/ FoolsDayDone \/ UNCHANGED vars
BY DEF Next, Step, Host, HostCall, HostTransition, HostTryBirth, HostSpoils, Terminated, Over,
       StartTick, CalendarEnds, RunEnds, ReturnFromOff, TimersDone,
       DormancyTimeout, DormancyDone, InvalidDies, ExecuteOff, StayAwake, FallAsleep, Doze,
       SwitchOff, WakeUp, AtWork, ExecutionDone, Deliver, CourtshipFails, CourtshipGoesOn,
       CourtshipEnds, Met, CourtshipsDone, EvictOldest, BirthFits, PopulationFits, Pair,
       PairingDone, Account, Periodic

LEMMA DormancyPhase ==
    pc = "dormancy" /\ [Next]_vars => DormancyTimeout \/ DormancyDone \/ UNCHANGED vars
BY DEF Next, Step, Host, HostCall, HostTransition, HostTryBirth, HostSpoils, Terminated, Over,
       StartTick, CalendarEnds, RunEnds, ReturnFromOff, TimersDone, FoolAwake, FoolAsleep,
       FoolsDayDone, InvalidDies, ExecuteOff, StayAwake, FallAsleep, Doze,
       SwitchOff, WakeUp, AtWork, ExecutionDone, Deliver, CourtshipFails, CourtshipGoesOn,
       CourtshipEnds, Met, CourtshipsDone, EvictOldest, BirthFits, PopulationFits, Pair,
       PairingDone, Account, Periodic

LEMMA ExecutePhase ==
    pc = "execute" /\ [Next]_vars =>
        Executes \/ InvalidDies \/ ExecutionDone \/ UNCHANGED vars
BY DEF Next, Step, Host, HostCall, HostTransition, HostTryBirth, HostSpoils, Terminated, Over,
       StartTick, CalendarEnds, RunEnds, ReturnFromOff, TimersDone, FoolAwake, FoolAsleep,
       FoolsDayDone, DormancyTimeout, DormancyDone, Executes, Deliver, CourtshipFails,
       CourtshipGoesOn, CourtshipEnds, Met, CourtshipsDone, EvictOldest, BirthFits,
       PopulationFits, Pair, PairingDone, Account, Periodic

\* The ids in front of index i of a sequence.
Front(s, i) == {s[j] : j \in {l \in DOMAIN s : l < i}}

\* A scan that goes on to k passes over slots that it does not act on.
LEMMA FrontTo ==
    ASSUME slots \in Seq(Ids), idx \in Nat \ {0}, NEW H \in SUBSET Here, NEW k \in H, NextHit(k, H),
           NEW x \in Front(slots, k)
    PROVE  x \in Front(slots, idx) \/ \E l \in Here \ H : x = slots[l]
BY DEF Front, NextHit, Here

LEMMA FrontPast ==
    ASSUME NEW s \in Seq(Ids), NEW k \in DOMAIN s, NEW x \in Front(s, k + 1)
    PROVE  x \in Front(s, k) \/ x = s[k]
BY DEF Front

\* Removing a slot changes nothing in front of it.
LEMMA FrontDelete ==
    ASSUME NEW s \in Seq(Ids), NEW k \in DOMAIN s
    PROVE  Front(SwapDelete(s, k), k) = Front(s, k)
<1>1. /\ DOMAIN SwapDelete(s, k) = 1..(Len(s) - 1) /\ DOMAIN s = 1..Len(s)
      /\ \A j \in 1..(Len(s) - 1) : SwapDelete(s, k)[j] = IF j = k THEN s[Len(s)] ELSE s[j]
      /\ k \in 1..Len(s) /\ Len(s) \in Nat
  BY DEF SwapDelete
<1>2. \A j \in Int : (j \in 1..(Len(s) - 1) /\ j < k) <=> (j \in 1..Len(s) /\ j < k)
  BY <1>1
<1> HIDE DEF SwapDelete
<1>3. QED
  BY <1>1, <1>2 DEF Front

\* The array behind the last slot of a scan.
LEMMA FrontAll ==
    ASSUME slots \in Seq(Ids), idx \in Nat \ {0}, NEW j \in DOMAIN slots
    PROVE  slots[j] \in Front(slots, idx) \/ j \in Here
BY DEF Front, Here

\* A scan acts on slot k, the next of the slots H that it would act on: the
\* slots that it passes over, k itself if it stays in the array, and no
\* other, come to lie in front of the loop variable.
Treats(k, H) ==
    /\ NextHit(k, H)
    /\ \/ idx' = k + 1 /\ slots' = slots
       \/ idx' = k /\ slots' = SwapDelete(slots, k)

LEMMA TreatsFront ==
    ASSUME slots \in Seq(Ids), idx \in Nat \ {0}, NEW H \in SUBSET Here, NEW k \in H,
           Treats(k, H), NEW x \in Front(slots', idx')
    PROVE  \/ x \in Front(slots, idx)
           \/ \E l \in Here \ H : x = slots[l]
           \/ x = slots[k] /\ idx' = k + 1 /\ slots' = slots
<1>1. k \in DOMAIN slots
  BY DEF Here
<1>2. x \in Front(slots, k) \/ (idx' = k + 1 /\ slots' = slots /\ x = slots[k])
  BY <1>1, FrontPast, FrontDelete DEF Treats
<1>3. QED
  BY <1>2, FrontTo DEF Treats

\* What the three scans leave of an organism.
Answered(r) == r.state = "OFF" => r.backOn > tick
Culled(r) == r.state # "AWAKE" /\ (r.state = "ASLEEP" => r.roll = date.year)
Recent(r) == r.state # "NONE" => tick - r.lastAwake <= DormancyLimit

LEMMA DormancyLimitType == DormancyLimit \in Nat /\ DormancyLimit >= 1
<1> DEFINE m == MaxWithoutAwakeDays
           n == TicksPerDay
<1>1. m \in Nat /\ n \in Nat /\ m >= 1 /\ n >= 1
  BY ConfigAssumption
<1> HIDE DEF m, n
<1>2. m * n \in Nat /\ m * n >= 1
  BY <1>1
<1>3. QED
  BY <1>2 DEF DormancyLimit, m, n

LEMMA AnsweredEvolves ==
    ASSUME tick \in Nat, NEW x, NEW r, NEW s, Answered(r), Evolves(x, r, s)
    PROVE  Answered(s)
<1>0. OffMin \in Nat /\ OffMin >= 1 /\ OffMax \in Nat
  BY ConfigAssumption
<1>1. CASE Survives(r, s)
  BY <1>0, <1>1 DEF Survives, LifeStep, SameState, Sleeps, Awakens, GoesOff, ComesBack, Answered
<1>2. QED
  BY <1>1, NewbornFields DEF Evolves, Removed, Nobody, IsBorn, Answered

\* Once the day's policy has run nobody wakes or is born on April 1.
LEMMA CulledEvolves ==
    ASSUME NEW x, NEW r, NEW s, Culled(r), Evolves(x, r, s), IsFoolsDay(date), pc \notin {"idle", "timers"}
    PROVE  Culled(s)
<1>1. CASE Survives(r, s)
  <2>1. s.state # "AWAKE"
    BY <1>1 DEF Survives, LifeStep, SameState, Sleeps, Awakens, WakesHere, GoesOff, ComesBack, Culled
  <2>2. QED
    BY <1>1, <2>1
       DEF Survives, LifeStep, SameState, Sleeps, Awakens, GoesOff, ComesBack, RollStep, Culled
<1>2. QED
  BY <1>1, NewbornFields DEF Evolves, Removed, Nobody, IsBorn, Culled

LEMMA RecentEvolves ==
    ASSUME tick \in Nat, NEW x, NEW r, NEW s, Recent(r), Evolves(x, r, s)
    PROVE  Recent(s)
<1>1. CASE Survives(r, s)
  BY <1>1, DormancyLimitType
     DEF Survives, LifeStep, SameState, Sleeps, Awakens, GoesOff, ComesBack, Recent
<1>2. QED
  BY <1>1, NewbornFields, DormancyLimitType DEF Evolves, Removed, Nobody, IsBorn, Recent

\* The order of the phases.
LEMMA PhaseOrder ==
    [Next]_vars =>
        \/ pc' = pc
        \/ pc = "idle" /\ pc' = "timers" /\ StartTick
        \/ pc = "idle" /\ pc' \in {"done", "failed"} /\ (CalendarEnds \/ RunEnds)
        \/ pc = "timers" /\ pc' = "foolsday" /\ TimersDone
        \/ pc = "foolsday" /\ pc' = "dormancy" /\ FoolsDayDone
        \/ pc = "dormancy" /\ pc' = "execute" /\ DormancyDone
        \/ pc = "execute" /\ pc' = "deliver" /\ ExecutionDone
        \/ pc = "deliver" /\ pc' = "courtship" /\ Deliver
        \/ pc = "courtship" /\ pc' = "birthEvict" /\ CourtshipEnds
        \/ pc = "courtship" /\ pc' = "pairing" /\ CourtshipsDone
        \/ pc = "birthEvict" /\ pc' = "courtship" /\ BirthFits
        \/ pc = "pairing" /\ pc' = "evict" /\ PairingDone
        \/ pc = "evict" /\ pc' = "account" /\ PopulationFits
        \/ pc = "account" /\ pc' = "periodic" /\ Account
        \/ pc = "periodic" /\ pc' \in {"idle", "failed"} /\ Periodic
<1>1. StartTick => pc = "idle" /\ pc' = "timers"
  BY DEF StartTick, Goto
<1>2. CalendarEnds \/ RunEnds => pc = "idle" /\ pc' \in {"done", "failed"}
  BY DEF CalendarEnds, RunEnds, Goto
<1>3. /\ TimersDone => pc = "timers" /\ pc' = "foolsday"
      /\ FoolsDayDone => pc = "foolsday" /\ pc' = "dormancy"
      /\ DormancyDone => pc = "dormancy" /\ pc' = "execute"
      /\ ExecutionDone => pc = "execute" /\ pc' = "deliver"
      /\ Deliver => pc = "deliver" /\ pc' = "courtship"
  BY DEF TimersDone, FoolsDayDone, DormancyDone, ExecutionDone, Deliver, Goto
<1>4. /\ CourtshipEnds => pc = "courtship" /\ pc' \in {"courtship", "birthEvict"}
      /\ CourtshipsDone => pc = "courtship" /\ pc' = "pairing"
      /\ BirthFits => pc = "birthEvict" /\ pc' = "courtship"
  BY DEF CourtshipEnds, Met, CourtshipsDone, BirthFits, Goto
<1>5. /\ PairingDone => pc = "pairing" /\ pc' = "evict"
      /\ PopulationFits => pc = "evict" /\ pc' = "account"
      /\ Account => pc = "account" /\ pc' = "periodic"
      /\ Periodic => pc = "periodic" /\ pc' \in {"idle", "failed"}
  BY DEF PairingDone, PopulationFits, Account, Periodic, Goto
<1>6. QED
  BY <1>1, <1>2, <1>3, <1>4, <1>5, PhaseFlow DEF Passes

\* In a tick the clock stands still until the accounting.
LEMMA TickStands ==
    pc \in TickPhases \ {"account"} /\ [Next]_vars => tick' = tick /\ date' = date
BY ClockFlow DEF clock, StartTick, Account, TickPhases

\* A step that begins outside the accounting and delivery.
LEMMA PhaseEvolves ==
    ASSUME PopulationInv, [Next]_vars, pc # "account", NEW x \in Ids
    PROVE  Evolves(x, org[x], org'[x]) \/ (pc = "deliver" /\ SameState(org[x], org'[x])
                                              /\ org'[x].roll = org[x].roll)
BY StepsEvolve, DeliverOrg DEF AllEvolve, Account, Deliver, PopulationInv, TypeOK

(***************************************************************************)
(* Off timers                                                              *)
(***************************************************************************)
\* Once the timers have been scanned, nobody is off who is due.
OffInv ==
    /\ pc = "timers" => \A x \in Front(slots, idx) : Answered(org[x])
    /\ pc \in TickPhases \ {"timers"} => \A x \in Ids : Answered(org[x])

LEMMA FrontType == ASSUME NEW s \in Seq(Ids), NEW i PROVE Front(s, i) \subseteq Ids
BY DEF Front

LEMMA AnsweredStep ==
    ASSUME PopulationInv, [Next]_vars, pc \in TickPhases \ {"account"}, NEW x \in Ids,
           Answered(org[x])
    PROVE  Answered(org[x])'
<1>1. tick' = tick /\ tick \in Nat
  BY TickStands DEF PopulationInv, TypeOK
<1>2. pc # "account"
  OBVIOUS
<1>3. Answered(org'[x])
  BY <1>1, <1>2, PhaseEvolves, AnsweredEvolves DEF Answered, SameState
<1>4. QED
  BY <1>1, <1>3 DEF Answered

LEMMA TimersAnswer ==
    ASSUME PopulationInv, OffInv, ReturnFromOff, [Next]_vars, NEW x \in Front(slots', idx')
    PROVE  Answered(org[x])'
<1>1. /\ org \in Orgs /\ slots \in Seq(Ids) /\ idx \in Nat \ {0} /\ tick \in Nat
      /\ pc = "timers" /\ Expired \in SUBSET Here /\ Here \subseteq DOMAIN slots
  BY DEF PopulationInv, TypeOK, ReturnFromOff, Expired, Here
<1>2. PICK j \in Expired :
        NextHit(j, Expired) /\ org' = TransitionIn(org, slots[j], "ASLEEP", 0) /\ idx' = j + 1
  BY DEF ReturnFromOff, Transition
<1>3. Treats(j, Expired) /\ slots' = slots
  BY <1>2 DEF Treats, ReturnFromOff
<1>4. slots' \in Seq(Ids) /\ x \in Ids
  BY <1>1, <1>3, FrontType
<1>5. CASE x \in Front(slots, idx)
  BY <1>1, <1>4, <1>5, AnsweredStep DEF OffInv, TickPhases
<1>6. CASE \E l \in Here \ Expired : x = slots[l]
  <2>1. org[x] \in OrgType
    BY <1>1, <1>4 DEF Orgs
  <2>2. Answered(org[x])
    BY <1>1, <1>6, <2>1 DEF Expired, Answered, OrgType
  <2>3. QED
    BY <1>1, <1>4, <2>2, AnsweredStep DEF TickPhases
<1>7. CASE x = slots[j]
  <2>1. SurvivesIn(org) /\ SameState(org[x], org[x])
    BY <1>1, <1>4, SurvivesSame DEF SurvivesIn, SameState, Orgs
  <2>2. Moves(org[x], "ASLEEP") /\ "ASLEEP" \in LifeStates /\ 0 \in Nat
    BY <1>1, <1>7 DEF Expired, Moves, LifeStates
  <2>3. TransitionIn(org, x, "ASLEEP", 0)[x].state = "ASLEEP"
    BY <1>1, <1>4, <2>1, <2>2, TransitionSurvives
  <2>4. QED
    BY <1>2, <1>7, <2>3 DEF Answered
<1>8. QED
  BY <1>1, <1>3, <1>5, <1>6, <1>7, TreatsFront

LEMMA AccountPhase == pc = "account" /\ [Next]_vars => Account \/ UNCHANGED vars
BY DEF Next, Step, Host, HostCall, HostTransition, HostTryBirth, HostSpoils, Terminated, Over,
       StartTick, CalendarEnds, RunEnds, ReturnFromOff, TimersDone, FoolAwake, FoolAsleep,
       FoolsDayDone, DormancyTimeout, DormancyDone, InvalidDies, ExecuteOff, StayAwake,
       FallAsleep, Doze, SwitchOff, WakeUp, AtWork, ExecutionDone, Deliver, CourtshipFails,
       CourtshipGoesOn, CourtshipEnds, Met, CourtshipsDone, EvictOldest, BirthFits,
       PopulationFits, Pair, PairingDone, Periodic

LEMMA OffStep == PopulationInv /\ OffInv /\ [Next]_vars => OffInv'
<1> SUFFICES ASSUME PopulationInv, OffInv, [Next]_vars PROVE OffInv'
  OBVIOUS
<1>0. /\ slots \in Seq(Ids) /\ idx \in Nat \ {0} /\ slots' \in Seq(Ids) /\ tick \in Nat
      /\ org \in Orgs
  BY PopulationStep DEF PopulationInv, TypeOK
<1>1. ASSUME pc' = "timers", NEW x \in Front(slots', idx')
      PROVE  Answered(org[x])'
  <2>1. CASE StartTick
    BY <1>0, <1>1, <2>1 DEF StartTick, Goto, Front
  <2>2. CASE ReturnFromOff
    BY <1>1, <2>2, TimersAnswer
  <2>3. CASE UNCHANGED vars
    BY <1>1, <2>3 DEF OffInv, vars, world, clock, control, Answered
  <2>4. ~TimersDone
    BY <1>1 DEF TimersDone, Goto
  <2>5. QED
    BY <1>1, <2>1, <2>2, <2>3, <2>4, PhaseOrder, TimersPhase
<1>2. ASSUME pc' \in TickPhases \ {"timers"}, NEW x \in Ids
      PROVE  Answered(org[x])'
  <2>1. CASE pc \in TickPhases \ {"timers", "account"}
    BY <1>2, <2>1, AnsweredStep DEF OffInv
  <2>2. CASE TimersDone
    <3>1. Expired = {} /\ org' = org /\ tick' = tick /\ pc = "timers"
      BY <2>2 DEF TimersDone, world, clock
    <3>2. org[x] \in OrgType
      BY <1>0 DEF Orgs
    <3>3. CASE x \in Living
      <4>1. PICK j \in DOMAIN slots : slots[j] = x
        BY <3>3 DEF PopulationInv, ArrayHoldsTheLiving
      <4>2. x \in Front(slots, idx) \/ j \in Here
        BY <1>0, <4>1, FrontAll
      <4>3. Answered(org[x])
        <5>1. CASE x \in Front(slots, idx)
          BY <3>1, <5>1 DEF OffInv
        <5>2. CASE j \in Here
          BY <1>0, <3>1, <3>2, <4>1, <5>2 DEF Expired, Answered, OrgType
        <5>3. QED
          BY <4>2, <5>1, <5>2
      <4>4. QED
        BY <3>1, <4>3 DEF Answered
    <3>4. CASE x \notin Living
      BY <3>1, <3>4 DEF Living, Lives, Answered
    <3>5. QED
      BY <3>3, <3>4
  <2>3. CASE pc = "account" /\ UNCHANGED vars
    BY <2>3 DEF OffInv, vars, world, clock, control, Answered, TickPhases
  <2>4. CASE pc = "account" /\ ~UNCHANGED vars
    BY <1>2, <2>4, AccountPhase DEF Account, Goto, TickPhases
  <2>5. QED
    BY <1>2, <2>1, <2>2, <2>3, <2>4, PhaseOrder DEF TickPhases
<1>3. QED
  BY <1>1, <1>2 DEF OffInv

(***************************************************************************)
(* Fool's Day                                                              *)
(***************************************************************************)
\* On April 1 nobody in front of the policy's scan, and later nobody at all,
\* is awake or a sleeper without a roll.
FoolInv ==
    IsFoolsDay(date) =>
        /\ pc = "foolsday" => \A x \in Front(slots, idx) : Culled(org[x])
        /\ pc \in AfterFoolsDay => \A x \in Ids : Culled(org[x])

LEMMA CulledStep ==
    ASSUME PopulationInv, [Next]_vars, pc \in TickPhases \ {"timers", "account"}, NEW x \in Ids,
           IsFoolsDay(date), Culled(org[x])
    PROVE  Culled(org[x])'
<1>1. date' = date
  BY TickStands
<1>2. pc # "account" /\ pc \notin {"idle", "timers"}
  BY DEF TickPhases
<1>3. Culled(org'[x])
  BY <1>2, PhaseEvolves, CulledEvolves DEF Culled, SameState
<1>4. QED
  BY <1>1, <1>3 DEF Culled

LEMMA PolicyCulls ==
    ASSUME PopulationInv, FoolInv, FoolAwake \/ FoolAsleep, [Next]_vars, IsFoolsDay(date),
           NEW x \in Front(slots', idx')
    PROVE  Culled(org[x])'
<1>1. /\ org \in Orgs /\ slots \in Seq(Ids) /\ idx \in Nat \ {0}
      /\ pc = "foolsday" /\ Judged \in SUBSET Here /\ Here \subseteq DOMAIN slots
      /\ date' = date
  BY TickStands DEF PopulationInv, TypeOK, FoolAwake, FoolAsleep, Judged, Here, TickPhases
<1>2. PICK j \in Judged :
        /\ NextHit(j, Judged)
        /\ \/ slots' = SwapDelete(slots, j) /\ idx' = j
           \/ /\ slots' = slots /\ idx' = j + 1
              /\ org' = [org EXCEPT ![slots[j]].roll = date.year]
              /\ org[slots[j]].state = "ASLEEP"
  BY DEF FoolAwake, FoolAsleep, RemoveAt
<1>3. Treats(j, Judged)
  BY <1>2 DEF Treats
<1>4. slots' \in Seq(Ids) /\ x \in Ids
  BY PopulationStep, FrontType DEF PopulationInv, TypeOK
<1>5. CASE x \in Front(slots, idx)
  BY <1>1, <1>4, <1>5, CulledStep DEF FoolInv, TickPhases
<1>6. CASE \E l \in Here \ Judged : x = slots[l]
  <2>1. Culled(org[x])
    BY <1>1, <1>6 DEF Judged, Culled
  <2>2. QED
    BY <1>1, <1>4, <2>1, CulledStep DEF TickPhases
<1>7. CASE x = slots[j] /\ idx' = j + 1 /\ slots' = slots
  <2> DEFINE r == [org[x] EXCEPT !.roll = date.year]
  <2>1. idx' # j
    BY <1>1, <1>7 DEF Here
  <2>2. org'[x] = r /\ org[x].state = "ASLEEP" /\ org[x] \in OrgType
    BY <1>1, <1>2, <1>4, <1>7, <2>1 DEF Orgs
  <2>3. r.state = "ASLEEP" /\ r.roll = date.year
    BY <2>2, Zenon DEF OrgType
  <2>4. QED
    BY <1>1, <2>2, <2>3 DEF Culled
<1>8. QED
  BY <1>1, <1>3, <1>5, <1>6, <1>7, TreatsFront

LEMMA FoolStep == PopulationInv /\ FoolInv /\ [Next]_vars => FoolInv'
<1> SUFFICES ASSUME PopulationInv, FoolInv, [Next]_vars PROVE FoolInv'
  OBVIOUS
<1>0. /\ slots \in Seq(Ids) /\ idx \in Nat \ {0} /\ slots' \in Seq(Ids) /\ org \in Orgs
  BY PopulationStep DEF PopulationInv, TypeOK
<1>1. ASSUME IsFoolsDay(date'), pc' = "foolsday", NEW x \in Front(slots', idx')
      PROVE  Culled(org[x])'
  <2>1. CASE TimersDone
    BY <1>0, <1>1, <2>1 DEF TimersDone, Goto, Front
  <2>2. CASE FoolAwake \/ FoolAsleep
    <3>1. date' = date
      BY <2>2, TickStands DEF FoolAwake, FoolAsleep, TickPhases
    <3>2. QED
      BY <1>1, <2>2, <3>1, PolicyCulls
  <2>3. CASE UNCHANGED vars
    BY <1>1, <2>3 DEF FoolInv, vars, world, clock, control, Culled
  <2>4. ~FoolsDayDone
    BY <1>1 DEF FoolsDayDone, Goto
  <2>5. QED
    BY <1>1, <2>1, <2>2, <2>3, <2>4, PhaseOrder, FoolsDayPhase
<1>2. ASSUME IsFoolsDay(date'), pc' \in AfterFoolsDay, NEW x \in Ids
      PROVE  Culled(org[x])'
  <2>1. CASE pc \in AfterFoolsDay \ {"account"}
    <3>1. date' = date /\ pc \in TickPhases \ {"timers", "account"}
      BY <2>1, TickStands DEF AfterFoolsDay, TickPhases
    <3>2. QED
      BY <1>2, <2>1, <3>1, CulledStep DEF FoolInv
  <2>2. CASE FoolsDayDone
    <3>1. Judged = {} /\ org' = org /\ date' = date /\ pc = "foolsday"
      BY <2>2 DEF FoolsDayDone, world, clock
    <3>2. CASE x \in Living
      <4>1. PICK j \in DOMAIN slots : slots[j] = x
        BY <3>2 DEF PopulationInv, ArrayHoldsTheLiving
      <4>2. x \in Front(slots, idx) \/ j \in Here
        BY <1>0, <4>1, FrontAll
      <4>3. Culled(org[x])
        BY <1>2, <3>1, <4>1, <4>2 DEF FoolInv, Judged, Culled
      <4>4. QED
        BY <3>1, <4>3 DEF Culled
    <3>3. CASE x \notin Living
      BY <3>1, <3>3 DEF Living, Lives, Culled
    <3>4. QED
      BY <3>2, <3>3
  <2>3. CASE pc = "account" /\ UNCHANGED vars
    BY <1>2, <2>3 DEF FoolInv, vars, world, clock, control, Culled
  <2>4. CASE pc = "account" /\ ~UNCHANGED vars
    BY <1>2, <2>4, AccountPhase DEF Account, Goto, AfterFoolsDay, TickPhases
  <2>5. QED
    BY <1>2, <2>1, <2>2, <2>3, <2>4, PhaseOrder DEF AfterFoolsDay, TickPhases
<1>3. QED
  BY <1>1, <1>2 DEF FoolInv

(***************************************************************************)
(* Dormancy                                                                *)
(***************************************************************************)
Executing == {"execute", "deliver", "courtship", "birthEvict", "pairing", "evict", "account"}

\* Nobody whom the dormancy scan has passed was last awake too long ago.
DormantInv ==
    /\ pc = "dormancy" => \A x \in Front(slots, idx) : Recent(org[x])
    /\ pc \in Executing => \A x \in Ids : Recent(org[x])

LEMMA RecentStep ==
    ASSUME PopulationInv, [Next]_vars, pc \in TickPhases \ {"account"}, NEW x \in Ids,
           Recent(org[x])
    PROVE  Recent(org[x])'
<1>1. tick' = tick /\ tick \in Nat
  BY TickStands DEF PopulationInv, TypeOK
<1>2. pc # "account"
  OBVIOUS
<1>3. Recent(org'[x])
  BY <1>1, <1>2, PhaseEvolves, RecentEvolves DEF Recent, SameState
<1>4. QED
  BY <1>1, <1>3 DEF Recent

\* The scan passes over the awake, and they were awake not long ago.
LEMMA PassedOverRecent ==
    ASSUME OrganismInv, NEW l \in Here \ Dormant, slots[l] \in Ids
    PROVE  Recent(org[slots[l]])
<1> DEFINE r == org[slots[l]]
<1>1. r \in OrgType /\ AwakeSane(r) /\ tick \in Nat
  BY DEF OrganismInv, PopulationInv, TypeOK, Orgs, Sane
<1>2. r.lastAwake \in Nat
  BY <1>1 DEF OrgType
<1>3. r.state = "AWAKE" \/ ~(tick > r.lastAwake) \/ ~(tick - r.lastAwake > DormancyLimit)
  BY DEF Dormant
<1> HIDE DEF r
<1>4. Recent(r)
  BY <1>1, <1>2, <1>3, DormancyLimitType DEF Recent, AwakeSane
<1>5. QED
  BY <1>4 DEF r

LEMMA DormantStep == OrganismInv /\ DormantInv /\ [Next]_vars => DormantInv'
<1> SUFFICES ASSUME OrganismInv, DormantInv, [Next]_vars PROVE DormantInv'
  OBVIOUS
<1>0. /\ slots \in Seq(Ids) /\ idx \in Nat \ {0} /\ slots' \in Seq(Ids) /\ org \in Orgs
      /\ PopulationInv
  BY PopulationStep DEF OrganismInv, PopulationInv, TypeOK
<1>1. ASSUME pc' = "dormancy", NEW x \in Front(slots', idx')
      PROVE  Recent(org[x])'
  <2>1. CASE FoolsDayDone
    BY <1>0, <1>1, <2>1 DEF FoolsDayDone, Goto, Front
  <2>2. CASE DormancyTimeout
    <3>1. Dormant \in SUBSET Here /\ Here \subseteq DOMAIN slots /\ pc = "dormancy" /\ x \in Ids
      BY <1>0, <1>1, <2>2, FrontType DEF Dormant, Here, DormancyTimeout
    <3>2. PICK j \in Dormant : Treats(j, Dormant) /\ idx' = j
      BY <2>2 DEF DormancyTimeout, RemoveAt, Treats
    <3>3. idx' # j + 1
      BY <3>1, <3>2 DEF Here
    <3>4. x \in Front(slots, idx) \/ \E l \in Here \ Dormant : x = slots[l]
      BY <1>0, <1>1, <3>1, <3>2, <3>3, TreatsFront
    <3>5. Recent(org[x])
      BY <3>1, <3>4, PassedOverRecent DEF DormantInv
    <3>6. QED
      BY <1>0, <3>1, <3>5, RecentStep DEF TickPhases
  <2>3. CASE UNCHANGED vars
    BY <1>1, <2>3 DEF DormantInv, vars, world, clock, control, Recent
  <2>4. ~DormancyDone
    BY <1>1 DEF DormancyDone, Goto
  <2>5. QED
    BY <1>1, <2>1, <2>2, <2>3, <2>4, PhaseOrder, DormancyPhase
<1>2. ASSUME pc' \in Executing, NEW x \in Ids
      PROVE  Recent(org[x])'
  <2>1. CASE pc \in Executing \ {"account"}
    BY <1>0, <2>1, RecentStep DEF DormantInv, Executing, TickPhases
  <2>2. CASE DormancyDone
    <3>1. Dormant = {} /\ org' = org /\ tick' = tick /\ pc = "dormancy"
      BY <2>2 DEF DormancyDone, world, clock
    <3>2. CASE x \in Living
      <4>1. PICK j \in DOMAIN slots : slots[j] = x
        BY <1>0, <3>2 DEF PopulationInv, ArrayHoldsTheLiving
      <4>2. x \in Front(slots, idx) \/ j \in Here
        BY <1>0, <4>1, FrontAll
      <4>3. Recent(org[x])
        BY <3>1, <4>1, <4>2, PassedOverRecent DEF DormantInv
      <4>4. QED
        BY <3>1, <4>3 DEF Recent
    <3>3. CASE x \notin Living
      BY <3>1, <3>3 DEF Living, Lives, Recent
    <3>4. QED
      BY <3>2, <3>3
  <2>3. CASE pc = "account" /\ UNCHANGED vars
    BY <1>2, <2>3 DEF DormantInv, vars, world, clock, control, Recent
  <2>4. CASE pc = "account" /\ ~UNCHANGED vars
    BY <1>2, <2>4, AccountPhase DEF Account, Goto, Executing
  <2>5. QED
    BY <1>2, <2>1, <2>2, <2>3, <2>4, PhaseOrder DEF Executing
<1>3. QED
  BY <1>1, <1>2 DEF DormantInv

\* On April 1, once the day's policy has run, nobody is awake, nobody courts
\* and each sleeper has had the roll of the year.
THEOREM FoolsDayHolds == Spec => []FoolsDayCulls
<1> DEFINE Inv == PopulationInv /\ FoolInv /\ LinksIn(org)
<1>1. Init => Inv
  <2>1. Init => FoolInv
    BY DEF Init, FoolInv, AfterFoolsDay, TickPhases
  <2>2. QED
    BY <2>1, PopulationInit, LinksInit
<1>2. Inv /\ [Next]_vars => Inv'
  <2>1. LinksIn(org)' = LinksIn(org')
    BY DEF LinksIn, LinkIn
  <2>2. QED
    BY <2>1, PopulationStep, FoolStep, LinksStep
<1>3. Inv => FoolsDayCulls
  <2>1. ASSUME Inv, IsFoolsDay(date), pc \in AfterFoolsDay, NEW o \in Living
        PROVE  /\ org[o].state # "AWAKE" /\ org[o].partner = 0
               /\ org[o].state = "ASLEEP" => org[o].roll = date.year
    BY <2>1 DEF FoolInv, Culled, LinksIn, LinkIn, Living
  <2>2. QED
    BY <2>1 DEF FoolsDayCulls
<1> HIDE DEF Inv
<1>4. QED
  BY <1>1, <1>2, <1>3, PTL DEF Spec

\* Nobody outlives max_without_awake_days without an awake tick.
THEOREM DormancyIsBounded == Spec => []DormancyBounded
<1> DEFINE Inv == OrganismInv /\ DormantInv
<1>1. Init => Inv
  <2>1. Init => DormantInv
    BY DEF Init, DormantInv, Executing
  <2>2. QED
    BY <2>1, OrganismInit
<1>2. Inv /\ [Next]_vars => Inv'
  BY OrganismStep, DormantStep
<1>3. Inv => DormancyBounded
  <2>1. ASSUME Inv, NEW o \in Living, pc \in Executing
        PROVE  tick - org[o].lastAwake <= DormancyLimit
    BY <2>1 DEF DormantInv, Recent, Living, Lives
  <2>2. QED
    BY <2>1 DEF DormancyBounded, Executing
<1> HIDE DEF Inv
<1>4. QED
  BY <1>1, <1>2, <1>3, PTL DEF Spec

(***************************************************************************)
(* The execution loop and the capacity                                     *)
(***************************************************************************)
\* Execution handles the organism at the loop variable, which either keeps
\* its slot and is passed or loses it to the last of the array.
LEMMA Handles ==
    ASSUME TypeOK, Executes \/ InvalidDies
    PROVE  /\ idx \in DOMAIN slots
           /\ seen' = seen \cup {slots[idx]}
           /\ \/ idx' = idx + 1 /\ slots' = slots
              \/ idx' = idx /\ slots' = SwapDelete(slots, idx)
<1>1. idx \in Nat \ {0} /\ DOMAIN slots = 1..Len(slots) /\ Len(slots) \in Nat
  BY DEF TypeOK
<1>2. ASSUME NEW o, NEW state, AtWork(o, state), NEW f, NEW c, Settle(o, f, c)
      PROVE  /\ idx <= Len(slots) /\ seen' = seen \cup {slots[idx]}
             /\ \/ idx' = idx + 1 /\ slots' = slots
                \/ idx' = idx /\ slots' = SwapDelete(slots, idx)
  BY <1>2 DEF AtWork, Settle, RemoveAt
<1>3. CASE ExecuteOff \/ StayAwake \/ FallAsleep \/ Doze \/ SwitchOff
  <2>1. \E o, state, f, c : AtWork(o, state) /\ Settle(o, f, c)
    BY <1>3, Zenon DEF ExecuteOff, StayAwake, FallAsleep, Doze, SwitchOff
  <2>2. QED
    BY <1>1, <1>2, <2>1
<1>4. CASE WakeUp
  <2>1. PICK o \in Living, v \in Outcomes :
            /\ AtWork(o, "ASLEEP")
            /\ \/ /\ RemoveAt(TransitionIn(AsleepRun(o, v), o, "AWAKE", 0), tally, idx)
                  /\ seen' = seen \cup {o} /\ idx' = idx
               \/ Settle(o, TransitionIn(AsleepRun(o, v), o, "AWAKE", 0), tally)
    BY <1>4 DEF WakeUp
  <2>2. QED
    BY <1>1, <1>2, <2>1 DEF AtWork, RemoveAt
<1>5. CASE InvalidDies
  BY <1>1, <1>5 DEF InvalidDies, RemoveAt
<1>6. QED
  BY <1>3, <1>4, <1>5 DEF Executes

RunInv ==
    pc = "execute" => seen \cap Living = Front(slots, idx) /\ idx <= Len(slots) + 1

LEMMA RunStep == PopulationInv /\ RunInv /\ [Next]_vars => RunInv'
<1> SUFFICES ASSUME PopulationInv, RunInv, [Next]_vars, pc' = "execute"
             PROVE  seen' \cap Living' = Front(slots', idx') /\ idx' <= Len(slots') + 1
  BY DEF RunInv
<1>1. /\ TypeOK /\ slots \in Seq(Ids) /\ idx \in Nat \ {0} /\ slots' \in Seq(Ids)
      /\ Distinct(slots) /\ Elements(slots) = Living /\ Elements(slots') = Living'
  BY PopulationStep DEF PopulationInv, TypeOK, ArrayHoldsTheLiving, Distinct, Elements
<1>2. CASE DormancyDone
  BY <1>1, <1>2 DEF DormancyDone, Goto, Front
<1>3. CASE UNCHANGED vars
  BY <1>3 DEF RunInv, vars, world, clock, control, Living, Lives
<1>4. CASE (Executes \/ InvalidDies) /\ pc = "execute"
  <2> DEFINE o == slots[idx]
  <2>1. /\ idx \in DOMAIN slots /\ seen' = seen \cup {o}
        /\ \/ idx' = idx + 1 /\ slots' = slots
           \/ idx' = idx /\ slots' = SwapDelete(slots, idx)
    BY <1>1, <1>4, Handles
  <2>2. seen \cap Living = Front(slots, idx)
    BY <1>4 DEF RunInv
  <2>3. CASE idx' = idx + 1 /\ slots' = slots
    <3>1. Front(slots, idx + 1) = Front(slots, idx) \cup {o}
      BY <1>1, <2>1 DEF Front
    <3>2. o \in Living /\ Living' = Living
      BY <1>1, <2>1, <2>3 DEF Elements
    <3>3. idx' <= Len(slots') + 1
      BY <1>1, <2>1, <2>3
    <3>4. QED
      BY <2>1, <2>2, <2>3, <3>1, <3>2, <3>3
  <2>4. CASE idx' = idx /\ slots' = SwapDelete(slots, idx)
    <3>1. Front(slots', idx') = Front(slots, idx)
      BY <1>1, <2>1, <2>4, FrontDelete
    <3>2. Living' = Living \ {o}
      BY <1>1, <2>1, <2>4, SwapDeleteElements
    <3>3. o \notin Front(slots, idx)
      BY <1>1, <2>1 DEF Front, Distinct
    <3>4. idx' <= Len(slots') + 1
      <4>1. Len(slots') = Len(slots) - 1 /\ idx \in 1..Len(slots) /\ Len(slots) \in Nat
        BY <1>1, <2>1, <2>4, SwapDeleteType
      <4>2. QED
        BY <2>4, <4>1
    <3>5. QED
      BY <2>1, <2>2, <3>1, <3>2, <3>3, <3>4
  <2>5. QED
    BY <2>1, <2>3, <2>4
<1>5. ~ExecutionDone
  BY DEF ExecutionDone, Goto
<1>6. QED
  BY <1>2, <1>3, <1>4, <1>5, PhaseOrder, ExecutePhase

\* Removal during the execution loop skips nobody and runs nobody twice,
\* although the organism moved into the hole is met out of its order.
THEOREM ExecutionIsFair == Spec => []EachRunsOnce
<1> DEFINE Inv == PopulationInv /\ RunInv
<1>1. Init => Inv
  BY PopulationInit DEF Init, RunInv
<1>2. Inv /\ [Next]_vars => Inv'
  BY PopulationStep, RunStep
<1>3. Inv => EachRunsOnce
  <2>1. ASSUME Inv, pc = "execute" PROVE seen \cap Living = {slots[j] : j \in 1..(idx - 1)}
    <3>1. /\ seen \cap Living = Front(slots, idx) /\ DOMAIN slots = 1..Len(slots)
          /\ idx <= Len(slots) + 1 /\ idx \in Nat \ {0} /\ Len(slots) \in Nat
      BY <2>1 DEF RunInv, PopulationInv, TypeOK
    <3>2. {l \in DOMAIN slots : l < idx} = 1..(idx - 1)
      BY <3>1
    <3>3. QED
      BY <3>1, <3>2 DEF Front
  <2>2. QED
    BY <2>1 DEF EachRunsOnce
<1> HIDE DEF Inv
<1>4. QED
  BY <1>1, <1>2, <1>3, PTL DEF Spec

(***************************************************************************)
(* What has happened to the organisms, remembered by the history variables *)
(***************************************************************************)
\* The history variables watch the program and do not disturb it.
LEMMA HistoryWatches == [NextH]_<<vars, history>> => [Next]_vars
BY DEF NextH

\* Nothing but the policy of April 1 takes a step in its phase.
LEMMA FoolsDayNext ==
    pc = "foolsday" /\ Next => FoolAwake \/ FoolAsleep \/ FoolsDayDone
BY DEF Next, Step, Host, HostCall, HostTransition, HostTryBirth, HostSpoils, Terminated, Over,
       StartTick, CalendarEnds, RunEnds, ReturnFromOff, TimersDone,
       DormancyTimeout, DormancyDone, InvalidDies, ExecuteOff, StayAwake, FallAsleep, Doze,
       SwitchOff, WakeUp, AtWork, ExecutionDone, Deliver, CourtshipFails, CourtshipGoesOn,
       CourtshipEnds, Met, CourtshipsDone, EvictOldest, BirthFits, PopulationFits, Pair,
       PairingDone, Account, Periodic

\* On April 1, the roll of a survivor is set if it is rolled for and kept if not.
LEMMA RollsRecorded ==
    ASSUME PopulationInv, pc = "foolsday", Next, NEW x \in Ids, Lives(x)'
    PROVE  org'[x].roll = IF Rolled(x) THEN date.year ELSE org[x].roll
<1>0. /\ org \in Orgs /\ slots \in Seq(Ids) /\ Here \subseteq DOMAIN slots
      /\ \A y \in Ids : org[y] \in OrgType
  BY DEF PopulationInv, TypeOK, Here, Orgs
<1>1. ASSUME NEW j \in Judged, NextHit(j, Judged), NEW l \in Judged, NextHit(l, Judged)
      PROVE  j = l
  BY <1>0, <1>1 DEF NextHit, Judged, Here, PopulationInv, TypeOK
<1>2. ASSUME NEW f \in Orgs, NEW c, NEW j \in DOMAIN slots, RemoveAt(f, c, j)
      PROVE  x # slots[j] /\ org'[x].roll = f[x].roll
  <2> DEFINE o == slots[j]
  <2>1. o \in Ids /\ CancelIn(f, o) \in Orgs
    BY <1>0, <1>2, CancelInType
  <2>2. org'[x] = IF x = o THEN Nobody ELSE CancelIn(f, o)[x]
    BY <1>2, <2>1 DEF RemoveAt, Orgs
  <2> HIDE DEF o
  <2>3. x # o
    BY <1>2, <2>2 DEF Lives, Nobody
  <2>4. CancelIn(f, o)[x] = f[x] \/ CancelIn(f, o)[x] = Single(f[x])
    BY DEF CancelIn
  <2>5. QED
    BY <1>2, <2>2, <2>3, <2>4, SingleFields DEF Orgs, o
<1>3. CASE FoolAwake
  <2>1. PICK j \in Judged :
            NextHit(j, Judged) /\ org[slots[j]].state = "AWAKE" /\ RemoveAt(org, tally, j)
    BY <1>3 DEF FoolAwake
  <2>2. ~Rolled(x)
    BY <1>1, <2>1 DEF Rolled
  <2>3. QED
    BY <1>0, <1>2, <2>1, <2>2 DEF Judged
<1>4. CASE FoolAsleep
  <2>1. PICK j \in Judged, survived \in BOOLEAN :
            LET rolled == [org EXCEPT ![slots[j]].roll = date.year] IN
            /\ NextHit(j, Judged)
            /\ org[slots[j]].state = "ASLEEP"
            /\ IF survived THEN org' = rolled /\ UNCHANGED <<slots, tally>>
               ELSE RemoveAt(rolled, tally, j)
    BY <1>4 DEF FoolAsleep
  <2> DEFINE o == slots[j]
             r == [org[o] EXCEPT !.roll = date.year]
             rolled == [org EXCEPT ![o].roll = date.year]
  <2>2. j \in DOMAIN slots /\ o \in Ids
    BY <1>0 DEF Judged
  <2>3. r \in OrgType /\ r.roll = date.year
    <3>1. date.year \in 0..LastYear /\ org[o] \in OrgType
      BY <1>0, <2>2, LastYearType DEF PopulationInv, TypeOK, Dates
    <3>2. QED
      BY <3>1, Zenon DEF OrgType
  <2>4. rolled \in Orgs /\ \A y \in Ids : rolled[y] = IF y = o THEN r ELSE org[y]
    BY <1>0, <2>2, <2>3 DEF Orgs
  <2>5. Rolled(x) <=> x = o
    BY <1>1, <2>1 DEF Rolled
  <2>6. org' = rolled \/ RemoveAt(rolled, tally, j)
    BY <2>1
  <2> HIDE DEF r, rolled
  <2>7. org'[x].roll = rolled[x].roll
    BY <1>2, <2>2, <2>4, <2>6
  <2>8. QED
    BY <2>3, <2>4, <2>5, <2>7
<1>5. CASE FoolsDayDone
  BY <1>5 DEF FoolsDayDone, Rolled, world
<1>6. QED
  BY <1>3, <1>4, <1>5, FoolsDayNext

\* The rolls of the year, and who carries the year of its last one.
RollCounted(x, r, n) ==
    /\ n \in {0, 1}
    /\ x >= nextId => n = 0
    /\ r.state # "NONE" => (n = 1 <=> r.roll = date.year)

RollInv == OrganismInv /\ \A x \in Ids : RollCounted(x, org[x], rolls[x])

LEMMA RollStays == RollInv /\ [NextH]_<<vars, history>> => RollInv'
<1> SUFFICES ASSUME RollInv, [NextH]_<<vars, history>> PROVE RollInv'
  OBVIOUS
<1>0. /\ [Next]_vars /\ OrganismInv /\ OrganismInv' /\ PopulationInv /\ PopulationInv'
  BY HistoryWatches, OrganismStep, PopulationStep DEF RollInv, OrganismInv
<1>1. /\ nextId \in Nat /\ nextId' \in Nat /\ nextId' >= nextId /\ Ids \subseteq Nat
      /\ date \in Dates /\ date' \in Dates /\ date.year \in Nat /\ date'.year \in Nat
      /\ date.year # 0 /\ date'.year # 0
  <2>1. nextId' = nextId \/ nextId' = nextId + 1
    BY <1>0, NextIdFlow DEF CourtshipEnds
  <2>2. nextId \in Nat /\ date \in Dates /\ date.year \in 1..LastYear
        /\ nextId' \in Nat /\ date' \in Dates /\ date'.year \in 1..LastYear
    BY <1>0, MaxIdType DEF PopulationInv, TypeOK, DateValid
  <2>3. QED
    BY <2>1, <2>2, LastYearType DEF Ids
<1>2. ASSUME NEW x \in Ids PROVE RollCounted(x, org[x], rolls[x])'
  <2> DEFINE r == org[x]
             s == org'[x]
             n == rolls[x]
  <2>0. /\ r \in OrgType /\ s \in OrgType /\ RollCounted(x, r, n) /\ Sane(x, r)
        /\ x \in Nat /\ (x >= nextId => r.state = "NONE") /\ (x >= nextId' => s.state = "NONE")
    BY <1>0, <1>1 DEF RollInv, OrganismInv, PopulationInv, PopulationBalances, TypeOK, Orgs, Lives
  <2>1. CASE UNCHANGED <<vars, history>>
    <3>1. s = r /\ nextId' = nextId /\ date' = date /\ rolls'[x] = n
      BY <2>1 DEF vars, world, clock, history
    <3>2. QED
      BY <2>0, <3>1 DEF RollCounted
  <2>2. CASE NextH /\ StartTick
    <3>1. /\ s = r /\ nextId' = nextId /\ pc = "idle"
          /\ date' = date \/ date' = NextDate(date)
          /\ rolls'[x] = IF date'.year # date.year THEN 0 ELSE n
      BY <2>2 DEF StartTick, world, NextH, Rolled
    <3>2. date'.year >= date.year
      BY <1>1, <3>1, NextDateYear
    <3>3. r.roll \in Nat /\ r.roll <= date.year
      BY <2>0 DEF OrgType, Sane, RollSane
    <3>4. QED
      BY <1>1, <2>0, <3>1, <3>2, <3>3 DEF RollCounted
  <2>3. CASE NextH /\ ~StartTick
    <3>1. /\ date' = date
          /\ rolls'[x] = IF Rolled(x) THEN n + 1 ELSE n
      BY <1>0, <2>3, ClockFlow DEF NextH, clock, Account
    <3>2. ASSUME Rolled(x)
          PROVE  n = 0 /\ r.state = "ASLEEP" /\ pc = "foolsday" /\ x < nextId
      <4>1. r.state = "ASLEEP" /\ r.roll # date.year /\ pc = "foolsday"
        BY <3>2 DEF Rolled, Judged
      <4>2. QED
        BY <1>1, <2>0, <4>1 DEF RollCounted
    <3>3. s.state # "NONE" => (rolls'[x] = 1 <=> s.roll = date.year)
      <4>1. CASE pc = "foolsday"
        <5>1. s.state # "NONE" => r.state # "NONE"
          <6>1. Evolves(x, r, s) \/ s.state = r.state
            BY <1>0, <4>1, StepsEvolve DEF AllEvolve, Deliver, Account
          <6>2. QED
            BY <4>1, <6>1 DEF Evolves, Survives, LifeStep, SameState, Sleeps, Awakens, GoesOff,
                             ComesBack, Removed, Nobody, IsBorn
        <5>2. s.state # "NONE" => s.roll = IF Rolled(x) THEN date.year ELSE r.roll
          BY <1>0, <2>3, <4>1, RollsRecorded DEF Lives, NextH
        <5>3. QED
          BY <2>0, <3>1, <3>2, <5>1, <5>2 DEF RollCounted
      <4>2. CASE pc # "foolsday"
        <5>1. rolls'[x] = n
          BY <3>1, <3>2, <4>2
        <5>2. CASE Evolves(x, r, s)
          <6>1. CASE Survives(r, s)
            BY <2>0, <4>2, <5>1, <6>1
               DEF RollCounted, Survives, RollStep, LifeStep, SameState, Sleeps, Awakens,
                   GoesOff, ComesBack
          <6>2. CASE Removed(r, s)
            BY <6>2 DEF Removed, Nobody
          <6>3. CASE IsBorn(x, r, s)
            BY <1>1, <2>0, <5>1, <6>3, NewbornFields DEF IsBorn, RollCounted
          <6>4. QED
            BY <5>2, <6>1, <6>2, <6>3 DEF Evolves
        <5>3. CASE Deliver \/ Account
          <6>1. s.roll = r.roll /\ s.state = r.state
            <7>1. org \in Orgs /\ tick \in Nat
              BY <1>0 DEF PopulationInv, TypeOK
            <7>2. CASE Deliver
              BY <7>1, <7>2, DeliverOrg DEF SameState
            <7>3. CASE Account
              BY <2>0, <7>1, <7>3, AccountOrg DEF Account
            <7>4. QED
              BY <5>3, <7>2, <7>3
          <6>2. QED
            BY <2>0, <5>1, <6>1 DEF RollCounted
        <5>4. QED
          BY <1>0, <5>2, <5>3, StepsEvolve DEF AllEvolve
      <4>3. QED
        BY <4>1, <4>2
    <3>4. rolls'[x] \in {0, 1} /\ (x >= nextId' => rolls'[x] = 0)
      BY <1>1, <2>0, <3>1, <3>2 DEF RollCounted
    <3>5. QED
      BY <3>1, <3>3, <3>4 DEF RollCounted
  <2>4. QED
    BY <2>1, <2>2, <2>3
<1>3. QED
  BY <1>0, <1>2 DEF RollInv

\* Nobody is rolled for twice in a year, whatever it has done since its roll
\* and even if the roll year it carries were wrong; and it never is.
THEOREM OneRollAYear == SpecH => []OneRollPerYear
<1>1. InitH => RollInv
  <2> SUFFICES ASSUME InitH PROVE RollInv
    OBVIOUS
  <2>1. OrganismInv /\ date.year # 0
    BY OrganismInit, LastYearType DEF InitH, OrganismInv, PopulationInv, TypeOK, DateValid
  <2>2. \A x \in Ids : rolls[x] = 0 /\ org[x].roll = 0
    BY SeedsFields DEF InitH
  <2>3. QED
    BY <2>1, <2>2 DEF RollInv, RollCounted
<1>2. RollInv => OneRollPerYear
  BY DEF RollInv, RollCounted, OneRollPerYear, Lives
<1>3. QED
  BY <1>1, <1>2, RollStays, PTL DEF SpecH

(***************************************************************************)
(* Who has run awake in this tick, and who is heard                        *)
(***************************************************************************)
\* Execution gives o, and o alone, its voice: it speaks if it ran awake and
\* has stayed so.
Voiced(f, o) ==
    /\ \A y \in Ids : y # o => f[y].sent = org[y].sent /\ f[y].state = org[y].state
    /\ f[o].sent <=> org[o].state = "AWAKE" /\ f[o].state = "AWAKE"

LEMMA CancelVoice ==
    ASSUME NEW f \in Orgs, NEW o, NEW y \in Ids
    PROVE  CancelIn(f, o)[y].sent = f[y].sent /\ CancelIn(f, o)[y].state = f[y].state
<1>1. f[y] \in OrgType
  BY DEF Orgs
<1>2. CancelIn(f, o)[y] = f[y] \/ CancelIn(f, o)[y] = Single(f[y])
  BY DEF CancelIn
<1>3. QED
  BY <1>1, <1>2, SingleFields DEF SameState

LEMMA SettleVoices ==
    ASSUME org \in Orgs, NEW o \in Ids, o = slots[idx], NEW f \in Orgs, NEW c, Voiced(f, o),
           Settle(o, f, c) \/ RemoveAt(f, c, idx), NEW x \in Ids, Lives(x)'
    PROVE  IF x = o THEN org'[x].sent <=> org[x].state = "AWAKE" /\ org'[x].state = "AWAKE"
           ELSE org'[x].sent = org[x].sent /\ org'[x].state = org[x].state
<1>1. CASE org' = f
  BY <1>1 DEF Voiced
<1>2. CASE RemoveAt(f, c, idx)
  <2>1. CancelIn(f, o) \in Orgs /\ org' = [CancelIn(f, o) EXCEPT ![o] = Nobody]
    BY <1>2, CancelInType DEF RemoveAt
  <2>2. org'[x] = IF x = o THEN Nobody ELSE CancelIn(f, o)[x]
    BY <2>1 DEF Orgs
  <2>3. x # o
    BY <2>2 DEF Lives, Nobody
  <2>4. QED
    BY <2>2, <2>3, CancelVoice DEF Voiced
<1>3. QED
  BY <1>1, <1>2 DEF Settle

LEMMA TransitionVoiced ==
    ASSUME tick \in Nat, NEW f \in Orgs, NEW o \in Ids, NEW to \in LifeStates, NEW d \in Nat,
           Voiced(f, o), to = "AWAKE" => org[o].state # "AWAKE"
    PROVE  Voiced(TransitionIn(f, o, to, d), o)
<1> DEFINE t == TransitionIn(f, o, to, d)
<1>0. f[o] \in OrgType
  BY DEF Orgs
<1>1. CASE to = "AWAKE"
  <2> DEFINE r == [f[o] EXCEPT !.state = to, !.backOn = 0, !.lastAwake = tick]
  <2>1. \A y \in Ids : t[y] = IF y = o THEN r ELSE f[y]
    BY <1>1 DEF TransitionIn, Orgs
  <2>2. r.sent = f[o].sent
    BY <1>0, Zenon DEF OrgType
  <2> HIDE DEF r, t
  <2>3. QED
    BY <1>1, <2>1, <2>2 DEF Voiced, t
<1>2. CASE to # "AWAKE"
  <2> DEFINE g == CancelIn(f, o)
             b == IF to = "OFF" THEN tick + ClampOff(d) ELSE 0
             r == Quiet([g[o] EXCEPT !.state = to, !.backOn = b])
  <2>1. g \in Orgs /\ g[o] \in OrgType
    BY CancelInType DEF Orgs
  <2>2. \A y \in Ids : t[y] = IF y = o THEN r ELSE g[y]
    BY <1>2, <2>1 DEF TransitionIn, Orgs
  <2>3. \A y \in Ids : g[y].sent = f[y].sent /\ g[y].state = f[y].state
    BY CancelVoice
  <2> HIDE DEF g, b
  <2>4. r.state = to /\ ~r.sent
    BY <2>1, Zenon DEF OrgType, Quiet
  <2> HIDE DEF r, t
  <2>5. QED
    BY <1>2, <2>2, <2>3, <2>4 DEF Voiced, t
<1>3. QED
  BY <1>1, <1>2

\* What an iteration of the execution loop makes of the voice of a survivor.
Speaks(x) ==
    IF x = slots[idx]
    THEN /\ LoopValid(org[x])
         /\ org'[x].sent <=> org[x].state = "AWAKE" /\ org'[x].state = "AWAKE"
    ELSE org'[x].sent = org[x].sent /\ org'[x].state = org[x].state

LEMMA RunVoices ==
    ASSUME PopulationInv, Executes \/ InvalidDies, NEW x \in Ids, Lives(x)'
    PROVE  Speaks(x)
<1>0. /\ org \in Orgs /\ slots \in Seq(Ids) /\ tick \in Nat /\ Living \subseteq Ids
      /\ {"AWAKE", "ASLEEP", "OFF"} = LifeStates
      /\ \A y \in Ids : org[y] \in OrgType
  BY DEF PopulationInv, TypeOK, Living, LifeStates, Orgs
<1>1. ASSUME NEW o \in Living, NEW state, AtWork(o, state), NEW f \in Orgs, Voiced(f, o),
             NEW c, Settle(o, f, c) \/ RemoveAt(f, c, idx)
      PROVE  Speaks(x)
  <2>1. o \in Ids /\ o = slots[idx] /\ LoopValid(org[o])
    BY <1>0, <1>1 DEF AtWork
  <2>2. QED
    BY <1>0, <1>1, <2>1, SettleVoices DEF Speaks
<1>2. ASSUME NEW o \in Ids, org[o].state = "AWAKE", pc = "execute",
             NEW consents \in BOOLEAN, NEW v \in Outcomes
      PROVE  AwakeRun(o, consents, v) \in Orgs /\ Voiced(AwakeRun(o, consents, v), o)
  <2> DEFINE f == AwakeRun(o, consents, v)
  <2>1. f \in Orgs /\ SameState(org[o], f[o]) /\ f[o].sent
    BY <1>0, <1>2, AwakeRunType, AwakeRunSurvives
  <2>2. \A y \in Ids : y # o => f[y] = org[y]
    BY <1>0 DEF AwakeRun, Orgs
  <2> HIDE DEF f
  <2>3. QED
    BY <1>2, <2>1, <2>2 DEF Voiced, SameState, f
<1>3. ASSUME NEW o \in Ids, org[o].state # "AWAKE", pc = "execute", NEW v \in Outcomes
      PROVE  AsleepRun(o, v) \in Orgs /\ Voiced(AsleepRun(o, v), o)
  <2> DEFINE f == AsleepRun(o, v)
  <2>1. f \in Orgs /\ ~f[o].sent
    BY <1>0, <1>3, AsleepRunType, AsleepRunSurvives
  <2>2. \A y \in Ids : y # o => f[y] = org[y]
    BY <1>0 DEF AsleepRun, Orgs
  <2> HIDE DEF f
  <2>3. QED
    BY <1>3, <2>1, <2>2 DEF Voiced, f
<1>4. CASE InvalidDies
  <2>1. idx \in DOMAIN slots /\ RemoveAt(org, tally, idx) /\ ~LoopValid(org[slots[idx]])
    BY <1>0, <1>4 DEF PopulationInv, TypeOK, InvalidDies
  <2> DEFINE o == slots[idx]
  <2>2. o \in Ids /\ CancelIn(org, o) \in Orgs
    BY <1>0, <2>1, CancelInType
  <2>3. org'[x] = IF x = o THEN Nobody ELSE CancelIn(org, o)[x]
    BY <2>1, <2>2 DEF RemoveAt, Orgs
  <2>4. x # o
    BY <2>3 DEF Lives, Nobody
  <2>5. QED
    BY <1>0, <2>3, <2>4, CancelVoice DEF Speaks
<1>5. CASE ExecuteOff
  <2>1. PICK o \in Living : AtWork(o, "OFF") /\ Settle(o, [org EXCEPT ![o].sent = FALSE], tally)
    BY <1>5 DEF ExecuteOff
  <2> DEFINE r == [org[o] EXCEPT !.sent = FALSE]
             f == [org EXCEPT ![o].sent = FALSE]
  <2>2. r \in OrgType /\ ~r.sent /\ org[o].state # "AWAKE"
    <3>1. org[o] \in OrgType
      BY <1>0
    <3>2. r \in OrgType /\ ~r.sent
      BY <3>1, Zenon DEF OrgType
    <3>3. QED
      BY <2>1, <3>2 DEF AtWork
  <2>3. f \in Orgs /\ \A y \in Ids : f[y] = IF y = o THEN r ELSE org[y]
    BY <1>0, <2>2 DEF Orgs
  <2> HIDE DEF r, f
  <2>4. Voiced(f, o)
    BY <1>0, <2>2, <2>3 DEF Voiced
  <2>5. QED
    BY <1>1, <2>1, <2>3, <2>4 DEF f
<1>6. CASE StayAwake
  <2>1. PICK o \in Living, consents \in BOOLEAN, v \in Outcomes :
            AtWork(o, "AWAKE") /\ Settle(o, AwakeRun(o, consents, v), tally)
    BY <1>6 DEF StayAwake
  <2>2. QED
    BY <1>0, <1>1, <1>2, <2>1 DEF AtWork
<1>7. CASE FallAsleep
  <2>1. PICK o \in Living, v \in Outcomes :
            /\ AtWork(o, "AWAKE")
            /\ Settle(o, TransitionIn(AwakeRun(o, FALSE, v), o, "ASLEEP", 0),
                         TransitionTally(AwakeRun(o, FALSE, v), tally, o, "ASLEEP"))
    BY <1>7 DEF FallAsleep
  <2> DEFINE f == AwakeRun(o, FALSE, v)
  <2>2. f \in Orgs /\ Voiced(f, o)
    BY <1>0, <1>2, <2>1 DEF AtWork
  <2>3. TransitionIn(f, o, "ASLEEP", 0) \in Orgs /\ Voiced(TransitionIn(f, o, "ASLEEP", 0), o)
    <3> HIDE DEF f
    <3>1. QED
      BY <1>0, <2>2, TransitionInType, TransitionVoiced
  <2>4. QED
    BY <1>1, <2>1, <2>3
<1>8. CASE Doze
  <2>1. PICK o \in Living, v \in Outcomes :
            AtWork(o, "ASLEEP") /\ Settle(o, AsleepRun(o, v), tally)
    BY <1>8 DEF Doze
  <2>2. QED
    BY <1>0, <1>1, <1>3, <2>1 DEF AtWork
<1>9. CASE SwitchOff
  <2>1. PICK o \in Living, v \in Outcomes, d \in OffMin..OffMax :
            /\ AtWork(o, "ASLEEP")
            /\ Settle(o, TransitionIn(AsleepRun(o, v), o, "OFF", d),
                         TransitionTally(AsleepRun(o, v), tally, o, "OFF"))
    BY <1>9 DEF SwitchOff
  <2> DEFINE f == AsleepRun(o, v)
  <2>2. f \in Orgs /\ Voiced(f, o) /\ d \in Nat
    BY <1>0, <1>3, <2>1, ConfigAssumption DEF AtWork
  <2>3. TransitionIn(f, o, "OFF", d) \in Orgs /\ Voiced(TransitionIn(f, o, "OFF", d), o)
    <3> HIDE DEF f
    <3>1. QED
      BY <1>0, <2>2, TransitionInType, TransitionVoiced
  <2>4. QED
    BY <1>1, <2>1, <2>3
<1>10. CASE WakeUp
  <2>1. PICK o \in Living, v \in Outcomes :
            /\ AtWork(o, "ASLEEP")
            /\ \/ Settle(o, TransitionIn(AsleepRun(o, v), o, "AWAKE", 0), tally)
               \/ RemoveAt(TransitionIn(AsleepRun(o, v), o, "AWAKE", 0), tally, idx)
    BY <1>10 DEF WakeUp
  <2> DEFINE f == AsleepRun(o, v)
  <2>2. f \in Orgs /\ Voiced(f, o) /\ org[o].state # "AWAKE"
    BY <1>0, <1>3, <2>1 DEF AtWork
  <2>3. TransitionIn(f, o, "AWAKE", 0) \in Orgs /\ Voiced(TransitionIn(f, o, "AWAKE", 0), o)
    <3> HIDE DEF f
    <3>1. QED
      BY <1>0, <2>2, TransitionInType, TransitionVoiced
  <2>4. QED
    BY <1>1, <2>1, <2>3
<1>11. QED
  BY <1>4, <1>5, <1>6, <1>7, <1>8, <1>9, <1>10 DEF Executes

\* Nothing but an iteration or the end of the loop takes a step in its phase.
LEMMA ExecuteNext ==
    pc = "execute" /\ Next => Executes \/ InvalidDies \/ ExecutionDone
BY DEF Next, Step, Host, HostCall, HostTransition, HostTryBirth, HostSpoils, Terminated, Over,
       StartTick, CalendarEnds, RunEnds, ReturnFromOff, TimersDone, FoolAwake, FoolAsleep,
       FoolsDayDone, DormancyTimeout, DormancyDone, Executes, Deliver, CourtshipFails,
       CourtshipGoesOn, CourtshipEnds, Met, CourtshipsDone, EvictOldest, BirthFits,
       PopulationFits, Pair, PairingDone, Account, Periodic

\* From the execution loop to the accounting, ids may have run in this tick.
Ran == Delivered \cup {"execute", "deliver"}

Past(x) ==
    /\ ranAwake[x] \in Never..tick
    /\ x >= nextId => ranAwake[x] = Never
    /\ pc \notin Ran => ranAwake[x] < tick

\* In the loop, who has been handled and has a message ran awake in it.
Running(x) ==
    IF x \in seen THEN org[x].sent <=> Spoke(x) ELSE ranAwake[x] < tick

NoneNew == pc \notin Delivered => \A o \in Living : ~NewThisTick(o)

Fresh(o) == \A x \in org[o].inbox : ranAwake[x] >= tick - 1

RanInv == \A x \in Ids : Past(x)

LoopVoices == pc = "execute" => \A x \in Living : Running(x)

VoiceInv ==
    /\ OrganismInv /\ RunInv /\ RanInv /\ NoneNew /\ LoopVoices
    /\ SendersSpoke /\ HearsTheSpeakers
    /\ \A o \in Ids : Fresh(o)

\* The history notes who runs awake, and nothing else.
LEMMA RanRecorded ==
    ASSUME [NextH]_<<vars, history>>, NEW x \in Ids
    PROVE  /\ ranAwake'[x] = tick \/ ranAwake'[x] = ranAwake[x]
           /\ ~RunsAwake(x) => ranAwake'[x] = ranAwake[x]
           /\ RunsAwake(x) /\ Next /\ NextH => ranAwake'[x] = tick
BY DEF NextH, history

\* The clock goes on in the accounting, which ends the phases of Ran.
LEMMA TickFlow ==
    [Next]_vars =>
        \/ tick' = tick
        \/ tick' = tick + 1 /\ pc = "account" /\ pc' = "periodic" /\ Account
BY ClockFlow DEF clock, StartTick, Account, Goto

LEMMA PastStep ==
    ASSUME PopulationInv, PopulationInv', RanInv, [NextH]_<<vars, history>>
    PROVE  RanInv'
<1>0. /\ [Next]_vars /\ tick \in Nat /\ nextId \in Nat /\ nextId' \in Nat /\ Ids \subseteq Nat
      /\ Elements(slots) = Living
  BY HistoryWatches, MaxIdType
     DEF PopulationInv, TypeOK, Ids, ArrayHoldsTheLiving, Elements
<1>1. nextId' >= nextId
  <2>1. nextId' = nextId \/ nextId' = nextId + 1
    BY <1>0, NextIdFlow DEF CourtshipEnds
  <2>2. QED
    BY <1>0, <2>1
<1>2. ASSUME NEW x \in Ids PROVE Past(x)'
  <2>1. Past(x) /\ ranAwake[x] \in Int /\ x \in Nat
    BY <1>0 DEF RanInv, Past, Never
  <2>2. RunsAwake(x) => x < nextId /\ pc = "execute"
    BY <1>0, <2>1 DEF RunsAwake, PopulationInv, PopulationBalances, Lives
  <2>3. pc' \notin Ran => pc \notin Ran \/ tick' = tick + 1
    BY <1>0, PhaseOrder DEF Ran, Delivered, Account
  <2>4. pc = "execute" => pc' \in Ran
    BY <1>0, PhaseOrder DEF Ran, Delivered
  <2>5. tick' = tick \/ tick' = tick + 1
    BY <1>0, TickFlow
  <2>6. /\ ranAwake'[x] = tick \/ ranAwake'[x] = ranAwake[x]
        /\ ~RunsAwake(x) => ranAwake'[x] = ranAwake[x]
    BY RanRecorded
  <2>7. QED
    BY <1>0, <1>1, <2>1, <2>2, <2>3, <2>4, <2>5, <2>6 DEF Past, Never
<1>3. QED
  BY <1>2 DEF RanInv

\* After the execution loop the living speak on, and the newborn are silent.
LEMMA VoicesStand ==
    ASSUME OrganismInv, [Next]_vars, pc \in Delivered \cup {"deliver"}, pc # "account",
           NEW x \in Ids, Lives(x)'
    PROVE  \/ /\ Lives(x) /\ org'[x].state = org[x].state
              /\ org'[x].sent = org[x].sent /\ org'[x].birth = org[x].birth
              /\ Deliver \/ org'[x].inbox = org[x].inbox
           \/ /\ x >= nextId /\ x > 2 /\ pc = "courtship"
              /\ org'[x].birth = tick /\ ~org'[x].sent /\ org'[x].inbox = {}
<1> DEFINE r == org[x]
           s == org'[x]
<1>0. /\ org \in Orgs /\ nextId \in Nat /\ nextId > 2 /\ Ids \subseteq Nat
      /\ pc \in {"deliver", "courtship", "birthEvict", "pairing", "evict"}
  BY MaxIdType DEF OrganismInv, PopulationInv, TypeOK, Ids, Delivered
<1>1. CASE Deliver
  BY <1>0, <1>1, DeliverOrg DEF SamePast, SameState, Lives
<1>2. CASE Survives(r, s)
  <2>1. s.state = r.state
    BY <1>0, <1>2 DEF Survives, LifeStep, SameState, Sleeps, Awakens, WakesHere, GoesOff, ComesBack
  <2>2. QED
    BY <1>0, <1>2, <2>1 DEF Survives, VoiceStep, SamePast, Lives
<1>3. CASE Removed(r, s)
  BY <1>3 DEF Removed, Nobody, Lives
<1>4. CASE IsBorn(x, r, s)
  BY <1>0, <1>4, NewbornFields DEF IsBorn
<1>5. QED
  BY <1>0, <1>1, <1>2, <1>3, <1>4, StepsEvolve DEF AllEvolve, Evolves, Account, OrganismInv


LEMMA NoneNewStep ==
    ASSUME OrganismInv, OrganismInv', NoneNew, [Next]_vars
    PROVE  NoneNew'
<1> SUFFICES ASSUME pc' \notin Delivered, NEW x \in Ids, Lives(x)'
             PROVE  ~NewThisTick(x)'
  BY DEF NoneNew, Living
<1>0. /\ tick \in Nat /\ org \in Orgs /\ org[x] \in OrgType /\ pc \in Phases
  BY DEF OrganismInv, PopulationInv, TypeOK, Orgs
<1>1. CASE Account
  <2>1. Lives(x) /\ org'[x].birth = org[x].birth /\ tick' = tick + 1
    BY <1>0, <1>1, AccountOrg DEF Account, Lives
  <2>2. org[x].birth <= tick /\ org[x].birth \in Nat
    BY <1>0, <2>1 DEF OrganismInv, Sane, AgeSane, OrgType, Lives
  <2>3. QED
    BY <1>0, <2>1, <2>2 DEF NewThisTick
<1>2. CASE ~Account
  <2>1. tick' = tick /\ pc \notin Delivered
    BY <1>2, TickFlow, PhaseOrder DEF Delivered
  <2>2. Evolves(x, org[x], org'[x])
    BY <1>2, StepsEvolve DEF OrganismInv, AllEvolve, Deliver, Goto, Delivered
  <2>3. Survives(org[x], org'[x])
    BY <2>1, <2>2 DEF Evolves, Removed, Nobody, Lives, IsBorn, Delivered
  <2>4. Lives(x) /\ org'[x].birth = org[x].birth
    BY <2>3 DEF Survives, SamePast, LifeStep, SameState, Sleeps, Awakens, GoesOff, ComesBack, Lives
  <2>5. QED
    BY <2>1, <2>4 DEF NoneNew, NewThisTick, Living
<1>3. QED
  BY <1>1, <1>2

LEMMA LoopVoicesStep ==
    ASSUME VoiceInv, PopulationInv', [NextH]_<<vars, history>>
    PROVE  LoopVoices'
<1> SUFFICES ASSUME pc' = "execute", NEW x \in Ids, Lives(x)'
             PROVE  Running(x)'
  BY DEF LoopVoices, Living
<1>0. /\ [Next]_vars /\ TypeOK /\ tick \in Nat /\ tick' = tick /\ PopulationInv
      /\ Distinct(slots) /\ ranAwake[x] \in Int /\ idx \in Nat \ {0} /\ slots \in Seq(Ids)
  <2>1. [Next]_vars /\ PopulationInv /\ tick \in Nat
    BY HistoryWatches DEF VoiceInv, OrganismInv, PopulationInv, TypeOK
  <2>2. tick' = tick
    BY <2>1, TickFlow
  <2>3. QED
    BY <2>1, <2>2
       DEF VoiceInv, RanInv, Past, Never, PopulationInv, TypeOK, ArrayHoldsTheLiving, Distinct
<1>1. CASE UNCHANGED <<vars, history>>
  BY <1>1 DEF VoiceInv, LoopVoices, Running, Spoke, Living, Lives, vars, world, clock, control, history
<1>2. CASE pc # "execute"
  <2>1. DormancyDone
    BY <1>0, <1>2, PhaseOrder
  <2>2. seen' = {} /\ pc \notin Ran /\ ~RunsAwake(x)
    BY <2>1 DEF DormancyDone, Goto, Ran, Delivered, RunsAwake
  <2>3. ranAwake'[x] = ranAwake[x] /\ ranAwake[x] < tick
    BY <2>2, RanRecorded DEF VoiceInv, RanInv, Past
  <2>4. QED
    BY <1>0, <2>2, <2>3 DEF Running
<1>3. CASE NextH /\ Next /\ pc = "execute"
  <2> DEFINE o == slots[idx]
  <2>1. Executes \/ InvalidDies
    BY <1>3, ExecuteNext DEF ExecutionDone, Goto
  <2>2. idx \in DOMAIN slots /\ seen' = seen \cup {o}
    BY <1>0, <2>1, Handles
  <2>3. Speaks(x)
    BY <1>0, <2>1, RunVoices
  <2>4. Lives(x) /\ Running(x)
    <3>1. Lives(x)
      <4>1. Evolves(x, org[x], org'[x])
        BY <1>0, <2>1, ExecutesEvolve DEF AllEvolve
      <4>2. QED
        BY <1>3, <4>1 DEF Evolves, Survives, LifeStep, SameState, Sleeps, Awakens, GoesOff, ComesBack,
                   Removed, Nobody, IsBorn, Lives
    <3>2. QED
      BY <1>3, <3>1 DEF VoiceInv, LoopVoices, Living
  <2>5. CASE x = o
    <3>1. x \notin seen
      <4>1. x \notin Front(slots, idx)
        BY <1>0, <2>2, <2>5 DEF Front, Distinct
      <4>2. QED
        BY <1>3, <2>4, <4>1 DEF VoiceInv, RunInv, Living
    <3>2. ranAwake[x] < tick
      BY <2>4, <3>1 DEF Running
    <3>3. /\ LoopValid(org[x])
          /\ org'[x].sent <=> org[x].state = "AWAKE" /\ org'[x].state = "AWAKE"
      BY <2>3, <2>5 DEF Speaks
    <3>4. RunsAwake(x) <=> org[x].state = "AWAKE"
      BY <1>3, <2>2, <2>5, <3>3 DEF RunsAwake
    <3>5. ranAwake'[x] = tick <=> org[x].state = "AWAKE"
      BY <1>0, <1>3, <3>2, <3>4, RanRecorded
    <3>6. QED
      BY <1>0, <2>2, <2>5, <3>3, <3>5 DEF Running, Spoke
  <2>6. CASE x # o
    <3>1. ranAwake'[x] = ranAwake[x] /\ (x \in seen' <=> x \in seen)
      BY <2>2, <2>6, RanRecorded DEF RunsAwake
    <3>2. org'[x].sent = org[x].sent /\ org'[x].state = org[x].state
      BY <2>3, <2>6 DEF Speaks
    <3>3. QED
      BY <1>0, <2>4, <3>1, <3>2 DEF Running, Spoke
  <2>7. QED
    BY <2>5, <2>6
<1>4. QED
  BY <1>1, <1>2, <1>3 DEF NextH

LEMMA SendersStep ==
    ASSUME VoiceInv, PopulationInv', [NextH]_<<vars, history>>
    PROVE  SendersSpoke'
<1> SUFFICES ASSUME pc' \in Delivered \cup {"deliver"}, NEW x \in Ids, Lives(x)'
             PROVE  org'[x].sent <=> Spoke(x)'
  BY DEF SendersSpoke, Living
<1>0. /\ [Next]_vars /\ OrganismInv /\ PopulationInv /\ tick \in Nat /\ tick' = tick
      /\ idx \in Nat \ {0} /\ slots \in Seq(Ids) /\ Elements(slots) = Living
  <2>1. [Next]_vars /\ OrganismInv /\ PopulationInv
    BY HistoryWatches DEF VoiceInv, OrganismInv
  <2>2. tick' = tick
    BY <2>1, TickFlow DEF Delivered
  <2>3. QED
    BY <2>1, <2>2 DEF PopulationInv, TypeOK, ArrayHoldsTheLiving, Elements
<1>1. CASE pc \notin Delivered \cup {"deliver"}
  <2>1. ExecutionDone
    BY <1>0, <1>1, PhaseOrder DEF Delivered
  <2>2. org' = org /\ pc = "execute" /\ idx > Len(slots) /\ x \in Living
    BY <2>1 DEF ExecutionDone, world, Living, Lives
  <2>3. ~RunsAwake(x)
    BY <1>0, <2>2 DEF RunsAwake
  <2>4. x \in seen
    <3>1. PICK j \in DOMAIN slots : x = slots[j]
      BY <1>0, <2>2 DEF Elements
    <3>2. x \in Front(slots, idx)
      BY <1>0, <2>2, <3>1 DEF Front
    <3>3. QED
      BY <2>2, <3>2 DEF VoiceInv, RunInv
  <2>5. QED
    BY <1>0, <2>2, <2>3, <2>4, RanRecorded DEF VoiceInv, LoopVoices, Running, Spoke
<1>2. CASE pc \in Delivered \cup {"deliver"}
  <2>1. ranAwake'[x] = ranAwake[x] /\ Past(x) /\ x \in Nat /\ nextId \in Nat
    BY <1>0, <1>2, RanRecorded, MaxIdType
       DEF RunsAwake, Delivered, VoiceInv, RanInv, Ids, PopulationInv, TypeOK
  <2>2. CASE pc = "account"
    <3>1. org' = org
      BY <1>0, <2>2, AccountPhase DEF vars, world, Delivered, Account, Goto
    <3>2. QED
      BY <1>0, <1>2, <2>1, <3>1 DEF VoiceInv, SendersSpoke, Spoke, Living, Lives
  <2>3. CASE pc # "account"
    <3>1. CASE /\ Lives(x) /\ org'[x].state = org[x].state /\ org'[x].sent = org[x].sent
      BY <1>0, <1>2, <2>1, <3>1 DEF VoiceInv, SendersSpoke, Spoke, Living
    <3>2. CASE x >= nextId /\ ~org'[x].sent
      BY <1>0, <2>1, <3>2 DEF Past, Never, Spoke
    <3>3. QED
      BY <1>0, <1>2, <2>3, <3>1, <3>2, VoicesStand
  <2>4. QED
    BY <2>2, <2>3
<1>3. QED
  BY <1>1, <1>2

LEMMA HearsStep ==
    ASSUME VoiceInv, PopulationInv', [NextH]_<<vars, history>>
    PROVE  HearsTheSpeakers'
<1> SUFFICES ASSUME pc' \in Delivered, NEW o \in Ids, Lives(o)'
             PROVE  /\ \A x \in org'[o].inbox : ranAwake'[x] = tick'
                    /\ \A x \in Ids : Lives(x)' =>
                        (x \in org'[o].inbox <=>
                            /\ Spoke(x)' /\ x # o
                            /\ org'[o].state = "AWAKE" /\ ~NewThisTick(o)')
  BY DEF HearsTheSpeakers, Living
<1>0. /\ [Next]_vars /\ OrganismInv /\ PopulationInv /\ tick \in Nat /\ tick' = tick
      /\ pc \in Delivered \cup {"deliver"} /\ (pc = "deliver" => Deliver)
      /\ \A x \in Ids : org[x].inbox \subseteq Ids /\ org'[x].inbox \subseteq Ids
  <2>1. [Next]_vars /\ OrganismInv /\ PopulationInv
    BY HistoryWatches DEF VoiceInv, OrganismInv
  <2>2. tick' = tick
    BY <2>1, TickFlow DEF Delivered
  <2>3. pc \in Delivered \cup {"deliver"} /\ (pc = "deliver" => Deliver)
    BY <2>1, PhaseOrder DEF Delivered
  <2>4. QED
    BY <2>1, <2>2, <2>3 DEF PopulationInv, TypeOK, Orgs, OrgType
<1>1. ASSUME NEW x \in Ids PROVE ranAwake'[x] = ranAwake[x]
  BY <1>0, RanRecorded DEF RunsAwake, Delivered
<1>2. ASSUME NEW x \in Ids, x >= nextId PROVE ranAwake[x] # tick
  BY <1>0, <1>2 DEF VoiceInv, RanInv, Past, Never
<1>3. CASE Deliver
  <2>1. ASSUME NEW x \in Ids
        PROVE  /\ org'[x].state = org[x].state /\ org'[x].birth = org[x].birth
               /\ org'[x].inbox = IF Lives(x) THEN InboxOf(x) ELSE org[x].inbox
    BY <1>0, <1>3, DeliverOrg DEF SamePast, SameState, PopulationInv, TypeOK
  <2>2. pc = "deliver"
    BY <1>3 DEF Deliver
  <2>3. Lives(o) /\ ~NewThisTick(o)'
    BY <1>0, <2>1, <2>2 DEF Lives, VoiceInv, NoneNew, NewThisTick, Living, Delivered
  <2>4. ASSUME NEW x \in Ids, Lives(x) PROVE org[x].sent <=> Spoke(x)'
    BY <1>0, <1>1, <2>1, <2>2, <2>4 DEF VoiceInv, SendersSpoke, Spoke, Living
  <2>5. ASSUME NEW x \in org'[o].inbox PROVE ranAwake'[x] = tick'
    <3>1. x \in Senders
      BY <2>1, <2>3, <2>5 DEF InboxOf
    <3>2. QED
      BY <2>4, <3>1 DEF Senders, Living, Spoke
  <2>6. ASSUME NEW x \in Ids, Lives(x)'
        PROVE  x \in org'[o].inbox <=> Spoke(x)' /\ x # o /\ org'[o].state = "AWAKE"
    <3>1. Lives(x)
      BY <2>1, <2>6 DEF Lives
    <3>2. x \in Senders <=> Spoke(x)'
      BY <2>4, <3>1 DEF Senders, Living
    <3>3. QED
      BY <2>1, <2>3, <3>2 DEF InboxOf
  <2>7. QED
    BY <2>3, <2>5, <2>6
<1>4. CASE pc = "account"
  <2>1. org' = org
    BY <1>0, <1>4, AccountPhase DEF vars, world, Delivered, Account, Goto
  <2>2. QED
    BY <1>0, <1>1, <1>4, <2>1
       DEF VoiceInv, HearsTheSpeakers, Spoke, NewThisTick, Living, Lives, Delivered
<1>5. CASE pc \in Delivered /\ pc # "account" /\ ~Deliver
  <2>1. ASSUME NEW x \in Ids, Lives(x)'
        PROVE  \/ Lives(x) /\ (Spoke(x)' <=> Spoke(x))
               \/ x >= nextId /\ ~Spoke(x)'
    BY <1>0, <1>1, <1>2, <1>5, <2>1, VoicesStand DEF Spoke
  <2>2. CASE /\ Lives(o) /\ org'[o].state = org[o].state
             /\ org'[o].birth = org[o].birth /\ org'[o].inbox = org[o].inbox
    <3>1. \A x \in org[o].inbox : ranAwake[x] = tick
      BY <1>5, <2>2 DEF VoiceInv, HearsTheSpeakers, Living
    <3>2. \A x \in org'[o].inbox : ranAwake'[x] = tick'
      BY <1>0, <1>1, <2>2, <3>1
    <3>3. ASSUME NEW x \in Ids, Lives(x)'
          PROVE  x \in org'[o].inbox <=>
                    /\ Spoke(x)' /\ x # o
                    /\ org'[o].state = "AWAKE" /\ ~NewThisTick(o)'
      <4>1. NewThisTick(o)' <=> NewThisTick(o)
        BY <1>0, <2>2 DEF NewThisTick
      <4>2. CASE Lives(x) /\ (Spoke(x)' <=> Spoke(x))
        BY <1>5, <2>2, <4>1, <4>2 DEF VoiceInv, HearsTheSpeakers, Living
      <4>3. CASE x >= nextId /\ ~Spoke(x)'
        BY <1>2, <2>2, <3>1, <4>3
      <4>4. QED
        BY <2>1, <3>3, <4>2, <4>3
    <3>4. QED
      BY <3>2, <3>3
  <2>3. CASE o > 2 /\ org'[o].birth = tick /\ org'[o].inbox = {}
    <3>1. NewThisTick(o)'
      BY <1>0, <2>3 DEF NewThisTick
    <3>2. QED
      BY <2>3, <3>1
  <2>4. QED
    BY <1>0, <1>5, <2>2, <2>3, VoicesStand
<1>6. QED
  BY <1>0, <1>3, <1>4, <1>5 DEF Delivered

\* An inbox is kept as it is, cleared or filled, and the tick ends once.
LEMMA FreshStep ==
    ASSUME VoiceInv, HearsTheSpeakers', [NextH]_<<vars, history>>, NEW o \in Ids
    PROVE  Fresh(o)'
<1>0. /\ [Next]_vars /\ OrganismInv /\ PopulationInv /\ tick \in Nat
      /\ org \in Orgs /\ org[o] \in OrgType /\ org[o].inbox \subseteq Ids
  BY HistoryWatches DEF VoiceInv, OrganismInv, PopulationInv, TypeOK, Orgs, OrgType
<1>1. ASSUME NEW x \in Ids
      PROVE  ranAwake[x] \in Int /\ ranAwake[x] <= tick
             /\ (ranAwake'[x] = tick \/ ranAwake'[x] = ranAwake[x])
  BY <1>0, RanRecorded DEF VoiceInv, RanInv, Past, Never
<1>2. CASE Account
  <2>1. org'[o].inbox = org[o].inbox /\ tick' = tick + 1 /\ pc = "account"
    BY <1>0, <1>2, AccountOrg DEF Account
  <2>2. ASSUME NEW x \in org[o].inbox PROVE ranAwake[x] = tick
    <3>1. Lives(o)
      BY <1>0, <2>2 DEF OrganismInv, Sane, VoiceSane, Lives
    <3>2. QED
      BY <2>1, <2>2, <3>1 DEF VoiceInv, HearsTheSpeakers, Living, Delivered
  <2>3. QED
    BY <1>0, <1>1, <2>1, <2>2 DEF Fresh
<1>3. CASE Deliver
  <2>1. tick' = tick /\ pc' \in Delivered
    BY <1>3 DEF Deliver, clock, Goto, Delivered
  <2>2. CASE Lives(o)'
    BY <1>0, <2>1, <2>2 DEF HearsTheSpeakers, Living, Fresh
  <2>3. CASE ~Lives(o)'
    <3>1. org' = org \/ org'[o] = org[o]
      BY <1>0, <1>3, <2>3, DeliverOrg DEF Deliver, Lives, SameState
    <3>2. QED
      BY <1>0, <1>1, <2>1, <3>1 DEF Fresh, VoiceInv
  <2>4. QED
    BY <2>2, <2>3
<1>4. CASE ~Account /\ ~Deliver
  <2>1. tick' = tick
    BY <1>0, <1>4, TickFlow
  <2>2. org'[o].inbox = {} \/ org'[o].inbox = org[o].inbox
    <3>1. Evolves(o, org[o], org'[o])
      BY <1>0, <1>4, StepsEvolve DEF AllEvolve
    <3>2. QED
      BY <3>1, NewbornFields DEF Evolves, Survives, VoiceStep, Removed, Nobody, IsBorn
  <2>3. QED
    BY <1>0, <1>1, <2>1, <2>2 DEF Fresh, VoiceInv
<1>5. QED
  BY <1>2, <1>3, <1>4

LEMMA VoiceInit == InitH => VoiceInv
<1> SUFFICES ASSUME InitH PROVE VoiceInv
  OBVIOUS
<1>1. OrganismInv /\ Init /\ tick = 0 /\ pc = "idle"
  BY OrganismInit DEF InitH, Init
<1>2. \A x \in Ids : ranAwake[x] = Never /\ org[x].inbox = {} /\ org[x].birth = 0
                     /\ (Lives(x) => x <= 2)
  BY <1>1, SeedsFields DEF InitH, Lives
<1>3. RunInv /\ LoopVoices /\ SendersSpoke /\ HearsTheSpeakers
  BY <1>1 DEF RunInv, LoopVoices, SendersSpoke, HearsTheSpeakers, Delivered
<1>4. RanInv
  BY <1>1, <1>2 DEF RanInv, Past, Never
<1>5. NoneNew
  BY <1>2 DEF NoneNew, NewThisTick, Living, Ids
<1>6. \A o \in Ids : Fresh(o)
  BY <1>2 DEF Fresh
<1>7. QED
  BY <1>1, <1>3, <1>4, <1>5, <1>6 DEF VoiceInv

\* Only those speak who ran awake in the tick, and an awake organism that is
\* not a newborn of the tick hears all of them and nobody else.
THEOREM OnlyAwakeAreHeard == SpecH => []OnlyAwakeCommunicate
<1>1. VoiceInv /\ [NextH]_<<vars, history>> => VoiceInv'
  <2> SUFFICES ASSUME VoiceInv, [NextH]_<<vars, history>> PROVE VoiceInv'
    OBVIOUS
  <2>1. OrganismInv' /\ RunInv' /\ PopulationInv /\ PopulationInv' /\ OrganismInv /\ [Next]_vars
    BY HistoryWatches, OrganismStep, RunStep, PopulationStep DEF VoiceInv, OrganismInv
  <2>2. RanInv' /\ NoneNew' /\ LoopVoices' /\ SendersSpoke' /\ HearsTheSpeakers'
    BY <2>1, PastStep, NoneNewStep, LoopVoicesStep, SendersStep, HearsStep DEF VoiceInv
  <2>3. \A o \in Ids : Fresh(o)'
    BY <2>2, FreshStep
  <2>4. QED
    BY <2>1, <2>2, <2>3 DEF VoiceInv
<1>2. VoiceInv => OnlyAwakeCommunicate
  <2> SUFFICES ASSUME VoiceInv, NEW o \in Living, NEW x \in org[o].inbox
               PROVE  ranAwake[x] >= tick - 1 /\ x # o /\ org[o].state = "AWAKE"
    BY DEF VoiceInv, OnlyAwakeCommunicate, NoStaleMessage
  <2>1. o \in Ids /\ Sane(o, org[o])
    BY DEF VoiceInv, OrganismInv, Living
  <2>2. QED
    BY <2>1 DEF VoiceInv, Fresh, Sane, VoiceSane
<1>3. QED
  BY <1>1, <1>2, VoiceInit, PTL DEF SpecH

\* Only a birth adds to the array, and what removes takes one from it.
LEMMA SlotsFlow ==
    TypeOK /\ [Next]_vars => slots' = slots \/ Removes \/ CourtshipEnds
BY PassesLeavesWorld, ScansKeepOrRemove, ExecutesKeepOrRemove, RestKeepsOrRemoves, HostKeeps
   DEF Keeps, Next, Step, Passes, Executes, StartTick, Terminated, vars, world

LEMMA RemovesOne == TypeOK /\ Removes => Len(slots') = Len(slots) - 1
BY SwapDeleteType DEF TypeOK, Removes, RemoveAt

LEMMA CapacityStep == PopulationInv /\ CapacityHolds /\ [Next]_vars => CapacityHolds'
<1> SUFFICES ASSUME PopulationInv, CapacityHolds, [Next]_vars PROVE CapacityHolds'
  OBVIOUS
<1>1. TypeOK /\ Cap \in Nat /\ Len(slots) \in Nat /\ Len(slots') \in Nat
  BY PopulationStep, ConfigAssumption DEF PopulationInv, TypeOK
<1>2. CASE slots' = slots
  <2>1. pc = "birthEvict" /\ pc' # "birthEvict" => BirthFits
    BY PhaseOrder
  <2>2. QED
    BY <1>1, <1>2, <2>1 DEF CapacityHolds, BirthFits
<1>3. CASE Removes
  BY <1>1, <1>3, RemovesOne DEF CapacityHolds
<1>4. CASE CourtshipEnds
  <2>1. PICK born \in BOOLEAN :
            /\ slots' = IF born THEN Append(slots, nextId) ELSE slots
            /\ pc' = IF born THEN "birthEvict" ELSE pc
            /\ pc = "courtship"
    BY <1>4 DEF CourtshipEnds, Met
  <2>2. Len(Append(slots, nextId)) = Len(slots) + 1
    BY <1>1 DEF TypeOK
  <2>3. QED
    BY <1>1, <2>1, <2>2 DEF CapacityHolds
<1>5. QED
  BY <1>1, <1>2, <1>3, <1>4, SlotsFlow

LEMMA CapacityInit == Init => CapacityHolds
<1>1. Len(<<1, 2>>) = 2
  OBVIOUS
<1>2. QED
  BY <1>1, ConfigAssumption DEF Init, CapacityHolds

\* The array outgrows its capacity by the newborn only, and only until the
\* displacement that the birth itself calls for.
THEOREM CapacityIsKept == Spec => []CapacityHolds
<1> DEFINE Inv == PopulationInv /\ CapacityHolds
<1>1. Init => Inv
  BY PopulationInit, CapacityInit
<1>2. Inv /\ [Next]_vars => Inv'
  BY PopulationStep, CapacityStep
<1>3. Inv => CapacityHolds
  OBVIOUS
<1> HIDE DEF Inv
<1>4. QED
  BY <1>1, <1>2, <1>3, PTL DEF Spec

(***************************************************************************)
(* The courtship loop                                                      *)
(***************************************************************************)
LEMMA CourtshipPhase ==
    pc = "courtship" /\ [Next]_vars => Courts \/ CourtshipsDone \/ UNCHANGED vars
BY DEF Next, Step, Host, HostCall, HostTransition, HostTryBirth, HostSpoils, Terminated, Over,
       StartTick, CalendarEnds, RunEnds, ReturnFromOff, TimersDone, FoolAwake, FoolAsleep,
       FoolsDayDone, DormancyTimeout, DormancyDone, InvalidDies, ExecuteOff, StayAwake,
       FallAsleep, Doze, SwitchOff, WakeUp, AtWork, ExecutionDone, Deliver, Courts,
       EvictOldest, BirthFits, PopulationFits, Pair, PairingDone, Account, Periodic

LEMMA BirthPhase ==
    pc = "birthEvict" /\ [Next]_vars => EvictOldest \/ BirthFits \/ UNCHANGED vars
BY DEF Next, Step, Host, HostCall, HostTransition, HostTryBirth, HostSpoils, Terminated, Over,
       StartTick, CalendarEnds, RunEnds, ReturnFromOff, TimersDone, FoolAwake, FoolAsleep,
       FoolsDayDone, DormancyTimeout, DormancyDone, InvalidDies, ExecuteOff, StayAwake,
       FallAsleep, Doze, SwitchOff, WakeUp, AtWork, ExecutionDone, Deliver, CourtshipFails,
       CourtshipGoesOn, CourtshipEnds, Met, CourtshipsDone, PopulationFits, Pair,
       PairingDone, Account, Periodic

\* While courtships are processed and births make room, nobody gets a partner.
LEMMA CancelPartners ==
    ASSUME NEW f \in Orgs, NEW o, NEW x \in Ids
    PROVE  CancelIn(f, o)[x].partner \in {0, f[x].partner}
BY SingleFields DEF CancelIn, Orgs

LEMMA NobodyPairs ==
    ASSUME TypeOK, Courts \/ EvictOldest, NEW x \in Ids
    PROVE  org'[x].partner \in {0, org[x].partner}
<1>1. org \in Orgs /\ org[x] \in OrgType /\ Nobody.partner = 0 /\ slots \in Seq(Ids)
  BY DEF TypeOK, Orgs, Nobody
<1>2. CASE CourtshipFails
  BY <1>1, <1>2, CancelPartners DEF CourtshipFails
<1>3. CASE CourtshipGoesOn
  <2>1. PICK o \in Living : org' = Progressed(o)
    BY <1>3 DEF CourtshipGoesOn
  <2> DEFINE n == org[o].progress + 1
             r == [org[x] EXCEPT !.hears = TRUE, !.progress = n]
  <2>2. org'[x] = r \/ org'[x] = org[x]
    BY <2>1 DEF Progressed
  <2> HIDE DEF n
  <2>3. r.partner = org[x].partner
    BY <1>1, Zenon DEF OrgType
  <2>4. QED
    BY <2>2, <2>3
<1>4. CASE CourtshipEnds
  <2>1. PICK o \in Living, born \in BOOLEAN, m \in Mutations : org' = Completed(o, born, m)
    BY <1>4 DEF CourtshipEnds
  <2> DEFINE n == Single(org[x]).wins + (IF born THEN 1 ELSE 0)
             r == [Single(org[x]) EXCEPT !.wins = n]
  <2>2. org'[x] = r \/ (\E u : org'[x] = Newborn(tick, u)) \/ org'[x] = org[x]
    BY <2>1 DEF Completed
  <2> HIDE DEF n
  <2>3. Single(org[x]) \in OrgType /\ Single(org[x]).partner = 0
    BY <1>1, SingleType, SingleFields
  <2>4. r.partner = 0
    BY <2>3, Zenon DEF OrgType
  <2> HIDE DEF r
  <2>5. \A u : Newborn(tick, u).partner = 0
    BY NewbornFields
  <2>6. QED
    BY <2>2, <2>4, <2>5
<1>5. CASE EvictOldest
  <2>1. PICK j \in DOMAIN slots : org' = [CancelIn(org, slots[j]) EXCEPT ![slots[j]] = Nobody]
    BY <1>5 DEF EvictOldest, RemoveAt
  <2> DEFINE o == slots[j]
             g == CancelIn(org, o)
  <2>2. o \in Ids /\ g \in Orgs /\ org' = [g EXCEPT ![o] = Nobody]
    BY <1>1, <2>1, CancelInType
  <2> HIDE DEF o, g
  <2>3. org'[x] = Nobody \/ org'[x] = g[x]
    BY <2>2 DEF Orgs
  <2>4. g[x].partner \in {0, org[x].partner}
    BY <1>1, CancelPartners DEF g
  <2>5. QED
    BY <1>1, <2>3, <2>4
<1>6. QED
  BY <1>2, <1>3, <1>4, <1>5 DEF Courts

\* The last slot is the newborn's while the array is over its capacity, so
\* what moves into a hole in front of the loop leads no couple.
CoupleInv ==
    /\ NoCoupleSkipped
    /\ pc = "birthEvict" /\ Len(slots) > Cap => org[slots[Len(slots)]].partner = 0

LoopInv == PopulationInv /\ CapacityHolds /\ LinksIn(org) /\ CoupleInv

LEMMA StillLeads ==
    ASSUME TypeOK, Courts \/ EvictOldest, NEW x \in Ids, Leads(x)'
    PROVE  Leads(x)
BY NobodyPairs DEF Leads

LEMMA CourtsCouples == LoopInv /\ Courts /\ [Next]_vars => CoupleInv'
<1> SUFFICES ASSUME LoopInv, Courts, [Next]_vars PROVE CoupleInv'
  OBVIOUS
<1>1. /\ TypeOK /\ slots \in Seq(Ids) /\ idx \in Nat \ {0} /\ pc = "courtship"
      /\ DOMAIN slots = 1..Len(slots) /\ Len(slots) \in Nat
      /\ \A j, l \in DOMAIN slots : slots[j] = slots[l] => j = l
      /\ nextId \in 3..(MaxId + 1) /\ (nextId \in Ids => ~Lives(nextId))
  <2>1. pc = "courtship"
    BY DEF Courts, CourtshipFails, CourtshipGoesOn, CourtshipEnds, Met
  <2>2. nextId \in Ids => ~Lives(nextId)
    BY MaxIdType DEF LoopInv, PopulationInv, PopulationBalances, Ids
  <2>3. QED
    BY <2>1, <2>2 DEF LoopInv, PopulationInv, TypeOK, ArrayHoldsTheLiving
<1>2. PICK k \in Leaders :
        /\ NextHit(k, Leaders) /\ idx' = k + 1 /\ seen' = seen \cup {slots[k]}
        /\ \/ slots' = slots /\ pc' = pc
           \/ slots' = Append(slots, nextId) /\ nextId <= MaxId
  BY DEF Courts, CourtshipFails, CourtshipGoesOn, CourtshipEnds, Met
<1>3. k \in DOMAIN slots /\ k \in Nat /\ idx <= k
  BY <1>1 DEF Leaders, Here
<1>4. nextId <= MaxId => nextId \in Ids /\ org'[nextId].partner = 0
  <2>1. nextId <= MaxId => nextId \in Ids
    BY <1>1, MaxIdType DEF TypeOK, Ids
  <2>2. nextId \in Ids => org[nextId].partner = 0
    BY <1>1 DEF LoopInv, LinksIn, LinkIn, Lives
  <2>3. QED
    BY <1>1, <2>1, <2>2, NobodyPairs
<1>5. ASSUME NEW j \in DOMAIN slots, NEW x \in Ids, x = slots[j], Leads(x)'
      PROVE  x \in seen' <=> j < idx'
  <2>1. Leads(slots[j]) /\ slots[j] \in Ids /\ j \in Nat
    BY <1>1, <1>5, StillLeads
  <2>2. slots[j] \in seen <=> j < idx
    BY <1>1, <2>1 DEF LoopInv, CoupleInv, NoCoupleSkipped
  <2>3. ~(j < idx) => j \in Leaders /\ k <= j
    BY <1>1, <1>2, <2>1 DEF Leaders, Here, NextHit
  <2>4. slots[j] = slots[k] <=> j = k
    BY <1>1, <1>3
  <2>5. QED
    BY <1>1, <1>2, <1>3, <1>5, <2>1, <2>2, <2>3, <2>4
<1>6. CASE slots' = slots /\ pc' = pc
  <2>1. ASSUME NEW j \in DOMAIN slots', Leads(slots[j])'
        PROVE  slots'[j] \in seen' <=> j < idx'
    <3> DEFINE x == slots'[j]
    <3>1. x \in Ids /\ x = slots[j] /\ j \in DOMAIN slots
      BY <1>1, <1>6
    <3>2. x # 0 /\ org'[x].partner # 0 /\ x <= org'[x].partner
      BY <1>1, <2>1, <3>1 DEF Leads, Ids
    <3>3. QED
      BY <1>5, <3>1, <3>2 DEF Leads
  <2>2. QED
    BY <1>1, <1>6, <2>1 DEF CoupleInv, NoCoupleSkipped
<1>7. CASE slots' = Append(slots, nextId) /\ nextId <= MaxId
  <2>1. /\ Len(slots') = Len(slots) + 1 /\ DOMAIN slots' = 1..(Len(slots) + 1)
        /\ \A j \in DOMAIN slots : slots'[j] = slots[j]
        /\ slots'[Len(slots) + 1] = nextId
    BY <1>1, <1>7
  <2>2. ASSUME NEW j \in DOMAIN slots', Leads(slots[j])'
        PROVE  slots'[j] \in seen' <=> j < idx'
    <3> DEFINE x == slots'[j]
    <3>1. x # nextId
      BY <1>4, <1>7, <2>2 DEF Leads
    <3>2. j \in DOMAIN slots /\ x = slots[j] /\ x \in Ids
      BY <1>1, <2>1, <3>1
    <3>3. org'[x].partner # 0 /\ x <= org'[x].partner
      BY <2>2 DEF Leads
    <3>4. QED
      BY <1>5, <3>2, <3>3 DEF Leads
  <2>3. org'[slots'[Len(slots')]].partner = 0
    BY <1>4, <1>7, <2>1
  <2>4. QED
    <3>1. NoCoupleSkipped'
      BY <2>2 DEF NoCoupleSkipped
    <3>2. QED
      BY <2>3, <3>1 DEF CoupleInv
<1>8. QED
  BY <1>2, <1>6, <1>7

LEMMA BirthCouples == LoopInv /\ pc = "birthEvict" /\ EvictOldest /\ [Next]_vars => CoupleInv'
<1> SUFFICES ASSUME LoopInv, pc = "birthEvict", EvictOldest, [Next]_vars PROVE CoupleInv'
  OBVIOUS
<1>1. /\ TypeOK /\ slots \in Seq(Ids) /\ idx \in Nat \ {0}
      /\ DOMAIN slots = 1..Len(slots) /\ Len(slots) \in Nat /\ Cap \in Nat
      /\ Len(slots) > Cap /\ Len(slots) <= Cap + 1
      /\ org[slots[Len(slots)]].partner = 0
  BY ConfigAssumption
     DEF LoopInv, PopulationInv, TypeOK, EvictOldest, CapacityHolds, CoupleInv
<1>2. PICK k \in DOMAIN slots : slots' = SwapDelete(slots, k)
  BY DEF EvictOldest, RemoveAt
<1>3. UNCHANGED <<pc, idx, seen>>
  BY DEF EvictOldest, control
<1>4. /\ Len(slots') = Len(slots) - 1 /\ DOMAIN slots' = 1..(Len(slots) - 1)
      /\ \A j \in DOMAIN slots' : slots'[j] = IF j = k THEN slots[Len(slots)] ELSE slots[j]
  BY <1>1, <1>2 DEF SwapDelete
<1>5. ASSUME NEW j \in DOMAIN slots', Leads(slots[j])'
      PROVE  slots'[j] \in seen' <=> j < idx'
  <2> DEFINE x == slots'[j]
  <2>1. j \in DOMAIN slots /\ Len(slots) \in DOMAIN slots
    BY <1>1, <1>4
  <2>2. slots[j] \in Ids /\ slots[Len(slots)] \in Ids /\ slots'[j] \in Ids
    BY <1>1, <1>4, <2>1
  <2>3. Leads(slots'[j])
    <3>1. x \in Ids /\ org'[x].partner # 0 /\ x <= org'[x].partner
      BY <1>5, <2>2 DEF Leads
    <3>2. QED
      BY <1>1, <3>1, StillLeads DEF Leads
  <2>4. slots'[j] = slots[j]
    BY <1>1, <1>4, <2>3 DEF Leads
  <2>5. QED
    BY <1>3, <2>1, <2>3, <2>4 DEF LoopInv, CoupleInv, NoCoupleSkipped
<1>6. ~(Len(slots') > Cap)
  BY <1>1, <1>4
<1>7. NoCoupleSkipped'
  BY <1>5 DEF NoCoupleSkipped
<1>8. QED
  BY <1>6, <1>7 DEF CoupleInv

LEMMA LoopStep == LoopInv /\ [Next]_vars => LoopInv'
<1> SUFFICES ASSUME LoopInv, [Next]_vars PROVE LoopInv'
  OBVIOUS
<1>1. PopulationInv' /\ CapacityHolds' /\ LinksIn(org)'
  <2>1. LinksIn(org)' = LinksIn(org')
    BY DEF LinksIn, LinkIn
  <2>2. QED
    BY <2>1, PopulationStep, CapacityStep, LinksStep DEF LoopInv
<1>2. CASE pc' \notin {"courtship", "birthEvict"}
  BY <1>1, <1>2 DEF LoopInv, CoupleInv, NoCoupleSkipped
<1>3. CASE Deliver
  <2>1. pc' = "courtship" /\ idx' = 1 /\ seen' = {} /\ slots' \in Seq(Ids)
    BY <1>1, <1>3 DEF Deliver, Goto, PopulationInv, TypeOK
  <2>2. QED
    BY <1>1, <2>1 DEF LoopInv, CoupleInv, NoCoupleSkipped
<1>4. CASE Courts
  BY <1>1, <1>4, CourtsCouples DEF LoopInv
<1>5. CASE pc = "birthEvict" /\ EvictOldest
  BY <1>1, <1>5, BirthCouples DEF LoopInv
<1>6. CASE BirthFits
  BY <1>1, <1>6 DEF BirthFits, world, LoopInv, CoupleInv, NoCoupleSkipped, Leads
<1>7. CASE UNCHANGED vars
  BY <1>1, <1>7 DEF vars, world, control, LoopInv, CoupleInv, NoCoupleSkipped, Leads
<1>8. CASE pc' \in {"courtship", "birthEvict"}
  <2>1. pc \in {"courtship", "birthEvict"} \/ Deliver
    BY <1>8, PhaseOrder
  <2>2. ~CourtshipsDone
    BY <1>8 DEF CourtshipsDone, Goto
  <2>3. QED
    BY <1>3, <1>4, <1>5, <1>6, <1>7, <2>1, <2>2, CourtshipPhase, BirthPhase
<1>9. QED
  BY <1>2, <1>8

\* Births and evictions in the middle of the courtship loop neither hide a
\* couple from it nor show it one twice.
THEOREM EachCoupleIsMet == Spec => []NoCoupleSkipped
<1>1. Init => LoopInv
  <2>1. Init => CoupleInv
    BY DEF Init, CoupleInv, NoCoupleSkipped
  <2>2. QED
    BY <2>1, PopulationInit, CapacityInit, LinksInit DEF LoopInv
<1>2. LoopInv => NoCoupleSkipped
  BY DEF LoopInv, CoupleInv
<1>3. QED
  BY <1>1, <1>2, LoopStep, PTL DEF Spec

(***************************************************************************)
(* The refinements                                                         *)
(***************************************************************************)
LEMMA SameCalendar ==
    W!NextDate(date) = NextDate(date) /\ W!IsLastDate(date) = IsLastDate(date)
BY DEF W!NextDate, W!IsLastDate, W!Date, W!DaysInMonth, W!Leap, W!MonthDays, W!LastYear,
       NextDate, IsLastDate, Date, DaysInMonth, Leap, MonthDays, LastYear

LEMMA TimeInit == Init => W!ClockInit
BY DEF Init, W!ClockInit, TickPhases, Over

LEMMA TimeStep == TypeOK /\ [Next]_vars => [W!ClockNext]_(W!clockVars)
<1> SUFFICES ASSUME TypeOK, [Next]_vars
             PROVE  W!ClockNext \/ UNCHANGED W!clockVars
  OBVIOUS
<1> DEFINE ticking == pc \in TickPhases
           halted == IF Over THEN pc ELSE "no"
<1>1. CASE StartTick
  <2>1. /\ pc = "idle" /\ pc' = "timers" /\ tick < TickCount /\ tick' = tick
        /\ DayTurns => ~IsLastDate(date)
        /\ date' = IF DayTurns THEN NextDate(date) ELSE date
    BY <1>1 DEF StartTick, Goto
  <2>2. ~ticking /\ ticking' = TRUE /\ halted = "no" /\ halted' = "no"
    BY <2>1 DEF TickPhases, Over
  <2>3. W!BeginTick
    <3>1. W!DayTurns <=> DayTurns
      BY DEF W!DayTurns, DayTurns
    <3>2. QED
      BY <2>1, <2>2, <3>1, SameCalendar DEF W!BeginTick
  <2>4. QED
    BY <2>3 DEF W!ClockNext
<1>2. CASE Account
  <2>1. pc = "account" /\ pc' = "periodic" /\ tick' = tick + 1 /\ date' = date
    BY <1>2 DEF Account, Goto
  <2>2. ticking /\ ticking' = FALSE /\ halted = "no" /\ halted' = "no"
    BY <2>1 DEF TickPhases, Over
  <2>3. W!EndTick
    BY <2>1, <2>2 DEF W!EndTick
  <2>4. QED
    BY <2>3 DEF W!ClockNext
<1>3. CASE UNCHANGED clock /\ ~StartTick /\ ~Account
  <2>1. tick' = tick /\ date' = date
    BY <1>3 DEF clock
  <2>2. CASE CalendarEnds \/ RunEnds
    <3>1. /\ pc = "idle"
          /\ pc' = "failed" \/ (pc' = "done" /\ tick >= TickCount)
      BY <2>2 DEF CalendarEnds, RunEnds, Goto
    <3>2. ~ticking /\ ticking' = FALSE /\ halted = "no" /\ halted' = pc'
      BY <3>1 DEF TickPhases, Over
    <3>3. W!Halt
      BY <2>1, <3>1, <3>2 DEF W!Halt
    <3>4. QED
      BY <3>3 DEF W!ClockNext
  <2>3. CASE Periodic /\ pc' = "failed"
    <3>1. pc = "periodic" /\ ~ticking /\ ticking' = FALSE /\ halted = "no" /\ halted' = "failed"
      BY <2>3 DEF Periodic, TickPhases, Over
    <3>2. W!Halt
      BY <2>1, <3>1 DEF W!Halt
    <3>3. QED
      BY <3>2 DEF W!ClockNext
  <2>4. CASE ~(CalendarEnds \/ RunEnds) /\ ~(Periodic /\ pc' = "failed")
    <3>1. \/ pc' = pc \/ (pc \in TickPhases /\ pc' \in TickPhases)
          \/ (pc = "periodic" /\ pc' = "idle")
      BY <1>3, <2>4, PhaseOrder DEF TickPhases
    <3>2. ticking' = ticking /\ halted' = halted
      BY <3>1 DEF TickPhases, Over
    <3>3. QED
      BY <2>1, <3>2 DEF W!clockVars
  <2>5. QED
    BY <2>2, <2>3, <2>4
<1>4. QED
  BY <1>1, <1>2, <1>3, ClockFlow

\* Time passes as the world clock says: a tick is begun, which may turn the
\* date, and later counted, and the run halts when its ticks are done or a
\* step has failed.
THEOREM TimeIsKept == Spec => KeepsTime
BY TypeInit, TypeStep, TimeInit, TimeStep, PTL DEF Spec, KeepsTime, W!ClockSpec

\* The lifecycle state and the timer of an organism.
SameLife(r, s) == s.state = r.state /\ s.backOn = r.backOn

\* Of organisms f: none but o has moved in the lifecycle.
Moved(f, o) == \A x \in Ids : x # o => SameLife(org[x], f[x])

\* Of organisms f and counters c: no couple has begun, none has ended, ...
SamePairs(f) == \A x \in Ids : f[x].partner = org[x].partner

SameBonds(c) ==
    /\ c.active = tally.active /\ c.started = tally.started /\ c.failed = tally.failed
    /\ c.completed = tally.completed /\ c.offspring = tally.offspring

\* ... or o has lost its partner, which was counted as a failure.
Parted(f, o) ==
    /\ org[o].partner # 0
    /\ \A x \in Ids :
        f[x].partner = IF x \in {o, org[o].partner} THEN 0 ELSE org[x].partner

LostBond(c) ==
    /\ c.active = IF tally.active > 0 THEN tally.active - 1 ELSE 0
    /\ c.failed = tally.failed + 1 /\ c.started = tally.started
    /\ c.completed = tally.completed /\ c.offspring = tally.offspring

\* What a step does that concerns the one organism o.
Touches(f, c, o) ==
    /\ Moved(f, o)
    /\ (SamePairs(f) /\ SameBonds(c)) \/ (Parted(f, o) /\ LostBond(c))

OneTouched == \E o \in Ids : Touches(org', tally', o)

LEMMA SingleLife == ASSUME NEW r \in OrgType PROVE SameLife(r, Single(r))
BY SingleFields DEF SameState, SameLife

LEMMA CancelBonds ==
    ASSUME NEW f, NEW c \in TallyType, NEW o, f[o].partner # 0
    PROVE  LET d == CancelTally(f, c, o) IN
           /\ d.active = IF c.active > 0 THEN c.active - 1 ELSE 0
           /\ d.failed = c.failed + 1 /\ d.started = c.started
           /\ d.completed = c.completed /\ d.offspring = c.offspring
<1> DEFINE active == IF c.active > 0 THEN c.active - 1 ELSE 0
           failed == c.failed + 1
           d == [c EXCEPT !.active = active, !.failed = failed]
<1>1. CancelTally(f, c, o) = d
  BY DEF CancelTally
<1>2. /\ d.active = active /\ d.failed = failed /\ d.started = c.started
      /\ d.completed = c.completed /\ d.offspring = c.offspring
  <2> HIDE DEF active, failed
  <2>1. QED
    BY Zenon DEF TallyType
<1>3. QED
  BY <1>1, <1>2

\* Cancelling the courtship of an organism touches no other one.
LEMMA CancelTouches ==
    ASSUME org \in Orgs, LinksIn(org), NEW f \in Orgs, NEW c \in TallyType, NEW o \in Ids,
           Touches(f, c, o)
    PROVE  Touches(CancelIn(f, o), CancelTally(f, c, o), o) /\ CancelIn(f, o)[o].partner = 0
<1> DEFINE g == CancelIn(f, o)
           d == CancelTally(f, c, o)
<1>1. CASE f[o].partner = 0
  BY <1>1 DEF CancelIn, CancelTally
<1>2. CASE f[o].partner # 0
  <2> DEFINE p == org[o].partner
  <2>1. SamePairs(f) /\ SameBonds(c)
    BY <1>2 DEF Touches, Parted
  <2>2. f[o].partner = p /\ p \in Ids /\ f[p].partner = o
    BY <1>2, <2>1 DEF SamePairs, LinksIn, LinkIn
  <2>3. \A x \in Ids : g[x] = IF x \in {o, p} THEN Single(f[x]) ELSE f[x]
    BY <1>2, <2>2 DEF CancelIn
  <2>4. \A x \in Ids : f[x] \in OrgType
    BY DEF Orgs
  <2>5. LostBond(d)
    BY <1>2, <2>1, CancelBonds DEF LostBond, SameBonds
  <2> HIDE DEF g, d
  <2>6. \A x \in Ids : SameLife(f[x], g[x])
    BY <2>3, <2>4, SingleLife DEF SameLife
  <2>7. Moved(g, o)
    BY <2>6 DEF Touches, Moved, SameLife
  <2>8. Parted(g, o)
    BY <1>2, <2>1, <2>2, <2>3, <2>4, SingleLink DEF Parted, SamePairs
  <2>9. g[o].partner = 0
    BY <2>8 DEF Parted
  <2>10. QED
    BY <2>5, <2>7, <2>8, <2>9 DEF Touches, g, d
<1>3. QED
  BY <1>1, <1>2

\* Putting another record without a partner in the place of o touches o only.
LEMMA ReplaceTouches ==
    ASSUME NEW f \in Orgs, NEW c, NEW o \in Ids, Touches(f, c, o), NEW r, r.partner = f[o].partner
    PROVE  Touches([f EXCEPT ![o] = r], c, o)
<1> DEFINE g == [f EXCEPT ![o] = r]
<1>1. \A x \in Ids : g[x] = IF x = o THEN r ELSE f[x]
  BY DEF Orgs
<1> HIDE DEF g
<1>2. Moved(g, o)
  BY <1>1 DEF Touches, Moved
<1>3. \A x \in Ids : g[x].partner = f[x].partner
  BY <1>1
<1>4. (SamePairs(f) => SamePairs(g)) /\ (Parted(f, o) => Parted(g, o))
  BY <1>3 DEF SamePairs, Parted
<1>5. QED
  BY <1>2, <1>4 DEF Touches, g

LEMMA RemoveAtTouches ==
    ASSUME org \in Orgs, LinksIn(org), slots \in Seq(Ids), NEW f \in Orgs, NEW c \in TallyType,
           NEW k \in DOMAIN slots, Touches(f, c, slots[k]), RemoveAt(f, c, k)
    PROVE  Touches(org', tally', slots[k])
<1> DEFINE o == slots[k]
           g == CancelIn(f, o)
           d == CancelTally(f, c, o)
           n == d.deaths + 1
<1>1. o \in Ids /\ g \in Orgs /\ d \in TallyType
  BY CancelInType, CancelTallyType
<1>2. org' = [g EXCEPT ![o] = Nobody] /\ tally' = [d EXCEPT !.deaths = n]
  BY DEF RemoveAt
<1>3. Touches(g, d, o) /\ g[o].partner = 0
  BY <1>1, CancelTouches
<1>4. /\ tally'.active = d.active /\ tally'.started = d.started /\ tally'.failed = d.failed
      /\ tally'.completed = d.completed /\ tally'.offspring = d.offspring
  <2> HIDE DEF d, n
  <2>1. QED
    BY <1>1, <1>2, Zenon DEF TallyType
<1> HIDE DEF o, g, d, n
<1>5. Nobody.partner = g[o].partner
  BY <1>3 DEF Nobody
<1>6. Touches(org', d, o)
  BY <1>1, <1>2, <1>3, <1>5, ReplaceTouches
<1>7. (SameBonds(d) => SameBonds(tally')) /\ (LostBond(d) => LostBond(tally'))
  BY <1>4 DEF SameBonds, LostBond
<1>8. QED
  BY <1>6, <1>7 DEF Touches, o

LEMMA SettleTouches ==
    ASSUME TypeOK, LinksIn(org), NEW o, o = slots[idx], idx \in DOMAIN slots, NEW f \in Orgs,
           NEW c \in TallyType, Touches(f, c, o), Settle(o, f, c)
    PROVE  Touches(org', tally', o)
<1>1. CASE LoopValid(f[o])
  BY <1>1 DEF Settle
<1>2. CASE ~LoopValid(f[o])
  BY <1>2, RemoveAtTouches DEF Settle, TypeOK
<1>3. QED
  BY <1>1, <1>2

LEMMA TransitionTouches ==
    ASSUME org \in Orgs, LinksIn(org), tick \in Nat, NEW f \in Orgs, NEW c \in TallyType,
           NEW o \in Ids, NEW to \in LifeStates, NEW d \in Nat, Touches(f, c, o)
    PROVE  Touches(TransitionIn(f, o, to, d), TransitionTally(f, c, o, to), o)
<1>1. CASE to = "AWAKE"
  <2> DEFINE r == [f[o] EXCEPT !.state = to, !.backOn = 0, !.lastAwake = tick]
  <2>1. r.partner = f[o].partner
    <3>1. f[o] \in OrgType
      BY DEF Orgs
    <3>2. QED
      BY <3>1, Zenon DEF OrgType
  <2>2. TransitionIn(f, o, to, d) = [f EXCEPT ![o] = r] /\ TransitionTally(f, c, o, to) = c
    BY <1>1 DEF TransitionIn, TransitionTally, Orgs
  <2> HIDE DEF r
  <2>3. Touches([f EXCEPT ![o] = r], c, o)
    BY <2>1, ReplaceTouches, Zenon
  <2>4. QED
    BY <2>2, <2>3
<1>2. CASE to # "AWAKE"
  <2> DEFINE g == CancelIn(f, o)
             e == CancelTally(f, c, o)
             t == IF to = "OFF" THEN tick + ClampOff(d) ELSE 0
             r == [g[o] EXCEPT !.state = to, !.backOn = t]
  <2>1. g \in Orgs /\ Touches(g, e, o)
    BY CancelInType, CancelTouches
  <2>2. /\ TransitionIn(f, o, to, d) = [g EXCEPT ![o] = Quiet(r)]
        /\ TransitionTally(f, c, o, to) = e
    BY <1>2, <2>1 DEF TransitionIn, TransitionTally, Orgs
  <2>3. t \in Nat /\ g[o] \in OrgType
    BY <2>1, ClampOffType DEF Orgs
  <2> HIDE DEF g, e, t
  <2>4. r \in OrgType /\ r.partner = g[o].partner
    BY <2>3 DEF OrgType, LifeStates
  <2> HIDE DEF r
  <2>5. Quiet(r).partner = g[o].partner
    BY <2>4, Zenon DEF Quiet, OrgType
  <2>6. Touches([g EXCEPT ![o] = Quiet(r)], e, o)
    BY <2>1, <2>5, ReplaceTouches, Zenon
  <2>7. QED
    BY <2>2, <2>6
<1>3. QED
  BY <1>1, <1>2

LEMMA SelfTouches == \A o \in Ids : Touches(org, tally, o)
BY DEF Touches, Moved, SameLife, SamePairs, SameBonds

LEMMA RunTouches ==
    ASSUME org \in Orgs, NEW o \in Ids, NEW consents \in BOOLEAN, NEW v \in Outcomes
    PROVE  Touches(AwakeRun(o, consents, v), tally, o) /\ Touches(AsleepRun(o, v), tally, o)
<1> DEFINE u == Updated(org[o], v)
           r == [u EXCEPT !.consent = consents, !.sent = TRUE]
           q == Quiet(org[o])
           s == Updated(q, v)
<1>1. r.partner = org[o].partner /\ s.partner = org[o].partner
  <2>1. org[o] \in OrgType /\ q \in OrgType /\ u \in OrgType
    BY QuietType, UpdatedType DEF Orgs
  <2>2. q.partner = org[o].partner
    BY <2>1, Zenon DEF OrgType, Quiet
  <2> HIDE DEF q
  <2>3. u.partner = org[o].partner /\ s.partner = q.partner
    BY <2>1, UpdatedKeeps
  <2> HIDE DEF u, s
  <2>4. r.partner = u.partner
    BY <2>1, Zenon DEF OrgType
  <2>5. QED
    BY <2>2, <2>3, <2>4
<1>2. AwakeRun(o, consents, v) = [org EXCEPT ![o] = r] /\ AsleepRun(o, v) = [org EXCEPT ![o] = s]
  BY DEF AwakeRun, AsleepRun, Orgs
<1> HIDE DEF r, s
<1>3. Touches([org EXCEPT ![o] = r], tally, o) /\ Touches([org EXCEPT ![o] = s], tally, o)
  BY <1>1, SelfTouches, ReplaceTouches, Zenon
<1>4. QED
  BY <1>2, <1>3

LEMMA ExecutesTouch ==
    PopulationInv /\ LinksIn(org) /\ (Executes \/ InvalidDies) => OneTouched
<1> SUFFICES ASSUME PopulationInv, LinksIn(org), Executes \/ InvalidDies
             PROVE  OneTouched
  OBVIOUS
<1>0. /\ TypeOK /\ org \in Orgs /\ tally \in TallyType /\ slots \in Seq(Ids) /\ tick \in Nat
      /\ Living \subseteq Ids
      /\ {"AWAKE", "ASLEEP", "OFF"} = LifeStates
  BY DEF PopulationInv, TypeOK, Living, LifeStates, Orgs
<1>1. ASSUME NEW o \in Living, NEW state, AtWork(o, state), NEW f \in Orgs, NEW c \in TallyType,
             Touches(f, c, o), Settle(o, f, c)
      PROVE  OneTouched
  <2>1. idx \in DOMAIN slots /\ o = slots[idx]
    BY <1>0, <1>1 DEF TypeOK, AtWork
  <2>2. QED
    BY <1>0, <1>1, <2>1, SettleTouches DEF OneTouched
<1>2. CASE InvalidDies
  <2>1. idx \in DOMAIN slots /\ RemoveAt(org, tally, idx)
    BY <1>0, <1>2 DEF TypeOK, InvalidDies
  <2>2. slots[idx] \in Ids
    BY <1>0, <2>1
  <2>3. QED
    BY <1>0, <2>1, <2>2, RemoveAtTouches, SelfTouches DEF OneTouched
<1>3. CASE ExecuteOff
  <2>1. PICK o \in Living : AtWork(o, "OFF") /\ Settle(o, [org EXCEPT ![o].sent = FALSE], tally)
    BY <1>3 DEF ExecuteOff
  <2> DEFINE r == [org[o] EXCEPT !.sent = FALSE]
             f == [org EXCEPT ![o].sent = FALSE]
  <2>2. r \in OrgType /\ r.partner = org[o].partner
    <3>1. org[o] \in OrgType
      BY <1>0 DEF Orgs
    <3>2. QED
      BY <3>1, Zenon DEF OrgType
  <2>3. f \in Orgs /\ f = [org EXCEPT ![o] = r]
    BY <1>0, <2>2 DEF Orgs
  <2> HIDE DEF f, r
  <2>4. Touches([org EXCEPT ![o] = r], tally, o)
    BY <1>0, <2>2, SelfTouches, ReplaceTouches, Zenon
  <2>5. Settle(o, f, tally)
    BY <2>1 DEF f
  <2>6. QED
    BY <1>0, <1>1, <2>1, <2>3, <2>4, <2>5
<1>4. CASE StayAwake
  <2>1. PICK o \in Living, consents \in BOOLEAN, v \in Outcomes :
            AtWork(o, "AWAKE") /\ Settle(o, AwakeRun(o, consents, v), tally)
    BY <1>4 DEF StayAwake
  <2>2. QED
    BY <1>0, <1>1, <2>1, AwakeRunType, RunTouches
<1>5. ASSUME NEW o \in Living, NEW f \in Orgs, Touches(f, tally, o), NEW to \in LifeStates,
             NEW d \in Nat
      PROVE  /\ TransitionIn(f, o, to, d) \in Orgs
             /\ TransitionTally(f, tally, o, to) \in TallyType
             /\ Touches(TransitionIn(f, o, to, d), TransitionTally(f, tally, o, to), o)
  BY <1>0, <1>5, TransitionInType, TransitionTallyType, TransitionTouches
<1>6. CASE FallAsleep
  <2>1. PICK o \in Living, v \in Outcomes :
            /\ AtWork(o, "AWAKE")
            /\ Settle(o, TransitionIn(AwakeRun(o, FALSE, v), o, "ASLEEP", 0),
                         TransitionTally(AwakeRun(o, FALSE, v), tally, o, "ASLEEP"))
    BY <1>6 DEF FallAsleep
  <2>2. AwakeRun(o, FALSE, v) \in Orgs /\ Touches(AwakeRun(o, FALSE, v), tally, o)
    BY <1>0, AwakeRunType, RunTouches
  <2>3. /\ TransitionIn(AwakeRun(o, FALSE, v), o, "ASLEEP", 0) \in Orgs
        /\ TransitionTally(AwakeRun(o, FALSE, v), tally, o, "ASLEEP") \in TallyType
        /\ Touches(TransitionIn(AwakeRun(o, FALSE, v), o, "ASLEEP", 0),
                   TransitionTally(AwakeRun(o, FALSE, v), tally, o, "ASLEEP"), o)
    BY <1>0, <1>5, <2>2
  <2>4. QED
    BY <1>1, <2>1, <2>3
<1>7. CASE Doze
  <2>1. PICK o \in Living, v \in Outcomes :
            AtWork(o, "ASLEEP") /\ Settle(o, AsleepRun(o, v), tally)
    BY <1>7 DEF Doze
  <2>2. QED
    BY <1>0, <1>1, <2>1, AsleepRunType, RunTouches
<1>8. CASE SwitchOff
  <2>1. PICK o \in Living, v \in Outcomes, d \in OffMin..OffMax :
            /\ AtWork(o, "ASLEEP")
            /\ Settle(o, TransitionIn(AsleepRun(o, v), o, "OFF", d),
                         TransitionTally(AsleepRun(o, v), tally, o, "OFF"))
    BY <1>8 DEF SwitchOff
  <2>2. d \in Nat
    BY ConfigAssumption
  <2>3. AsleepRun(o, v) \in Orgs /\ Touches(AsleepRun(o, v), tally, o)
    BY <1>0, AsleepRunType, RunTouches
  <2>4. /\ TransitionIn(AsleepRun(o, v), o, "OFF", d) \in Orgs
        /\ TransitionTally(AsleepRun(o, v), tally, o, "OFF") \in TallyType
        /\ Touches(TransitionIn(AsleepRun(o, v), o, "OFF", d),
                   TransitionTally(AsleepRun(o, v), tally, o, "OFF"), o)
    BY <1>0, <1>5, <2>2, <2>3
  <2>5. QED
    BY <1>1, <2>1, <2>4
<1>9. CASE WakeUp
  <2>1. PICK o \in Living, v \in Outcomes :
            /\ AtWork(o, "ASLEEP")
            /\ IF IsFoolsDay(date)
               THEN RemoveAt(TransitionIn(AsleepRun(o, v), o, "AWAKE", 0), tally, idx)
               ELSE Settle(o, TransitionIn(AsleepRun(o, v), o, "AWAKE", 0), tally)
    BY <1>9 DEF WakeUp
  <2> DEFINE f == TransitionIn(AsleepRun(o, v), o, "AWAKE", 0)
  <2>2. AsleepRun(o, v) \in Orgs /\ Touches(AsleepRun(o, v), tally, o)
    BY <1>0, AsleepRunType, RunTouches
  <2>3. f \in Orgs /\ Touches(f, tally, o)
    BY <1>0, <1>5, <2>2 DEF TransitionTally
  <2>4. idx \in DOMAIN slots /\ o = slots[idx] /\ o \in Ids
    BY <1>0, <2>1 DEF TypeOK, AtWork
  <2> HIDE DEF f
  <2>5. CASE IsFoolsDay(date)
    <3>1. RemoveAt(f, tally, idx)
      BY <2>1, <2>5 DEF f
    <3>2. QED
      BY <1>0, <2>3, <2>4, <3>1, RemoveAtTouches DEF OneTouched
  <2>6. CASE ~IsFoolsDay(date)
    <3>1. Settle(o, f, tally)
      BY <2>1, <2>6 DEF f
    <3>2. QED
      BY <1>0, <1>1, <2>1, <2>3, <3>1
  <2>7. QED
    BY <2>5, <2>6
<1>10. QED
  BY <1>2, <1>3, <1>4, <1>6, <1>7, <1>8, <1>9 DEF Executes

LEMMA RemovalTouches ==
    ASSUME TypeOK, LinksIn(org), NEW k \in DOMAIN slots, RemoveAt(org, tally, k)
    PROVE  OneTouched
<1>1. org \in Orgs /\ tally \in TallyType /\ slots \in Seq(Ids) /\ slots[k] \in Ids
  BY DEF TypeOK
<1>2. Touches(org', tally', slots[k])
  BY <1>1, SelfTouches, RemoveAtTouches
<1>3. QED
  BY <1>1, <1>2 DEF OneTouched

LEMMA ScansTouch ==
    TypeOK /\ LinksIn(org) /\ (ReturnFromOff \/ FoolAwake \/ FoolAsleep \/ DormancyTimeout)
        => OneTouched
<1> SUFFICES ASSUME TypeOK, LinksIn(org),
                    ReturnFromOff \/ FoolAwake \/ FoolAsleep \/ DormancyTimeout
             PROVE  OneTouched
  OBVIOUS
<1>0. /\ org \in Orgs /\ tally \in TallyType /\ slots \in Seq(Ids) /\ idx \in Nat \ {0}
      /\ tick \in Nat /\ Here \subseteq DOMAIN slots /\ \A x \in Ids : org[x] \in OrgType
  BY DEF TypeOK, Here, Orgs
<1>1. CASE ReturnFromOff
  <2>1. PICK j \in Expired : Transition(slots[j], "ASLEEP", 0)
    BY <1>1 DEF ReturnFromOff
  <2>2. slots[j] \in Ids /\ "ASLEEP" \in LifeStates /\ 0 \in Nat
    BY <1>0 DEF Expired, LifeStates
  <2>3. Touches(org', tally', slots[j])
    BY <1>0, <2>1, <2>2, SelfTouches, TransitionTouches DEF Transition
  <2>4. QED
    BY <2>2, <2>3 DEF OneTouched
<1>2. CASE FoolAwake \/ DormancyTimeout
  <2>1. PICK j \in Here : RemoveAt(org, tally, j)
    BY <1>2 DEF FoolAwake, DormancyTimeout, Judged, Dormant
  <2>2. QED
    BY <1>0, <2>1, RemovalTouches
<1>3. CASE FoolAsleep
  <2>1. PICK j \in Here, survived \in BOOLEAN :
            LET rolled == [org EXCEPT ![slots[j]].roll = date.year] IN
            IF survived THEN org' = rolled /\ UNCHANGED <<slots, tally>>
            ELSE RemoveAt(rolled, tally, j)
    BY <1>3 DEF FoolAsleep, Judged
  <2> DEFINE o == slots[j]
             r == [org[o] EXCEPT !.roll = date.year]
             rolled == [org EXCEPT ![o].roll = date.year]
  <2>2. j \in DOMAIN slots /\ o \in Ids
    BY <1>0
  <2>3. r \in OrgType /\ r.partner = org[o].partner
    <3>1. org[o] \in OrgType /\ date.year \in 0..LastYear
      BY <1>0, <2>2, LastYearType DEF TypeOK, Dates
    <3>2. QED
      BY <3>1, Zenon DEF OrgType
  <2>4. rolled \in Orgs /\ rolled = [org EXCEPT ![o] = r]
    BY <1>0, <2>2, <2>3 DEF Orgs
  <2>5. (org' = rolled /\ tally' = tally) \/ RemoveAt(rolled, tally, j)
    BY <2>1
  <2> HIDE DEF rolled, r
  <2>6. Touches([org EXCEPT ![o] = r], tally, o)
    BY <1>0, <2>2, <2>3, SelfTouches, ReplaceTouches, Zenon
  <2>7. Touches(org', tally', o)
    BY <1>0, <2>2, <2>4, <2>5, <2>6, RemoveAtTouches
  <2>8. QED
    BY <2>2, <2>7 DEF OneTouched
<1>4. QED
  BY <1>1, <1>2, <1>3

\* Delivery and accounting move nobody and touch no couple.
Stands == \A x \in Ids : SameLife(org[x], org'[x]) /\ org'[x].partner = org[x].partner

LEMMA StandsTouch ==
    ASSUME Stands, tally' = tally
    PROVE  OneTouched
<1>1. 1 \in Ids
  BY MaxIdType DEF Ids
<1>2. Touches(org', tally', 1)
  BY DEF Stands, Touches, Moved, SamePairs, SameBonds
<1>3. QED
  BY <1>1, <1>2 DEF OneTouched

LEMMA DeliverStands == TypeOK /\ Deliver => Stands
BY DeliverOrg DEF TypeOK, Stands, SameLife, SameState

LEMMA AccountStands == TypeOK /\ Account => Stands
<1> SUFFICES ASSUME TypeOK, Account, NEW x \in Ids
             PROVE  SameLife(org[x], org'[x]) /\ org'[x].partner = org[x].partner
  BY DEF Stands
<1>1. org \in Orgs /\ org[x] \in OrgType /\ tick \in Nat
  BY DEF TypeOK, Orgs
<1>2. SameLife(org[x], Accounted(org[x])) /\ Accounted(org[x]).partner = org[x].partner
  BY <1>1, AccountOrg DEF SameLife
<1>3. org'[x] \in {org[x], Accounted(org[x])}
  BY DEF Account
<1>4. QED
  BY <1>2, <1>3 DEF SameLife

LEMMA GoesOnStands == TypeOK /\ CourtshipGoesOn => Stands /\ tally' = tally
<1> SUFFICES ASSUME TypeOK, CourtshipGoesOn PROVE Stands /\ tally' = tally
  OBVIOUS
<1>1. PICK o \in Living : org' = Progressed(o)
  BY DEF CourtshipGoesOn
<1>2. ASSUME NEW x \in Ids
      PROVE  SameLife(org[x], org'[x]) /\ org'[x].partner = org[x].partner
  <2> DEFINE n == org[o].progress + 1
             r == [org[x] EXCEPT !.hears = TRUE, !.progress = n]
  <2>1. org[x] \in OrgType
    BY DEF TypeOK, Orgs
  <2>2. SameLife(org[x], r) /\ r.partner = org[x].partner
    <3> HIDE DEF n
    <3>1. QED
      BY <2>1, Zenon DEF OrgType, SameLife
  <2>3. org'[x] = r \/ org'[x] = org[x]
    BY <1>1 DEF Progressed
  <2>4. QED
    BY <2>2, <2>3 DEF SameLife
<1>3. QED
  BY <1>2 DEF Stands, CourtshipGoesOn

IsNew(r) == \E u : r = Newborn(tick, u)

\* A courtship that lasts to its end leaves both sides single.
Succeeds(w, born) ==
    /\ org[w].partner # 0 /\ (born => nextId \in Ids /\ ~Lives(nextId))
    /\ \A x \in Ids :
        /\ org'[x].partner = IF x \in {w, org[w].partner} THEN 0 ELSE org[x].partner
        /\ IF born /\ x = nextId THEN IsNew(org'[x]) ELSE SameLife(org[x], org'[x])
    /\ tally'.active = tally.active - 1 /\ tally'.completed = tally.completed + 1
    /\ tally'.started = tally.started /\ tally'.failed = tally.failed
    /\ tally'.offspring = tally.offspring + (IF born THEN 1 ELSE 0)
    /\ nextId' = IF born THEN nextId + 1 ELSE nextId

LEMMA EndsSucceed ==
    PopulationInv /\ LinksIn(org) /\ CourtshipEnds
        => \E w \in Living, born \in BOOLEAN : Succeeds(w, born)
<1> SUFFICES ASSUME PopulationInv, LinksIn(org), CourtshipEnds
             PROVE  \E w \in Living, born \in BOOLEAN : Succeeds(w, born)
  OBVIOUS
<1>0. /\ TypeOK /\ org \in Orgs /\ tally \in TallyType /\ Living \subseteq Ids
      /\ nextId \in 3..(MaxId + 1) /\ \A x \in Ids : org[x] \in OrgType
  BY DEF PopulationInv, TypeOK, Living, Orgs
<1>1. PICK w \in Living, born \in BOOLEAN, k \in Mutations :
          /\ MayCourt(w)
          /\ born => nextId <= MaxId
          /\ org' = Completed(w, born, k)
          /\ nextId' = IF born THEN nextId + 1 ELSE nextId
          /\ tally' = LET n == IF born THEN 1 ELSE 0 IN
                      [tally EXCEPT !.active = @ - 1, !.completed = @ + 1,
                                    !.births = @ + n, !.offspring = @ + n]
  BY DEF CourtshipEnds
<1> DEFINE p == org[w].partner
           n == IF born THEN 1 ELSE 0
<1>2. w \in Ids /\ p \in Living /\ p \in Ids /\ p # 0
  BY <1>0, <1>1, MaxIdType DEF MayCourt, Reciprocal, Ids
<1>3. born => nextId \in Ids /\ ~Lives(nextId)
  BY <1>0, <1>1, MaxIdType DEF PopulationInv, PopulationBalances, Ids
<1>4. ASSUME NEW x \in Ids, x \in {w, p}
      PROVE  org'[x].partner = 0 /\ SameLife(org[x], org'[x]) /\ ~(born /\ x = nextId)
  <2> DEFINE t == Single(org[x])
             m == t.wins + (IF born THEN 1 ELSE 0)
             r == [t EXCEPT !.wins = m]
  <2>1. t \in OrgType /\ SameLife(org[x], t) /\ t.partner = 0
    BY <1>0, SingleType, SingleLife, SingleLink
  <2>2. SameLife(t, r) /\ r.partner = t.partner
    <3> HIDE DEF t, m
    <3>1. QED
      BY <2>1, Zenon DEF OrgType, SameLife
  <2>3. org'[x] = r
    BY <1>1, <1>4 DEF Completed
  <2>4. x \in Living
    BY <1>2, <1>4
  <2>5. ~(born /\ x = nextId)
    BY <1>3, <2>4 DEF Living
  <2> HIDE DEF r, t
  <2>6. QED
    BY <2>1, <2>2, <2>3, <2>5 DEF SameLife
<1>5. ASSUME NEW x \in Ids, x \notin {w, p}
      PROVE  IF born /\ x = nextId THEN IsNew(org'[x]) ELSE org'[x] = org[x]
  BY <1>1, <1>5 DEF Completed, IsNew
<1>6. ASSUME NEW x \in Ids, x \notin {w, p}
      PROVE  org'[x].partner = org[x].partner
  <2>1. CASE born /\ x = nextId
    <3>1. org[x].partner = 0
      BY <1>3, <2>1 DEF LinksIn, LinkIn, Lives
    <3>2. QED
      BY <1>5, <1>6, <2>1, <3>1, NewbornFields DEF IsNew
  <2>2. CASE ~(born /\ x = nextId)
    BY <1>5, <1>6, <2>2
  <2>3. QED
    BY <2>1, <2>2
<1>7. /\ tally'.active = tally.active - 1 /\ tally'.completed = tally.completed + 1
      /\ tally'.started = tally.started /\ tally'.failed = tally.failed
      /\ tally'.offspring = tally.offspring + n
  <2> DEFINE active == tally.active - 1
             completed == tally.completed + 1
             births == tally.births + n
             offspring == tally.offspring + n
  <2>1. tally' = [tally EXCEPT !.active = active, !.completed = completed,
                               !.births = births, !.offspring = offspring]
    BY <1>1
  <2> HIDE DEF active, completed, births, offspring
  <2>2. /\ tally'.active = active /\ tally'.completed = completed
        /\ tally'.started = tally.started /\ tally'.failed = tally.failed
        /\ tally'.offspring = offspring
    BY <1>0, <2>1, Zenon DEF TallyType
  <2>3. QED
    BY <2>2 DEF active, completed, births, offspring
<1>8. ASSUME NEW x \in Ids
      PROVE  IF born /\ x = nextId THEN IsNew(org'[x]) ELSE SameLife(org[x], org'[x])
  <2>1. CASE x \in {w, p}
    BY <1>4, <2>1
  <2>2. CASE x \notin {w, p}
    BY <1>5, <2>2 DEF SameLife
  <2>3. QED
    BY <2>1, <2>2
<1>9. \A x \in Ids : org'[x].partner = IF x \in {w, p} THEN 0 ELSE org[x].partner
  BY <1>4, <1>6
<1>10. Succeeds(w, born)
  BY <1>1, <1>2, <1>3, <1>7, <1>8, <1>9 DEF Succeeds
<1>11. QED
  BY <1>1, <1>10

\* Two single organisms become a couple.
Begins(a, b) ==
    /\ a # b /\ Lives(a) /\ Lives(b) /\ org[a].partner = 0 /\ org[b].partner = 0
    /\ \A x \in Ids :
        /\ SameLife(org[x], org'[x])
        /\ org'[x].partner = IF x = a THEN b ELSE IF x = b THEN a ELSE org[x].partner
    /\ tally'.active = tally.active + 1 /\ tally'.started = tally.started + 1
    /\ tally'.failed = tally.failed /\ tally'.completed = tally.completed
    /\ tally'.offspring = tally.offspring

LEMMA TryBirthCourts ==
    ASSUME org \in Orgs, tally \in TallyType, NEW a \in Ids, NEW b \in Ids, NEW granted,
           TryBirth(a, b, granted)
    PROVE  Begins(a, b) \/ (Stands /\ tally' = tally)
<1> DEFINE f == Attempted(a, b)
<1>1. f \in Orgs
  BY AttemptedType
<1>2. ASSUME NEW x \in Ids PROVE SameLife(org[x], f[x]) /\ f[x].partner = org[x].partner
  <2> DEFINE n == org[x].attempts + 1
             r == [org[x] EXCEPT !.attempts = n]
  <2>1. org[x] \in OrgType
    BY DEF Orgs
  <2>2. SameLife(org[x], r) /\ r.partner = org[x].partner
    <3> HIDE DEF n
    <3>1. QED
      BY <2>1, Zenon DEF OrgType, SameLife
  <2>3. f[x] = r \/ f[x] = org[x]
    BY DEF Attempted
  <2>4. QED
    BY <2>2, <2>3 DEF SameLife
<1> HIDE DEF f
<1>3. CASE granted /\ MayPair(a, b)
  <2>1. /\ a # b /\ Lives(a) /\ Lives(b) /\ org[a].partner = 0 /\ org[b].partner = 0
        /\ org' = [f EXCEPT ![a].partner = b, ![a].progress = 0,
                            ![b].partner = a, ![b].progress = 0]
    BY <1>3 DEF TryBirth, MayPair, f
  <2>2. ASSUME NEW x \in Ids, NEW q
        PROVE  LET r == [f[x] EXCEPT !.partner = q, !.progress = 0] IN
               SameLife(f[x], r) /\ r.partner = q
    <3>1. f[x] \in OrgType
      BY <1>1 DEF Orgs
    <3>2. QED
      BY <3>1, Zenon DEF OrgType, SameLife
  <2>3. \A x \in Ids :
          org'[x] = IF x = a THEN [f[x] EXCEPT !.partner = b, !.progress = 0]
                    ELSE IF x = b THEN [f[x] EXCEPT !.partner = a, !.progress = 0] ELSE f[x]
    BY <1>1, <2>1 DEF Orgs, OrgType
  <2>4. ASSUME NEW x \in Ids
        PROVE  /\ SameLife(org[x], org'[x])
               /\ org'[x].partner = IF x = a THEN b ELSE IF x = b THEN a ELSE org[x].partner
    <3> DEFINE ra == [f[x] EXCEPT !.partner = b, !.progress = 0]
               rb == [f[x] EXCEPT !.partner = a, !.progress = 0]
    <3>a. SameLife(f[x], ra) /\ ra.partner = b /\ SameLife(f[x], rb) /\ rb.partner = a
      BY <2>2
    <3>b. org'[x] = IF x = a THEN ra ELSE IF x = b THEN rb ELSE f[x]
      BY <2>3
    <3> HIDE DEF ra, rb
    <3>1. CASE x = a
      BY <1>2, <3>a, <3>b, <3>1 DEF SameLife
    <3>2. CASE x # a /\ x = b
      BY <1>2, <3>a, <3>b, <3>2 DEF SameLife
    <3>3. CASE x # a /\ x # b
      BY <1>2, <2>3, <3>3
    <3>4. QED
      BY <3>1, <3>2, <3>3
  <2>5. /\ tally'.active = tally.active + 1 /\ tally'.started = tally.started + 1
        /\ tally'.failed = tally.failed /\ tally'.completed = tally.completed
        /\ tally'.offspring = tally.offspring
    <3> DEFINE active == tally.active + 1
               started == tally.started + 1
    <3>1. tally' = [tally EXCEPT !.active = active, !.started = started]
      BY <1>3 DEF TryBirth
    <3> HIDE DEF active, started
    <3>2. /\ tally'.active = active /\ tally'.started = started
          /\ tally'.failed = tally.failed /\ tally'.completed = tally.completed
          /\ tally'.offspring = tally.offspring
      BY <3>1, Zenon DEF TallyType
    <3>3. QED
      BY <3>2 DEF active, started
  <2>6. QED
    BY <2>1, <2>4, <2>5 DEF Begins
<1>4. CASE ~(granted /\ MayPair(a, b))
  <2>1. org' = f /\ tally' = tally
    BY <1>4 DEF TryBirth, f
  <2>2. QED
    BY <1>2, <2>1 DEF Stands
<1>5. QED
  BY <1>3, <1>4

LEMMA HostTouches == TypeOK /\ LinksIn(org) /\ (HostTransition \/ HostSpoils) => OneTouched
<1> SUFFICES ASSUME TypeOK, LinksIn(org), HostTransition \/ HostSpoils PROVE OneTouched
  OBVIOUS
<1>0. org \in Orgs /\ tally \in TallyType /\ tick \in Nat /\ Living \subseteq Ids
  BY DEF TypeOK, Living
<1>1. CASE HostTransition
  <2>1. PICK o \in Living, to \in LifeStates, d \in {0, OffMax + 1} : Transition(o, to, d)
    BY <1>1 DEF HostTransition
  <2>2. d \in Nat /\ o \in Ids
    BY <1>0, ConfigAssumption
  <2>3. Touches(org', tally', o)
    BY <1>0, <2>1, <2>2, SelfTouches, TransitionTouches DEF Transition
  <2>4. QED
    BY <2>2, <2>3 DEF OneTouched
<1>2. CASE HostSpoils
  <2>1. PICK o \in Living : org' = [org EXCEPT ![o].sound = FALSE]
    BY <1>2 DEF HostSpoils
  <2> DEFINE r == [org[o] EXCEPT !.sound = FALSE]
  <2>2. r.partner = org[o].partner
    <3>1. org[o] \in OrgType
      BY <1>0 DEF Orgs
    <3>2. QED
      BY <3>1, Zenon DEF OrgType
  <2>3. org' = [org EXCEPT ![o] = r] /\ tally' = tally
    BY <1>0, <1>2, <2>1 DEF Orgs, HostSpoils
  <2> HIDE DEF r
  <2>4. Touches([org EXCEPT ![o] = r], tally, o)
    BY <1>0, <2>2, SelfTouches, ReplaceTouches, Zenon
  <2>5. QED
    BY <1>0, <2>3, <2>4 DEF OneTouched
<1>3. QED
  BY <1>1, <1>2

\* What a step does to the couples, whichever operation takes it.
LEMMA StepsCourt ==
    PopulationInv /\ LinksIn(org) /\ [Next]_vars =>
        \/ OneTouched
        \/ \E a, b \in Ids : Begins(a, b)
        \/ CourtshipEnds /\ \E w \in Living, born \in BOOLEAN : Succeeds(w, born)
<1> DEFINE Goal == \/ OneTouched
                   \/ \E a, b \in Ids : Begins(a, b)
                   \/ CourtshipEnds /\ \E w \in Living, born \in BOOLEAN : Succeeds(w, born)
<1> SUFFICES ASSUME PopulationInv, LinksIn(org), [Next]_vars PROVE Goal
  OBVIOUS
<1>1. /\ TypeOK /\ org \in Orgs /\ tally \in TallyType /\ slots \in Seq(Ids)
      /\ Living \subseteq Ids
  BY DEF PopulationInv, TypeOK, Living
<1>2. CASE Passes \/ StartTick \/ Terminated \/ UNCHANGED vars
  <2>1. org' = org /\ tally' = tally
    BY <1>2, PassesLeavesWorld DEF StartTick, Terminated, vars, world
  <2>2. QED
    BY <2>1, StandsTouch DEF Stands, SameLife
<1>3. CASE Deliver \/ Account
  BY <1>1, <1>3, DeliverStands, AccountStands, StandsTouch DEF Deliver, Account
<1>4. CASE EvictOldest
  BY <1>1, <1>4, RemovalTouches DEF EvictOldest
<1>5. CASE Pair \/ HostTryBirth
  <2>1. PICK a \in Ids, b \in Ids, granted \in BOOLEAN : TryBirth(a, b, granted)
    BY <1>1, <1>5 DEF Pair, HostTryBirth
  <2>2. QED
    BY <1>1, <2>1, TryBirthCourts, StandsTouch
<1>6. CASE Executes \/ InvalidDies
  BY <1>6, ExecutesTouch
<1>7. CASE ReturnFromOff \/ FoolAwake \/ FoolAsleep \/ DormancyTimeout
  BY <1>1, <1>7, ScansTouch
<1>8. CASE HostTransition \/ HostSpoils
  BY <1>1, <1>8, HostTouches
<1>9. CASE CourtshipFails
  <2>1. PICK o \in Living : org' = CancelIn(org, o) /\ tally' = CancelTally(org, tally, o)
    BY <1>9 DEF CourtshipFails
  <2>2. Touches(org', tally', o)
    BY <1>1, <2>1, SelfTouches, CancelTouches
  <2>3. QED
    BY <1>1, <2>2 DEF OneTouched
<1>10. CASE CourtshipGoesOn
  BY <1>1, <1>10, GoesOnStands, StandsTouch
<1>11. CASE CourtshipEnds
  BY <1>11, EndsSucceed
<1> HIDE DEF Goal
<1>12. QED
  BY <1>2, <1>3, <1>4, <1>5, <1>6, <1>7, <1>8, <1>9, <1>10, <1>11
     DEF Next, Step, Host, Passes, Executes

\* With the links, since a couple ends when one of its organisms moves.
LifeInv == OrganismInv /\ OffInv /\ LinksIn(org)

LEMMA LifeInvInit == Init => LifeInv
BY OrganismInit, LinksInit DEF Init, LifeInv, OffInv, TickPhases

LEMMA LifeInvStep == LifeInv /\ [Next]_vars => LifeInv'
<1>1. LinksIn(org)' = LinksIn(org')
  BY DEF LinksIn, LinkIn
<1>2. QED
  BY <1>1, OrganismStep, OffStep, LinksStep DEF LifeInv, OrganismInv

LEMMA LifeFromInit == Init => L!LifeInit
<1> SUFFICES ASSUME Init PROVE L!LifeInit
  OBVIOUS
<1>1. ASSUME NEW o \in Ids PROVE LifeOf(o) \in {"unborn", "AWAKE"} /\ org[o].backOn = 0
  BY <1>1, SeedsFields DEF Init, LifeOf, Lives, Ids
<1>2. tick = 0
  BY DEF Init
<1>3. QED
  BY <1>1, <1>2 DEF L!LifeInit

\* Who is not moved looks the same, and who has died or is yet unborn too.
LEMMA StandingStays ==
    ASSUME TypeOK, NEW x \in Ids, SameLife(org[x], org'[x]),
           nextId' = nextId \/ (nextId' = nextId + 1 /\ x # nextId)
    PROVE  LifeOf(x)' = LifeOf(x) /\ org'[x].backOn = org[x].backOn
<1>1. nextId \in Nat /\ x \in Nat
  BY MaxIdType DEF TypeOK, Ids
<1>2. x < nextId' <=> x < nextId
  BY <1>1
<1>3. QED
  BY <1>2 DEF SameLife, LifeOf, Lives

LEMMA LifecycleStep == LifeInv /\ [Next]_vars => [L!LifeNext]_(L!lifeVars)
<1> SUFFICES ASSUME LifeInv, [Next]_vars
             PROVE  L!LifeNext \/ UNCHANGED L!lifeVars
  OBVIOUS
<1> DEFINE life == [x \in Ids |-> LifeOf(x)]
           alarm == [x \in Ids |-> org[x].backOn]
<1>0. /\ PopulationInv /\ TypeOK /\ LinksIn(org) /\ org \in Orgs /\ tick \in Nat
      /\ nextId \in 3..(MaxId + 1)
      /\ \A x \in Ids : org[x] \in OrgType
  BY DEF LifeInv, OrganismInv, PopulationInv, TypeOK, Orgs
<1>1. CASE Account
  <2>1. tick' = tick + 1 /\ nextId' = nextId /\ pc = "account"
    BY <1>1 DEF Account
  <2>2. life' = life /\ alarm' = alarm
    BY <1>0, <1>1, <2>1, AccountStands, StandingStays DEF Stands
  <2>3. \A x \in Ids : life[x] = "OFF" => alarm[x] > tick
    BY <1>0, <2>1 DEF LifeInv, OffInv, TickPhases, Answered, LifeOf
  <2>4. L!TickPasses
    BY <2>1, <2>2, <2>3 DEF L!TickPasses
  <2>5. QED
    BY <2>4 DEF L!LifeNext
<1>2. CASE CourtshipEnds
  <2>1. PICK w \in Living, born \in BOOLEAN : Succeeds(w, born)
    BY <1>0, <1>2, EndsSucceed
  <2>2. tick' = tick /\ nextId' = IF born THEN nextId + 1 ELSE nextId
    BY <1>2, <2>1 DEF CourtshipEnds, clock, Succeeds
  <2>3. ASSUME NEW x \in Ids, ~(born /\ x = nextId)
        PROVE  LifeOf(x)' = LifeOf(x) /\ org'[x].backOn = org[x].backOn
    <3>1. SameLife(org[x], org'[x])
      BY <2>1, <2>3 DEF Succeeds
    <3>2. QED
      BY <1>0, <2>2, <2>3, <3>1, StandingStays
  <2>4. CASE ~born
    <3>1. life' = life /\ alarm' = alarm /\ tick' = tick
      BY <2>2, <2>3, <2>4
    <3>2. QED
      BY <3>1 DEF L!lifeVars
  <2>5. CASE born
    <3>1. nextId \in Ids /\ ~Lives(nextId) /\ IsNew(org'[nextId])
      BY <2>1, <2>5 DEF Succeeds
    <3>4. org[nextId].backOn = 0
      BY <3>1 DEF LifeInv, OrganismInv, Sane, TimerSane, Lives
    <3>5. org'[nextId].state = "AWAKE" /\ org'[nextId].backOn = 0
      BY <3>1, NewbornFields DEF IsNew
    <3>6. life[nextId] = "unborn"
      BY <1>0, <3>1 DEF LifeOf
    <3>7. life' = [life EXCEPT ![nextId] = "AWAKE"]
      <4> DEFINE n == nextId
      <4>1. \A x \in Ids : LifeOf(x)' = IF x = n THEN "AWAKE" ELSE LifeOf(x)
        BY <2>3, <2>5, <3>5 DEF LifeOf, Lives
      <4> HIDE DEF n
      <4>2. life' = [life EXCEPT ![n] = "AWAKE"]
        BY <4>1
      <4>3. QED
        BY <4>2 DEF n
    <3>8. alarm' = alarm
      BY <2>3, <3>4, <3>5
    <3>9. L!IsBorn(nextId)
      BY <2>2, <3>6, <3>7, <3>8 DEF L!IsBorn, L!Change
    <3>10. QED
      BY <3>1, <3>9 DEF L!LifeNext
  <2>6. QED
    BY <2>4, <2>5
<1>3. CASE ~Account /\ ~CourtshipEnds
  <2>1. nextId' = nextId /\ tick' = tick
    BY <1>3, NextIdFlow, ClockFlow DEF StartTick, clock
  <2>2. PICK o \in Ids : Moved(org', o)
    BY <1>0, <1>3, StepsCourt DEF OneTouched, Touches, Begins, Moved
  <2>3. \A x \in Ids : x # o => LifeOf(x)' = LifeOf(x) /\ org'[x].backOn = org[x].backOn
    BY <1>0, <2>1, <2>2, StandingStays DEF Moved
  <2>4. LifeOf(o)' = IF org'[o].state # "NONE" THEN org'[o].state
                     ELSE IF o < nextId THEN "dead" ELSE "unborn"
    BY <2>1 DEF LifeOf, Lives
  <2>5. ASSUME org[o].state \in {"AWAKE", "ASLEEP", "OFF"},
               org'[o].state \in {"AWAKE", "ASLEEP", "OFF"}
        PROVE  /\ life[o] = org[o].state
               /\ life' = [life EXCEPT ![o] = org'[o].state]
               /\ alarm' = [alarm EXCEPT ![o] = org'[o].backOn]
               /\ alarm[o] = org[o].backOn
               /\ alarm'[o] = org'[o].backOn
    BY <2>2, <2>3, <2>4, <2>5 DEF LifeOf, Lives
  <2>6. ASSUME org[o].state # "OFF", org'[o].backOn = 0 PROVE alarm' = alarm
    BY <2>3, <2>6 DEF LifeInv, OrganismInv, Sane, TimerSane
  <2> DEFINE Steps == L!LifeNext \/ UNCHANGED L!lifeVars
  <2>7. CASE SameLife(org[o], org'[o])
    <3>1. life' = life /\ alarm' = alarm
      BY <1>0, <2>1, <2>3, <2>7, StandingStays
    <3>2. QED
      BY <2>1, <3>1 DEF L!lifeVars
  <2>8. CASE Sleeps(org[o], org'[o])
    <3>1. L!FallsAsleep(o)
      BY <2>1, <2>5, <2>6, <2>8 DEF Sleeps, L!FallsAsleep, L!Change
    <3>2. QED
      BY <3>1 DEF L!LifeNext
  <2>9. CASE Awakens(org[o], org'[o])
    <3>1. L!Wakes(o)
      BY <2>1, <2>5, <2>6, <2>9 DEF Awakens, L!Wakes, L!Change
    <3>2. QED
      BY <3>1 DEF L!LifeNext
  <2>10. CASE GoesOff(org[o], org'[o])
    <3>1. org'[o].backOn > tick
      BY <1>0, <2>10, ConfigAssumption DEF GoesOff
    <3>2. L!SwitchesOff(o)
      BY <2>1, <2>5, <2>10, <3>1 DEF GoesOff, L!SwitchesOff, L!Change
    <3>3. QED
      BY <3>2 DEF L!LifeNext
  <2>11. CASE ComesBack(org[o], org'[o])
    <3>1. L!Returns(o)
      BY <2>1, <2>5, <2>11 DEF ComesBack, L!Returns, L!Change
    <3>2. QED
      BY <3>1 DEF L!LifeNext
  <2>12. CASE Removed(org[o], org'[o])
    <3>1. org'[o].state = "NONE" /\ org'[o].backOn = 0
      BY <2>12 DEF Removed, Nobody
    <3>2. org[o].state # "NONE" /\ org[o].state \in {"AWAKE", "ASLEEP", "OFF"}
      BY <1>0, <2>12 DEF Removed, Removable, OrgType, LifeStates
    <3>3. o < nextId
      BY <1>0, <3>2 DEF PopulationInv, PopulationBalances, Lives, Ids
    <3>4. life' = [life EXCEPT ![o] = "dead"] /\ alarm' = [alarm EXCEPT ![o] = 0]
      BY <2>3, <2>4, <3>1, <3>3
    <3>5. life[o] \in {"AWAKE", "ASLEEP", "OFF"}
      BY <3>2 DEF LifeOf, Lives
    <3>6. L!Dies(o)
      BY <2>1, <3>4, <3>5 DEF L!Dies
    <3>7. QED
      BY <3>6 DEF L!LifeNext
  <2>13. CASE Deliver
    BY <1>0, <2>7, <2>13, DeliverStands DEF Stands
  <2>14. CASE AllEvolve
    <3>1. ~IsBorn(o, org[o], org'[o])
      <4>1. ~(o = nextId /\ Lives(o)')
        BY <1>0, <2>1, PopulationStep DEF PopulationInv, PopulationBalances
      <4>2. QED
        BY <4>1, NewbornFields DEF IsBorn, Lives
    <3>2. Survives(org[o], org'[o]) \/ Removed(org[o], org'[o])
      BY <2>14, <3>1 DEF AllEvolve, Evolves
    <3>3. QED
      BY <2>7, <2>8, <2>9, <2>10, <2>11, <2>12, <3>2
         DEF Survives, LifeStep, SameState, SameLife
  <2>15. QED
    BY <1>0, <1>3, <2>13, <2>14, StepsEvolve
<1>4. QED
  BY <1>1, <1>2, <1>3

\* Each organism follows the lifecycle diagram: born awake, switched off only
\* from sleep with an alarm ahead, back in sleep and not before the alarm,
\* dead for good; and no tick is counted while a due alarm is unanswered.
THEOREM LifecycleIsKept == Spec => KeepsLifecycle
<1>1. Spec => []LifeInv
  BY LifeInvInit, LifeInvStep, PTL DEF Spec
<1>2. QED
  BY <1>1, LifeFromInit, LifecycleStep, PTL DEF Spec, KeepsLifecycle, L!LifeSpec

\* A couple that loses its link is gone from the couples, and no other is.
LEMMA CouplesPart ==
    ASSUME LinksIn(org), NEW o \in Ids, org[o].partner # 0,
           \A x \in Ids :
               org'[x].partner = IF x \in {o, org[o].partner} THEN 0 ELSE org[x].partner
    PROVE  {o, org[o].partner} \in Couples /\ Couples' = Couples \ {{o, org[o].partner}}
<1> DEFINE p == org[o].partner
<1>1. p \in Ids /\ org[p].partner = o /\ {o, p} \in Couples
  BY DEF LinksIn, LinkIn, Couples
<1>2. ASSUME NEW c \in Couples' PROVE c \in Couples /\ c # {o, p}
  <2>1. PICK x \in Ids : org'[x].partner # 0 /\ c = {x, org'[x].partner}
    BY <1>2 DEF Couples
  <2>2. x \notin {o, p} /\ org'[x].partner = org[x].partner
    BY <2>1
  <2>3. QED
    BY <2>1, <2>2 DEF Couples
<1>3. ASSUME NEW c \in Couples, c # {o, p} PROVE c \in Couples'
  <2>1. PICK x \in Ids : org[x].partner # 0 /\ c = {x, org[x].partner}
    BY <1>3 DEF Couples
  <2>2. x # o /\ x # p
    BY <1>1, <1>3, <2>1
  <2>3. org'[x].partner = org[x].partner
    BY <2>2
  <2>4. QED
    BY <2>1, <2>3 DEF Couples
<1>4. QED
  BY <1>1, <1>2, <1>3

LEMMA CouplesBegin ==
    ASSUME LinksIn(org), NEW a \in Ids, NEW b \in Ids, Begins(a, b)
    PROVE  {a, b} \notin Couples /\ Couples' = Couples \cup {{a, b}}
<1>0. a # 0 /\ b # 0 /\ a # b /\ org[a].partner = 0 /\ org[b].partner = 0
  BY MaxIdType DEF Ids, Begins
<1>p. \A x \in Ids :
        org'[x].partner = IF x = a THEN b ELSE IF x = b THEN a ELSE org[x].partner
  BY DEF Begins
<1>1. ASSUME NEW x \in Ids, org[x].partner # 0
      PROVE  x \notin {a, b} /\ org[x].partner \notin {a, b}
  BY <1>0, <1>1, MaxIdType DEF LinksIn, LinkIn, Ids
<1>2. {a, b} \notin Couples
  BY <1>1 DEF Couples
<1>3. ASSUME NEW c \in Couples' PROVE c \in Couples \cup {{a, b}}
  <2>1. PICK x \in Ids : org'[x].partner # 0 /\ c = {x, org'[x].partner}
    BY <1>3 DEF Couples
  <2>2. CASE x \in {a, b}
    BY <1>p, <2>1, <2>2
  <2>3. CASE x \notin {a, b}
    BY <1>p, <2>1, <2>3 DEF Couples
  <2>4. QED
    BY <2>2, <2>3
<1>4. ASSUME NEW c \in Couples PROVE c \in Couples'
  <2>1. PICK x \in Ids : org[x].partner # 0 /\ c = {x, org[x].partner}
    BY <1>4 DEF Couples
  <2>2. org'[x].partner = org[x].partner
    BY <1>p, <1>1, <2>1
  <2>3. QED
    BY <2>1, <2>2 DEF Couples
<1>5. {a, b} \in Couples'
  <2>1. org'[a].partner = b
    BY <1>p
  <2>2. QED
    BY <1>0, <2>1 DEF Couples
<1>6. QED
  BY <1>2, <1>3, <1>4, <1>5

LEMMA CouplesStay == SamePairs(org') => Couples' = Couples
BY DEF SamePairs, Couples

LEMMA CouplesFinite ==
    LinksIn(org) => /\ IsFiniteSet(Couples) /\ Cardinality(Couples) \in Nat
                    /\ Couples # {} => Cardinality(Couples) >= 1
<1> SUFFICES ASSUME LinksIn(org)
             PROVE  /\ IsFiniteSet(Couples) /\ Cardinality(Couples) \in Nat
                    /\ Couples # {} => Cardinality(Couples) >= 1
  OBVIOUS
<1>1. IsFiniteSet(SUBSET Ids)
  <2>1. 1 \in Int /\ MaxId \in Int
    BY MaxIdType
  <2>2. IsFiniteSet(Ids)
    BY <2>1, FS_Interval DEF Ids
  <2>3. QED
    BY <2>2, FS_SUBSET
<1>2. Couples \subseteq SUBSET Ids
  BY DEF Couples, LinksIn, LinkIn
<1>3. IsFiniteSet(Couples)
  BY <1>1, <1>2, FS_Subset
<1>4. Cardinality(Couples) \in Nat /\ (Cardinality(Couples) = 0 <=> Couples = {})
  BY <1>3, FS_CardinalityType, FS_EmptySet
<1>5. QED
  BY <1>3, <1>4

BalanceInv == PopulationInv /\ LinksIn(org) /\ CourtshipsBalance

LEMMA BalanceInit == Init => BalanceInv
<1> SUFFICES ASSUME Init PROVE BalanceInv
  OBVIOUS
<1>1. Couples = {}
  BY SeedsFields DEF Couples
<1>2. Cardinality(Couples) = 0
  BY <1>1, FS_EmptySet
<1>3. CourtshipsBalance
  BY <1>2 DEF Init, CourtshipsBalance
<1>4. QED
  BY <1>3, PopulationInit, LinksInit DEF BalanceInv

LEMMA BalanceStep == BalanceInv /\ [Next]_vars => BalanceInv'
<1> SUFFICES ASSUME BalanceInv, [Next]_vars PROVE BalanceInv'
  OBVIOUS
<1>0. PopulationInv /\ LinksIn(org) /\ CourtshipsBalance /\ tally \in TallyType
  BY DEF BalanceInv, PopulationInv, TypeOK
<1>1. PopulationInv' /\ LinksIn(org)'
  <2>1. LinksIn(org)' = LinksIn(org')
    BY DEF LinksIn, LinkIn
  <2>2. QED
    BY <1>0, <2>1, PopulationStep, LinksStep
<1> DEFINE n == Cardinality(Couples)
<1>2. /\ tally.active = n /\ tally.started = tally.active + tally.failed + tally.completed
      /\ tally.offspring <= tally.completed /\ n \in Nat /\ IsFiniteSet(Couples)
      /\ tally.active \in Int /\ tally.started \in Nat /\ tally.failed \in Nat
      /\ tally.completed \in Nat /\ tally.offspring \in Nat
  BY <1>0, CouplesFinite DEF CourtshipsBalance, TallyType
<1>3. CASE OneTouched
  <2>1. PICK o \in Ids : Touches(org', tally', o)
    BY <1>3 DEF OneTouched
  <2>2. CASE SamePairs(org') /\ SameBonds(tally')
    BY <1>1, <1>2, <2>2, CouplesStay DEF BalanceInv, CourtshipsBalance, SameBonds
  <2>3. CASE Parted(org', o) /\ LostBond(tally')
    <3>1. {o, org[o].partner} \in Couples /\ Couples' = Couples \ {{o, org[o].partner}}
      BY <1>0, <2>3, CouplesPart DEF Parted
    <3>2. Cardinality(Couples') = n - 1 /\ n >= 1
      BY <1>0, <1>2, <3>1, CouplesFinite, FS_RemoveElement
    <3>3. CourtshipsBalance'
      <4> HIDE DEF n
      <4>1. QED
        BY <1>2, <2>3, <3>2 DEF CourtshipsBalance, LostBond
    <3>4. QED
      BY <1>1, <3>3 DEF BalanceInv
  <2>4. QED
    BY <1>1, <2>1, <2>2, <2>3 DEF Touches, BalanceInv
<1>4. ASSUME NEW a \in Ids, NEW b \in Ids, Begins(a, b) PROVE BalanceInv'
  <2>0. {a, b} \notin Couples /\ Couples' = Couples \cup {{a, b}}
    BY <1>0, <1>4, CouplesBegin
  <2>1. Cardinality(Couples') = n + 1
    BY <1>2, <2>0, FS_AddElement
  <2>2. CourtshipsBalance'
    <3> HIDE DEF n
    <3>1. QED
      BY <1>2, <1>4, <2>1 DEF CourtshipsBalance, Begins
  <2>3. QED
    BY <1>1, <2>2 DEF BalanceInv
<1>5. ASSUME NEW w \in Living, NEW born \in BOOLEAN, Succeeds(w, born) PROVE BalanceInv'
  <2>1. w \in Ids
    BY DEF Living
  <2>2. {w, org[w].partner} \in Couples /\ Couples' = Couples \ {{w, org[w].partner}}
    BY <1>0, <1>5, <2>1, CouplesPart DEF Succeeds
  <2>3. Cardinality(Couples') = n - 1
    BY <1>2, <2>2, FS_RemoveElement
  <2>4. CourtshipsBalance'
    <3> DEFINE k == IF born THEN 1 ELSE 0
    <3>1. /\ tally'.active = tally.active - 1 /\ tally'.completed = tally.completed + 1
          /\ tally'.started = tally.started /\ tally'.failed = tally.failed
          /\ tally'.offspring = tally.offspring + k /\ k \in {0, 1}
      BY <1>5 DEF Succeeds
    <3> HIDE DEF n, k
    <3>2. QED
      BY <1>2, <2>3, <3>1 DEF CourtshipsBalance
  <2>5. QED
    BY <1>1, <2>4 DEF BalanceInv
<1>6. QED
  BY <1>0, <1>3, <1>4, <1>5, StepsCourt

\* The courtship counters and the links tell the same story, whatever parts
\* a couple: death, eviction, sleep, withdrawn consent or the end.
THEOREM CourtshipsAreBalanced == Spec => []CourtshipsBalance
<1>1. BalanceInv => CourtshipsBalance
  BY DEF BalanceInv
<1>2. QED
  BY <1>1, BalanceInit, BalanceStep, PTL DEF Spec

(***************************************************************************)
(* Courtship is a matching                                                 *)
(***************************************************************************)
LEMMA OnlyCouple ==
    ASSUME LinksIn(org), NEW o \in Ids, NEW c \in Couples, o \in c
    PROVE  org[o].partner # 0 /\ c = {o, org[o].partner}
<1>1. PICK x \in Ids : org[x].partner # 0 /\ c = {x, org[x].partner}
  BY DEF Couples
<1>2. x # 0 /\ org[org[x].partner].partner = x
  BY <1>1, MaxIdType DEF LinksIn, LinkIn, Ids
<1>3. QED
  BY <1>1, <1>2

\* A death takes the couple of the dead along.
LEMMA DeathCourts ==
    ASSUME LinksIn(org), NEW o \in Living, Living' = Living \ {o}, org'[o].partner = 0,
           Touches(org', tally', o), tally \in TallyType
    PROVE  C!Die(o)
<1>1. o \in Ids
  BY DEF Living
<1>2. CASE SamePairs(org') /\ SameBonds(tally')
  <2>1. org[o].partner = 0 /\ Couples' = Couples
    BY <1>1, <1>2, CouplesStay DEF SamePairs
  <2>2. \A c \in Couples : o \notin c
    BY <1>1, <2>1, OnlyCouple
  <2>3. tally'.failed = tally.failed + 0
    BY <1>2 DEF SameBonds, TallyType
  <2>4. ~C!Courting(o)
    BY <2>2 DEF C!Courting
  <2>5. QED
    BY <1>2, <2>1, <2>2, <2>3, <2>4 DEF C!Die, SameBonds
<1>3. CASE Parted(org', o) /\ LostBond(tally')
  <2>1. {o, org[o].partner} \in Couples /\ Couples' = Couples \ {{o, org[o].partner}}
    BY <1>1, <1>3, CouplesPart DEF Parted
  <2>2. Couples' = {c \in Couples : o \notin c}
    BY <1>1, <2>1, OnlyCouple
  <2>3. C!Courting(o)
    BY <2>1 DEF C!Courting
  <2>4. QED
    BY <1>3, <2>2, <2>3 DEF C!Die, LostBond
<1>4. QED
  BY <1>2, <1>3 DEF Touches

LEMMA CourtFromInit == Init => C!CourtInit
<1> SUFFICES ASSUME Init PROVE C!CourtInit
  OBVIOUS
<1>1. Couples = {}
  BY SeedsFields DEF Couples
<1>2. QED
  BY <1>1 DEF Init, C!CourtInit, Living

LEMMA CourtStep == PopulationInv /\ LinksIn(org) /\ [Next]_vars => [C!CourtNext]_(C!courtVars)
<1> DEFINE Goal == C!CourtNext \/ UNCHANGED C!courtVars
<1> SUFFICES ASSUME PopulationInv, LinksIn(org), [Next]_vars PROVE Goal
  OBVIOUS
<1>0. TypeOK /\ org \in Orgs /\ tally \in TallyType /\ Living \subseteq Ids
  BY DEF PopulationInv, TypeOK, Living
<1>1. ASSUME NEW w \in Living, NEW born \in BOOLEAN, Succeeds(w, born) PROVE Goal
  <2> DEFINE c == {w, org[w].partner}
  <2>1. c \in Couples /\ Couples' = Couples \ {c}
    BY <1>0, <1>1, CouplesPart DEF Succeeds
  <2>2. tally'.failed = tally.failed /\ tally'.completed = tally.completed + 1
    BY <1>1 DEF Succeeds
  <2>3. CASE born
    <3>1. nextId \in Ids \ Living /\ org'[nextId].state # "NONE"
      BY <1>1, <2>3, NewbornFields DEF Succeeds, Living, IsNew
    <3>2. \A x \in Ids : x # nextId => SameLife(org[x], org'[x])
      BY <1>1, <2>3 DEF Succeeds
    <3>3. Living' = Living \cup {nextId}
      BY <3>1, <3>2 DEF Living, Lives, SameLife
    <3>4. tally'.offspring = tally.offspring + 1
      BY <1>1, <2>3 DEF Succeeds
    <3>5. C!Succeed(c)
      BY <2>1, <2>2, <3>1, <3>3, <3>4 DEF C!Succeed
    <3>6. QED
      BY <2>1, <3>5 DEF C!CourtNext
  <2>4. CASE ~born
    <3>1. Living' = Living
      BY <1>1, <2>4 DEF Succeeds, Living, Lives, SameLife
    <3>2. tally'.offspring = tally.offspring
      BY <1>0, <1>1, <2>4 DEF Succeeds, TallyType
    <3>3. C!Succeed(c)
      BY <2>1, <2>2, <3>1, <3>2 DEF C!Succeed
    <3>4. QED
      BY <2>1, <3>3 DEF C!CourtNext
  <2>5. QED
    BY <2>3, <2>4
<1>2. ASSUME NEW a \in Ids, NEW b \in Ids, Begins(a, b) PROVE Goal
  <2>1. Living' = Living /\ {a, b} \subseteq Living
    BY <1>2 DEF Begins, Living, Lives, SameLife
  <2>2. org[a].partner = 0 /\ org[b].partner = 0 /\ a # b
    BY <1>2 DEF Begins
  <2>3. ~C!Courting(a) /\ ~C!Courting(b)
    BY <2>2, OnlyCouple DEF C!Courting
  <2>4. Couples' = Couples \cup {{a, b}}
    BY <1>2, CouplesBegin
  <2>5. C!Begin(a, b)
    BY <1>2, <2>1, <2>2, <2>3, <2>4 DEF C!Begin, Begins
  <2>6. QED
    BY <2>5 DEF C!CourtNext
<1>3. ASSUME NEW o \in Ids, Touches(org', tally', o), nextId' = nextId PROVE Goal
  <2>1. \A x \in Ids : x # o => (x \in Living' <=> x \in Living)
    BY <1>3 DEF Touches, Moved, SameLife, Living, Lives
  <2>2. CASE Living' = Living
    <3>1. CASE SamePairs(org') /\ SameBonds(tally')
      BY <2>2, <3>1, CouplesStay DEF SameBonds, C!courtVars
    <3>2. CASE Parted(org', o) /\ LostBond(tally')
      <4> DEFINE c == {o, org[o].partner}
      <4>1. c \in Couples /\ Couples' = Couples \ {c}
        BY <3>2, CouplesPart DEF Parted
      <4>2. C!Separate(c)
        BY <2>2, <3>2, <4>1 DEF C!Separate, LostBond
      <4>3. QED
        BY <4>1, <4>2 DEF C!CourtNext
    <3>3. QED
      BY <1>3, <3>1, <3>2 DEF Touches
  <2>3. CASE Living' # Living
    <3>1. ~SameLife(org[o], org'[o]) /\ (o \in Living' <=> o \notin Living)
      BY <2>1, <2>3 DEF SameLife, Living, Lives
    <3>2. AllEvolve
      BY <1>0, <3>1, StepsEvolve, DeliverStands, AccountStands DEF Stands
    <3>3. Removed(org[o], org'[o])
      <4>1. ~Survives(org[o], org'[o])
        <5>1. org'[o].state # "NONE" <=> org[o].state = "NONE"
          BY <3>1 DEF Living, Lives
        <5>2. QED
          BY <5>1 DEF Survives, LifeStep, SameState, Sleeps, Awakens, GoesOff, ComesBack
      <4>2. ~IsBorn(o, org[o], org'[o])
        <5>1. ~(o = nextId /\ Lives(o)')
          BY <1>0, <1>3, PopulationStep DEF PopulationInv, PopulationBalances
        <5>2. QED
          BY <5>1, NewbornFields DEF IsBorn, Lives
      <4>3. QED
        BY <3>2, <4>1, <4>2 DEF AllEvolve, Evolves
    <3>4. o \in Living /\ org'[o].partner = 0
      BY <3>3 DEF Removed, Removable, Living, Lives, Nobody
    <3>5. Living' = Living \ {o}
      BY <2>1, <3>1, <3>4 DEF Living
    <3>6. C!Die(o)
      BY <1>0, <1>3, <3>4, <3>5, DeathCourts
    <3>7. QED
      BY <1>3, <3>6 DEF C!CourtNext
  <2>4. QED
    BY <2>2, <2>3
<1>4. CASE CourtshipEnds
  BY <1>1, <1>4, EndsSucceed
<1>5. CASE ~CourtshipEnds
  <2>1. nextId' = nextId
    BY <1>5, NextIdFlow
  <2>2. QED
    BY <1>1, <1>2, <1>3, <2>1, StepsCourt DEF OneTouched
<1>6. QED
  BY <1>4, <1>5

\* Courtship is a matching of the living: two single organisms begin, a couple
\* ends once and on both sides together, with a success, a separation or a
\* death, and only a success brings an offspring, which takes a new id.
THEOREM CourtshipIsKept == Spec => KeepsCourtship
<1> DEFINE Inv == PopulationInv /\ LinksIn(org)
<1>1. Init => Inv
  BY PopulationInit, LinksInit
<1>2. Inv /\ [Next]_vars => Inv'
  <2>1. LinksIn(org)' = LinksIn(org')
    BY DEF LinksIn, LinkIn
  <2>2. QED
    BY <2>1, PopulationStep, LinksStep
<1>3. Inv /\ [Next]_vars => [C!CourtNext]_(C!courtVars)
  BY CourtStep
<1> HIDE DEF Inv
<1>4. QED
  BY <1>1, <1>2, <1>3, CourtFromInit, PTL DEF Spec, KeepsCourtship, C!CourtSpec

(***************************************************************************)
(* What is saved can be loaded                                             *)
(***************************************************************************)
\* A tick is begun only while ticks are left.
TimeLeft == tick <= TickCount /\ (pc \in TickPhases => tick < TickCount)

LEMMA TimeLeftStep == TypeOK /\ TimeLeft /\ [Next]_vars => TimeLeft'
<1> SUFFICES ASSUME TypeOK, TimeLeft, [Next]_vars PROVE TimeLeft'
  OBVIOUS
<1>0. tick \in Nat /\ TickCount \in Nat
  BY ConfigAssumption DEF TypeOK
<1>1. CASE StartTick
  BY <1>1 DEF StartTick, TimeLeft
<1>2. CASE Account
  BY <1>0, <1>2 DEF Account, Goto, TimeLeft, TickPhases
<1>3. CASE ~StartTick /\ ~Account
  <2>1. tick' = tick
    BY <1>3, ClockFlow DEF clock
  <2>2. pc' \in TickPhases => pc \in TickPhases
    BY <1>3, PhaseOrder DEF TickPhases
  <2>3. QED
    BY <2>1, <2>2 DEF TimeLeft
<1>4. QED
  BY <1>1, <1>2, <1>3

\* The loader counts each couple at the slot of its lower id.
LEMMA CouplesCounted ==
    PopulationInv /\ LinksIn(org) =>
        Cardinality({j \in DOMAIN slots :
                        org[slots[j]].partner # 0 /\ slots[j] < org[slots[j]].partner})
            = Cardinality(Couples)
<1> DEFINE S == {j \in DOMAIN slots :
                    org[slots[j]].partner # 0 /\ slots[j] < org[slots[j]].partner}
           F == [j \in S |-> {slots[j], org[slots[j]].partner}]
<1> SUFFICES ASSUME PopulationInv, LinksIn(org) PROVE Cardinality(S) = Cardinality(Couples)
  OBVIOUS
<1>0. /\ slots \in Seq(Ids) /\ Ids \subseteq Nat
      /\ \A i, j \in DOMAIN slots : slots[i] = slots[j] => i = j
      /\ {slots[j] : j \in DOMAIN slots} = Living
  BY MaxIdType DEF PopulationInv, TypeOK, ArrayHoldsTheLiving, Ids
<1>1. IsFiniteSet(S)
  <2>1. DOMAIN slots = 1..Len(slots) /\ 1 \in Int /\ Len(slots) \in Int
    BY <1>0
  <2>2. IsFiniteSet(DOMAIN slots)
    BY <2>1, FS_Interval
  <2>3. QED
    BY <2>2, FS_Subset
<1>2. F \in [S -> Couples]
  BY <1>0 DEF Couples
<1>3. ASSUME NEW i \in S, NEW j \in S, F[i] = F[j] PROVE i = j
  <2> DEFINE x == slots[i]
             y == slots[j]
             p == org[x].partner
             q == org[y].partner
  <2>a. x \in Ids /\ y \in Ids /\ p # 0 /\ q # 0 /\ x < p /\ y < q
    BY <1>0
  <2>b. p \in Nat /\ q \in Nat /\ x \in Nat /\ y \in Nat
    BY <1>0, <2>a DEF LinksIn, LinkIn
  <2>c. {x, p} = {y, q}
    BY <1>3
  <2> HIDE DEF x, y, p, q
  <2>d. (x = y /\ p = q) \/ (x = q /\ p = y)
    BY <2>c
  <2>2. x = y
    BY <2>a, <2>b, <2>d
  <2> USE DEF x, y
  <2>3. QED
    BY <1>0, <2>2
<1>4. ASSUME NEW c \in Couples PROVE \E j \in S : F[j] = c
  <2>1. PICK x \in Ids : org[x].partner # 0 /\ c = {x, org[x].partner}
    BY DEF Couples
  <2> DEFINE y == org[x].partner
  <2>2. y \in Ids /\ y # x /\ org[y].partner = x /\ x # 0 /\ x \in Nat /\ y \in Nat
    BY <1>0, <2>1, MaxIdType DEF LinksIn, LinkIn, Ids
  <2>3. x \in Living /\ y \in Living
    BY <2>1, <2>2 DEF LinksIn, LinkIn, Living, Lives
  <2>4. PICK i \in DOMAIN slots, j \in DOMAIN slots : slots[i] = x /\ slots[j] = y
    BY <1>0, <2>3
  <2>5. CASE x < y
    BY <2>1, <2>4, <2>5
  <2>6. CASE y < x
    <3>1. j \in S /\ F[j] = {y, x}
      BY <2>2, <2>4, <2>6
    <3>2. QED
      BY <2>1, <3>1
  <2>7. x < y \/ y < x
    <3> HIDE DEF y
    <3>1. QED
      BY <2>2
  <2>8. QED
    BY <2>5, <2>6, <2>7
<1>5. F \in Bijection(S, Couples)
  BY <1>2, <1>3, <1>4 DEF Bijection, Injection, Surjection, IsInjective
<1>6. ExistsBijection(S, Couples)
  BY <1>5 DEF ExistsBijection
<1>7. QED
  BY <1>1, <1>6, FS_Bijection

LEMMA SavedLoads ==
    ASSUME OrganismInv, LinksIn(org), CourtshipsBalance, CapacityHolds, TimeLeft
    PROVE  SavedIsLoadable
<1> SUFFICES ASSUME pc \in {"periodic", "idle", "done"}, SaveAccepts PROVE LoadAccepts
  BY DEF SavedIsLoadable
<1>0. /\ PopulationInv /\ slots \in Seq(Ids) /\ org \in Orgs /\ tick \in Nat /\ date \in Dates
      /\ nextId \in Nat /\ Ids \subseteq Nat
      /\ \A i, j \in DOMAIN slots : slots[i] = slots[j] => i = j
      /\ OffMax \in Nat /\ TickCount \in Nat /\ Cap \in Nat
  <2>1. OffMax \in Nat /\ TickCount \in Nat /\ Cap \in Nat
    BY ConfigAssumption
  <2>2. QED
    BY <2>1, MaxIdType DEF OrganismInv, PopulationInv, TypeOK, ArrayHoldsTheLiving, Ids
<1>1. Len(slots) <= Cap
  BY <1>0 DEF CapacityHolds
<1>2. ASSUME NEW j \in DOMAIN slots
      PROVE  LET o == slots[j]  r == org[o] IN
             /\ r.sound /\ o < nextId /\ r.birth <= tick /\ r.reward = r.bio
             /\ IF r.state = "OFF" THEN r.backOn > tick /\ r.backOn <= TickCount + OffMax
                ELSE r.backOn = 0
             /\ r.roll \in 0..date.year
             /\ r.wins <= r.attempts /\ r.changes <= r.executions
             /\ OriginValid(o, r.origin)
             /\ CourtshipValid(o)
             /\ \A l \in 1..(j - 1) : slots[l] # o
  <2> DEFINE o == slots[j]
             r == org[o]
  <2>1. o \in Ids /\ o \in Living /\ r.state # "NONE" /\ r \in OrgType
    BY <1>0, SlotsLive DEF Orgs
  <2>2. Sane(o, r) /\ StateValid(r) /\ CourtshipValid(o)
    BY <2>1 DEF OrganismInv, SaveAccepts
  <2>3. o < nextId
    <3>1. o \in Nat /\ Lives(o)
      BY <1>0, <2>1 DEF Lives
    <3> HIDE DEF o
    <3>2. QED
      BY <1>0, <2>1, <3>1 DEF PopulationInv, PopulationBalances
  <2>4. /\ r.backOn \in Nat /\ r.birth \in Nat /\ r.age \in Nat /\ r.roll \in 0..LastYear
        /\ r.wins \in Nat /\ r.attempts \in Nat
    BY <2>1 DEF OrgType
  <2>5. r.birth <= tick /\ r.reward = r.bio
    BY <1>0, <2>1, <2>2, <2>4 DEF Sane, AgeSane
  <2>6. IF r.state = "OFF" THEN r.backOn > tick /\ r.backOn <= TickCount + OffMax
        ELSE r.backOn = 0
    BY <1>0, <2>2, <2>4 DEF Sane, TimerSane, StateValid, TimeLeft
  <2>7. r.roll \in 0..date.year
    <3>1. r.roll \in Nat /\ date.year \in Nat
      BY <1>0, <2>4, LastYearType DEF Dates
    <3>2. QED
      BY <2>2, <3>1 DEF Sane, RollSane
  <2>8. r.wins <= r.attempts
    BY <2>2, <2>4 DEF Sane, BondSane
  <2>9. r.sound
    BY <2>2 DEF StateValid
  <2>10. \A l \in 1..(j - 1) : slots[l] # o
    BY <1>0
  <2>11. r.changes <= r.executions /\ OriginValid(o, r.origin)
    BY <2>2 DEF Sane, RunsSane, OriginSane
  <2>12. QED
    BY <2>2, <2>3, <2>5, <2>6, <2>7, <2>8, <2>9, <2>10, <2>11
<1>3. tally.active =
        Cardinality({j \in DOMAIN slots :
                        org[slots[j]].partner # 0 /\ slots[j] < org[slots[j]].partner})
  BY <1>0, CouplesCounted DEF CourtshipsBalance
<1>4. QED
  BY <1>1, <1>2, <1>3 DEF LoadAccepts, SaveAccepts, TimeLeft

\* A world that save accepts at the end of a tick is one that load accepts,
\* however it came about: what the loader asks beyond the saver, of timers,
\* ages, rolls, attempts, the capacity and the number of couples, holds of
\* every world that the program can be in then.
THEOREM SavedWorldsLoad == Spec => []SavedIsLoadable
<1> DEFINE Inv == OrganismInv /\ BalanceInv /\ CapacityHolds /\ TimeLeft
<1>1. Init => Inv
  <2>1. Init => TimeLeft
    BY ConfigAssumption DEF Init, TimeLeft, TickPhases
  <2>2. QED
    BY <2>1, OrganismInit, BalanceInit, CapacityInit
<1>2. Inv /\ [Next]_vars => Inv'
  BY OrganismStep, BalanceStep, CapacityStep, TimeLeftStep DEF OrganismInv, PopulationInv
<1>3. Inv => SavedIsLoadable
  BY SavedLoads DEF BalanceInv
<1> HIDE DEF Inv
<1>4. QED
  BY <1>1, <1>2, <1>3, PTL DEF Spec

=============================================================================
