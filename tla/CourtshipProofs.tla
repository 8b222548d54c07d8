-------------------------- MODULE CourtshipProofs ---------------------------
(***************************************************************************)
(* Proof that courtship links are always reciprocal.  An operation first   *)
(* cancels the courtship of the organism it changes and then changes it;   *)
(* an organism without a link has nobody pointing to it, so that it may be *)
(* changed, removed or replaced without leaving a dangling link.           *)
(***************************************************************************)
EXTENDS SubstrateProofs

\* CourtshipValid, of organism o in organisms f.
LinkIn(f, o) ==
    IF f[o].partner = 0 THEN f[o].progress = 0 /\ ~f[o].hears
    ELSE LET p == f[o].partner IN
         /\ p \in Ids /\ p # o /\ f[p].partner = o
         /\ f[o].state = "AWAKE" /\ f[p].state = "AWAKE"
         /\ f[o].progress = f[p].progress

LinksIn(f) == \A o \in Ids : LinkIn(f, o)

LEMMA LinksAreReciprocal == ASSUME org \in Orgs PROVE LinksReciprocal <=> LinksIn(org)
<1>1. ASSUME NEW o \in Ids PROVE CourtshipValid(o) <=> LinkIn(org, o)
  BY MaxIdType DEF CourtshipValid, LinkIn, Reciprocal, Living, Lives
<1>2. QED
  BY <1>1 DEF LinksReciprocal, LinksIn

(***************************************************************************)
(* Operators that keep the links                                           *)
(***************************************************************************)
\* An update that touches no state, partner or progress keeps the links.
LEMMA SameLinks ==
    ASSUME NEW f, NEW g, LinksIn(f),
           \A x \in Ids : /\ g[x].state = f[x].state
                          /\ g[x].partner = f[x].partner
                          /\ g[x].progress = f[x].progress
                          /\ g[x].hears => f[x].hears
    PROVE  LinksIn(g)
BY DEF LinksIn, LinkIn

LEMMA TouchLinks ==
    ASSUME NEW f \in Orgs, LinksIn(f), NEW o \in Ids, NEW r \in OrgType,
           r.state = f[o].state, r.partner = f[o].partner,
           r.progress = f[o].progress, r.hears = f[o].hears
    PROVE  [f EXCEPT ![o] = r] \in Orgs /\ LinksIn([f EXCEPT ![o] = r])
<1> DEFINE g == [f EXCEPT ![o] = r]
<1>1. g \in Orgs /\ \A x \in Ids : g[x] = IF x = o THEN r ELSE f[x]
  BY DEF Orgs
<1> HIDE DEF g
<1>2. LinksIn(g)
  BY <1>1, SameLinks
<1>3. QED
  BY <1>1, <1>2 DEF g

LEMMA SingleLink ==
    ASSUME NEW r \in OrgType
    PROVE  /\ Single(r).partner = 0 /\ Single(r).progress = 0 /\ ~Single(r).hears
           /\ Single(r).state = r.state
BY Zenon DEF Single, OrgType

LEMMA CancelLinks ==
    ASSUME NEW f \in Orgs, LinksIn(f), NEW o \in Ids
    PROVE  LinksIn(CancelIn(f, o)) /\ CancelIn(f, o)[o].partner = 0
<1>1. CASE f[o].partner = 0
  BY <1>1 DEF CancelIn
<1>2. CASE f[o].partner # 0
  <2> DEFINE p == f[o].partner
             g == CancelIn(f, o)
  <2>1. p \in Ids /\ f[p].partner = o
    BY <1>2 DEF LinksIn, LinkIn
  <2>2. \A x \in Ids : g[x] = IF x = o \/ x = p THEN Single(f[x]) ELSE f[x]
    BY <1>2, <2>1 DEF CancelIn
  <2>3. \A x \in Ids : f[x] \in OrgType
    BY DEF Orgs
  <2>4. \A x \in Ids : x # o /\ x # p => f[x].partner # o /\ f[x].partner # p
    BY <2>1, MaxIdType DEF LinksIn, LinkIn, Ids
  <2> HIDE DEF p, g
  <2>5. ASSUME NEW x \in Ids PROVE LinkIn(g, x)
    <3>1. CASE x = o \/ x = p
      BY <2>2, <2>3, <3>1, SingleLink DEF LinkIn
    <3>2. CASE x # o /\ x # p
      BY <2>2, <2>4, <3>2 DEF LinkIn, LinksIn
    <3>3. QED
      BY <3>1, <3>2
  <2>6. g[o].partner = 0
    BY <2>2, <2>3, SingleLink
  <2>7. QED
    BY <2>5, <2>6 DEF LinksIn, g
<1>3. QED
  BY <1>1, <1>2

\* An organism without a link can be replaced by another one without one.
LEMMA ReplaceUnlinked ==
    ASSUME NEW f \in Orgs, LinksIn(f), NEW o \in Ids, f[o].partner = 0,
           NEW r, r.partner = 0, r.progress = 0, ~r.hears
    PROVE  LinksIn([f EXCEPT ![o] = r])
<1> DEFINE g == [f EXCEPT ![o] = r]
<1>1. \A x \in Ids : g[x] = IF x = o THEN r ELSE f[x]
  BY DEF Orgs
<1>2. \A x \in Ids : f[x].partner # o
  BY MaxIdType DEF LinksIn, LinkIn, Ids
<1> HIDE DEF g
<1>3. ASSUME NEW x \in Ids PROVE LinkIn(g, x)
  BY <1>1, <1>2 DEF LinksIn, LinkIn
<1>4. QED
  BY <1>3 DEF LinksIn, g

LEMMA RemoveAtLinks ==
    ASSUME slots \in Seq(Ids), NEW f \in Orgs, LinksIn(f), NEW c,
           NEW k \in DOMAIN slots, RemoveAt(f, c, k)
    PROVE  LinksIn(org')
<1>1. slots[k] \in Ids
  OBVIOUS
<1>2. /\ CancelIn(f, slots[k]) \in Orgs /\ LinksIn(CancelIn(f, slots[k]))
      /\ CancelIn(f, slots[k])[slots[k]].partner = 0
  BY <1>1, CancelInType, CancelLinks
<1>3. Nobody.partner = 0 /\ Nobody.progress = 0 /\ ~Nobody.hears
  BY DEF Nobody
<1>4. QED
  BY <1>1, <1>2, <1>3, ReplaceUnlinked DEF RemoveAt

LEMMA TransitionInLinks ==
    ASSUME NEW f \in Orgs, LinksIn(f), NEW o \in Ids, NEW to \in LifeStates,
           NEW d \in Nat, tick \in Nat, to = "AWAKE" => f[o].state # "AWAKE"
    PROVE  LinksIn(TransitionIn(f, o, to, d))
<1>1. CASE to = "AWAKE"
  <2> DEFINE r == [f[o] EXCEPT !.state = to, !.backOn = 0, !.lastAwake = tick]
  <2>1. f[o].partner = 0 /\ f[o].progress = 0 /\ ~f[o].hears /\ f[o] \in OrgType
    BY <1>1 DEF LinksIn, LinkIn, Orgs
  <2>2. r.partner = f[o].partner /\ r.progress = f[o].progress /\ r.hears = f[o].hears
    BY <2>1, Zenon DEF OrgType
  <2>3. TransitionIn(f, o, to, d) = [f EXCEPT ![o] = r]
    BY <1>1 DEF TransitionIn, Orgs
  <2> HIDE DEF r
  <2>4. r.partner = 0 /\ r.progress = 0 /\ ~r.hears
    BY <2>1, <2>2
  <2>5. LinksIn([f EXCEPT ![o] = r])
    BY <2>1, <2>4, ReplaceUnlinked, Zenon
  <2>6. QED
    BY <2>3, <2>5
<1>2. CASE to # "AWAKE"
  <2> DEFINE g == CancelIn(f, o)
             t == IF to = "OFF" THEN tick + ClampOff(d) ELSE 0
             r == [g[o] EXCEPT !.state = to, !.backOn = t]
  <2>1. g \in Orgs /\ LinksIn(g) /\ g[o].partner = 0
    BY CancelInType, CancelLinks
  <2>2. g[o].progress = 0 /\ ~g[o].hears /\ g[o] \in OrgType
    BY <2>1 DEF LinksIn, LinkIn, Orgs
  <2>3. TransitionIn(f, o, to, d) = [g EXCEPT ![o] = Quiet(r)]
    BY <1>2, <2>1 DEF TransitionIn, Orgs
  <2> HIDE DEF g, t
  <2>4. r \in OrgType /\ r.partner = 0 /\ r.progress = 0
    <3>1. t \in Nat
      BY ClampOffType DEF t
    <3>2. QED
      BY <2>1, <2>2, <3>1 DEF OrgType, LifeStates
  <2> HIDE DEF r
  <2>5. Quiet(r).partner = 0 /\ Quiet(r).progress = 0 /\ ~Quiet(r).hears
    BY <2>4, Zenon DEF Quiet, OrgType
  <2>6. LinksIn([g EXCEPT ![o] = Quiet(r)])
    BY <2>1, <2>5, ReplaceUnlinked, Zenon
  <2>7. QED
    BY <2>3, <2>6
<1>3. QED
  BY <1>1, <1>2

LEMMA AwakeRunLinks ==
    ASSUME org \in Orgs, LinksIn(org), NEW o \in Ids, NEW consents \in BOOLEAN,
           NEW v \in Outcomes
    PROVE  LinksIn(AwakeRun(o, consents, v)) /\ AwakeRun(o, consents, v)[o].state = org[o].state
<1> DEFINE r == [Updated(org[o], v) EXCEPT !.consent = consents, !.sent = TRUE]
<1>1. /\ r.state = org[o].state /\ r.partner = org[o].partner
      /\ r.progress = org[o].progress /\ r.hears = org[o].hears
  <2>1. org[o] \in OrgType
    BY DEF Orgs
  <2>2. QED
    BY <2>1, Zenon DEF OrgType, Updated
<1>2. AwakeRun(o, consents, v) = [org EXCEPT ![o] = r]
  BY DEF AwakeRun, Orgs
<1> HIDE DEF r
<1>3. QED
  BY <1>1, <1>2, SameLinks DEF Orgs

LEMMA AsleepRunLinks ==
    ASSUME org \in Orgs, LinksIn(org), NEW o \in Ids, NEW v \in Outcomes
    PROVE  LinksIn(AsleepRun(o, v)) /\ AsleepRun(o, v)[o].state = org[o].state
<1> DEFINE r == Updated(Quiet(org[o]), v)
<1>1. /\ r.state = org[o].state /\ r.partner = org[o].partner
      /\ r.progress = org[o].progress /\ ~r.hears
  <2>1. org[o] \in OrgType
    BY DEF Orgs
  <2>2. QED
    BY <2>1, Zenon DEF OrgType, Quiet, Updated
<1>2. AsleepRun(o, v) = [org EXCEPT ![o] = r]
  BY DEF AsleepRun, Orgs
<1> HIDE DEF r
<1>3. QED
  BY <1>1, <1>2, SameLinks DEF Orgs

LEMMA AttemptedSame ==
    ASSUME org \in Orgs, NEW a, NEW b, NEW x \in Ids
    PROVE  /\ Attempted(a, b)[x].state = org[x].state
           /\ Attempted(a, b)[x].partner = org[x].partner
           /\ Attempted(a, b)[x].progress = org[x].progress
           /\ Attempted(a, b)[x].hears = org[x].hears
<1>1. org[x] \in OrgType
  BY DEF Orgs
<1> DEFINE r == [org[x] EXCEPT !.attempts = @ + 1]
<1>2. /\ r.state = org[x].state /\ r.partner = org[x].partner
      /\ r.progress = org[x].progress /\ r.hears = org[x].hears
  BY <1>1, Zenon DEF OrgType
<1>3. Attempted(a, b)[x] = r \/ Attempted(a, b)[x] = org[x]
  BY DEF Attempted
<1> HIDE DEF r
<1>4. QED
  BY <1>2, <1>3

\* Two single awake organisms are linked to each other.
LEMMA TryBirthLinks ==
    ASSUME org \in Orgs, LinksIn(org), NEW a \in Ids, NEW b \in Ids, NEW granted,
           TryBirth(a, b, granted)
    PROVE  LinksIn(org')
<1> DEFINE f == Attempted(a, b)
<1>1. f \in Orgs /\ LinksIn(f)
  BY AttemptedType, AttemptedSame, SameLinks
<1>2. CASE granted /\ MayPair(a, b)
  <2> DEFINE ra == [f[a] EXCEPT !.partner = b, !.progress = 0]
             rb == [f[b] EXCEPT !.partner = a, !.progress = 0]
  <2>1. f[a].partner = 0 /\ f[b].partner = 0 /\ a # b
    BY <1>2, AttemptedSame DEF MayPair
  <2>2. f[a].state = "AWAKE" /\ f[b].state = "AWAKE"
    BY <1>2, AttemptedSame DEF MayPair, Eligible
  <2>3. /\ ra.partner = b /\ ra.progress = 0 /\ ra.state = f[a].state
        /\ rb.partner = a /\ rb.progress = 0 /\ rb.state = f[b].state
    <3>1. f[a] \in OrgType /\ f[b] \in OrgType
      BY <1>1 DEF Orgs
    <3>2. QED
      BY <3>1, Zenon DEF OrgType
  <2>4. org' = [f EXCEPT ![a] = ra, ![b] = rb]
    BY <1>1, <1>2, <2>1 DEF TryBirth, Orgs
  <2> HIDE DEF f, ra, rb
  <2>5. \A x \in Ids : org'[x] = IF x = a THEN ra ELSE IF x = b THEN rb ELSE f[x]
    BY <1>1, <2>1, <2>4 DEF Orgs
  <2>6. \A x \in Ids : f[x].partner # a /\ f[x].partner # b
    BY <1>1, <2>1, MaxIdType DEF LinksIn, LinkIn, Ids
  <2>7. a # 0 /\ b # 0
    BY MaxIdType DEF Ids
  <2>8. ASSUME NEW x \in Ids PROVE LinkIn(org', x)
    <3>1. CASE x = a \/ x = b
      BY <2>1, <2>2, <2>3, <2>5, <2>7, <3>1 DEF LinkIn
    <3>2. CASE x # a /\ x # b
      BY <1>1, <2>5, <2>6, <3>2 DEF LinkIn, LinksIn
    <3>3. QED
      BY <3>1, <3>2
  <2>9. QED
    BY <2>8 DEF LinksIn
<1>3. CASE ~(granted /\ MayPair(a, b))
  BY <1>1, <1>3 DEF TryBirth
<1>4. QED
  BY <1>2, <1>3

LEMMA ProgressedLinks ==
    ASSUME org \in Orgs, LinksIn(org), NEW o \in Living, MayCourt(o)
    PROVE  LinksIn(Progressed(o))
<1> DEFINE p == org[o].partner
           n == org[o].progress + 1
           g == Progressed(o)
<1>1. o \in Ids /\ p \in Ids /\ p # 0 /\ o # 0 /\ org[p].partner = o
  BY MaxIdType DEF MayCourt, Reciprocal, Living, Ids
<1>2. ASSUME NEW x \in Ids
      PROVE  /\ g[x].state = org[x].state /\ g[x].partner = org[x].partner
             /\ x = o \/ x = p => g[x].progress = n
             /\ x # o /\ x # p => g[x] = org[x]
  <2> DEFINE r == [org[x] EXCEPT !.hears = TRUE, !.progress = n]
  <2>1. org[x] \in OrgType
    BY DEF Orgs
  <2>2. r.state = org[x].state /\ r.partner = org[x].partner /\ r.progress = n
    <3> HIDE DEF n
    <3>1. QED
      BY <2>1, Zenon DEF OrgType
  <2>3. g[x] = IF x = o \/ x = p THEN r ELSE org[x]
    BY DEF Progressed
  <2> HIDE DEF g, r
  <2>4. QED
    BY <2>2, <2>3
<1> HIDE DEF g, n
<1>3. ASSUME NEW x \in Ids PROVE LinkIn(g, x)
  <2>1. CASE x = o \/ x = p
    BY <1>1, <1>2, <2>1 DEF LinksIn, LinkIn
  <2>2. CASE x # o /\ x # p
    BY <1>1, <1>2, <2>2 DEF LinksIn, LinkIn
  <2>3. QED
    BY <2>1, <2>2
<1>4. QED
  BY <1>3 DEF LinksIn, g

\* Both sides of a completed courtship are single again, and the newborn
\* takes an id that nobody ever pointed to.
LEMMA CompletedLinks ==
    ASSUME org \in Orgs, LinksIn(org), NEW o \in Living, NEW born \in BOOLEAN, NEW m,
           MayCourt(o), nextId \in Ids => ~Lives(nextId), tick \in Nat
    PROVE  LinksIn(Completed(o, born, m))
<1> DEFINE p == org[o].partner
           g == Completed(o, born, m)
           newborn == Newborn(tick, Descent(o, p, m))
<1>1. o \in Ids /\ p \in Ids /\ p # 0 /\ o # 0 /\ org[p].partner = o
  BY MaxIdType DEF MayCourt, Reciprocal, Living, Ids
<1>2. \A x \in Ids : x # o /\ x # p => org[x].partner # o /\ org[x].partner # p
  BY <1>1 DEF LinksIn, LinkIn
<1>3. \A x \in Ids : nextId \in Ids => org[x].partner # nextId
  BY MaxIdType DEF LinksIn, LinkIn, Lives, Ids
<1>4. ASSUME NEW x \in Ids
      PROVE  /\ x = o \/ x = p => g[x].partner = 0 /\ g[x].progress = 0 /\ ~g[x].hears
             /\ x # o /\ x # p => g[x] = IF born /\ x = nextId THEN newborn ELSE org[x]
  <2> DEFINE n == Single(org[x]).wins + (IF born THEN 1 ELSE 0)
             r == [Single(org[x]) EXCEPT !.wins = n]
  <2>1. org[x] \in OrgType
    BY DEF Orgs
  <2>2. Single(org[x]) \in OrgType
    BY <2>1, SingleType
  <2>3. r.partner = 0 /\ r.progress = 0 /\ ~r.hears
    <3> HIDE DEF n
    <3>1. QED
      BY <2>1, <2>2, SingleLink, Zenon DEF OrgType
  <2>4. g[x] = IF x = o \/ x = p THEN r
               ELSE IF born /\ x = nextId THEN newborn ELSE org[x]
    BY DEF Completed
  <2> HIDE DEF g, r
  <2>5. QED
    BY <2>3, <2>4
<1>5. newborn.partner = 0 /\ newborn.progress = 0 /\ ~newborn.hears
  BY NewbornFields
<1> HIDE DEF g, p, newborn
<1>6. ASSUME NEW x \in Ids PROVE LinkIn(g, x)
  <2>1. CASE x = o \/ x = p
    BY <1>4, <2>1 DEF LinkIn
  <2>2. CASE x # o /\ x # p /\ born /\ x = nextId
    BY <1>4, <1>5, <2>2 DEF LinkIn
  <2>3. CASE x # o /\ x # p /\ ~(born /\ x = nextId)
    <3>1. g[x] = org[x] /\ LinkIn(org, x)
      BY <1>4, <2>3 DEF LinksIn
    <3>2. CASE org[x].partner = 0
      BY <3>1, <3>2 DEF LinkIn
    <3>3. CASE org[x].partner # 0
      <4> DEFINE y == org[x].partner
      <4>1. y \in Ids /\ y # o /\ y # p /\ y # nextId
        BY <1>2, <1>3, <2>3, <3>1, <3>3 DEF LinkIn
      <4>2. g[y] = org[y]
        BY <1>4, <4>1
      <4>3. QED
        BY <3>1, <3>3, <4>1, <4>2 DEF LinkIn
    <3>4. QED
      BY <3>2, <3>3
  <2>4. QED
    BY <2>1, <2>2, <2>3
<1>7. QED
  BY <1>6 DEF LinksIn, g

LEMMA SettleLinks ==
    ASSUME TypeOK, NEW o, NEW state, AtWork(o, state), NEW f \in Orgs, LinksIn(f),
           NEW c, Settle(o, f, c)
    PROVE  LinksIn(org')
<1>1. slots \in Seq(Ids) /\ idx \in DOMAIN slots
  BY DEF TypeOK, AtWork
<1>2. QED
  BY <1>1, RemoveAtLinks DEF Settle

LEMMA AccountedKeepsLink ==
    ASSUME NEW r \in OrgType
    PROVE  /\ Accounted(r).state = r.state /\ Accounted(r).partner = r.partner
           /\ Accounted(r).progress = r.progress /\ Accounted(r).hears = r.hears
<1> DEFINE awake == IF r.state = "AWAKE" THEN tick ELSE r.lastAwake
           age == r.age + 1
           bio == r.bio + AgeRate(r)
           reward == r.reward + AgeRate(r)
<1>1. Accounted(r) = [r EXCEPT !.age = age, !.bio = bio, !.reward = reward,
                               !.lastAwake = awake]
  BY DEF Accounted
<1> HIDE DEF awake, age, bio, reward
<1>2. QED
  BY <1>1, Zenon DEF OrgType

(***************************************************************************)
(* Every step keeps the links                                              *)
(***************************************************************************)
LEMMA ScansLinks ==
    TypeOK /\ LinksIn(org) /\ (ReturnFromOff \/ FoolAwake \/ FoolAsleep \/ DormancyTimeout)
        => LinksIn(org')
<1> SUFFICES ASSUME TypeOK, LinksIn(org),
                    ReturnFromOff \/ FoolAwake \/ FoolAsleep \/ DormancyTimeout
             PROVE  LinksIn(org')
  OBVIOUS
<1>0. /\ org \in Orgs /\ slots \in Seq(Ids) /\ tick \in Nat /\ idx \in Nat \ {0}
      /\ Here \subseteq DOMAIN slots
  BY DEF TypeOK, Here
<1>1. CASE ReturnFromOff
  <2>1. PICK j \in Expired : org' = TransitionIn(org, slots[j], "ASLEEP", 0)
    BY <1>1 DEF ReturnFromOff, Transition
  <2>2. slots[j] \in Ids /\ "ASLEEP" \in LifeStates /\ 0 \in Nat
    BY <1>0 DEF Expired, LifeStates
  <2>3. QED
    BY <1>0, <2>1, <2>2, TransitionInLinks
<1>2. CASE FoolAwake \/ DormancyTimeout
  <2>1. PICK j \in Here : RemoveAt(org, tally, j)
    BY <1>2 DEF FoolAwake, DormancyTimeout, Judged, Dormant
  <2>2. QED
    BY <1>0, <2>1, RemoveAtLinks
<1>3. CASE FoolAsleep
  <2> DEFINE rolled(j) == [org EXCEPT ![slots[j]].roll = date.year]
  <2>1. PICK j \in Here : org' = rolled(j) \/ RemoveAt(rolled(j), tally, j)
    BY <1>3 DEF FoolAsleep, Judged
  <2>2. slots[j] \in Ids
    BY <1>0
  <2> DEFINE r == [org[slots[j]] EXCEPT !.roll = date.year]
             s == org[slots[j]]
  <2>3. /\ r \in OrgType /\ r.state = s.state /\ r.partner = s.partner
        /\ r.progress = s.progress /\ r.hears = s.hears
    <3>1. s \in OrgType /\ date.year \in 0..LastYear
      BY <1>0, <2>2, LastYearType DEF Orgs, TypeOK, Dates
    <3>2. QED
      BY <3>1, Zenon DEF OrgType
  <2>4. rolled(j) = [org EXCEPT ![slots[j]] = r]
    BY <1>0 DEF Orgs
  <2> HIDE DEF rolled, r
  <2>5. [org EXCEPT ![slots[j]] = r] \in Orgs /\ LinksIn([org EXCEPT ![slots[j]] = r])
    BY <1>0, <2>2, <2>3, TouchLinks
  <2>6. rolled(j) \in Orgs /\ LinksIn(rolled(j))
    BY <2>4, <2>5
  <2>7. QED
    BY <1>0, <2>1, <2>6, RemoveAtLinks
<1>4. QED
  BY <1>1, <1>2, <1>3

LEMMA ExecutesLinks ==
    TypeOK /\ LinksIn(org) /\ (Executes \/ InvalidDies) => LinksIn(org')
<1> SUFFICES ASSUME TypeOK, LinksIn(org), Executes \/ InvalidDies
             PROVE  LinksIn(org')
  OBVIOUS
<1>0. /\ org \in Orgs /\ slots \in Seq(Ids) /\ tick \in Nat
      /\ Living \subseteq Ids
      /\ {"AWAKE", "ASLEEP", "OFF"} = LifeStates
  BY DEF TypeOK, Living, LifeStates
<1>1. CASE InvalidDies
  <2>1. idx \in DOMAIN slots /\ RemoveAt(org, tally, idx)
    BY <1>1 DEF TypeOK, InvalidDies
  <2>2. QED
    BY <1>0, <2>1, RemoveAtLinks
<1>2. CASE ExecuteOff
  <2>1. PICK o \in Living : AtWork(o, "OFF") /\ Settle(o, [org EXCEPT ![o].sent = FALSE], tally)
    BY <1>2 DEF ExecuteOff
  <2> DEFINE r == [org[o] EXCEPT !.sent = FALSE]
  <2>2. /\ r \in OrgType /\ r.state = org[o].state /\ r.partner = org[o].partner
        /\ r.progress = org[o].progress /\ r.hears = org[o].hears
    <3>1. org[o] \in OrgType
      BY <1>0 DEF Orgs
    <3>2. QED
      BY <3>1, Zenon DEF OrgType
  <2>3. [org EXCEPT ![o].sent = FALSE] = [org EXCEPT ![o] = r]
    BY <1>0 DEF Orgs
  <2> HIDE DEF r
  <2>4. [org EXCEPT ![o] = r] \in Orgs /\ LinksIn([org EXCEPT ![o] = r])
    BY <1>0, <2>2, TouchLinks
  <2>5. QED
    BY <2>1, <2>3, <2>4, SettleLinks
<1>3. CASE StayAwake
  <2>1. PICK o \in Living, consents \in BOOLEAN, v \in Outcomes :
            AtWork(o, "AWAKE") /\ Settle(o, AwakeRun(o, consents, v), tally)
    BY <1>3 DEF StayAwake
  <2>2. AwakeRun(o, consents, v) \in Orgs /\ LinksIn(AwakeRun(o, consents, v))
    BY <1>0, AwakeRunType, AwakeRunLinks
  <2>3. QED
    BY <2>1, <2>2, SettleLinks
<1>4. CASE FallAsleep
  <2>1. PICK o \in Living, v \in Outcomes :
            /\ AtWork(o, "AWAKE")
            /\ Settle(o, TransitionIn(AwakeRun(o, FALSE, v), o, "ASLEEP", 0),
                         TransitionTally(AwakeRun(o, FALSE, v), tally, o, "ASLEEP"))
    BY <1>4 DEF FallAsleep
  <2>2. AwakeRun(o, FALSE, v) \in Orgs /\ LinksIn(AwakeRun(o, FALSE, v))
    BY <1>0, AwakeRunType, AwakeRunLinks
  <2>3. /\ TransitionIn(AwakeRun(o, FALSE, v), o, "ASLEEP", 0) \in Orgs
        /\ LinksIn(TransitionIn(AwakeRun(o, FALSE, v), o, "ASLEEP", 0))
    BY <1>0, <2>2, TransitionInType, TransitionInLinks
  <2>4. QED
    BY <2>1, <2>3, SettleLinks
<1>5. ASSUME NEW o \in Living, NEW v \in Outcomes, AtWork(o, "ASLEEP"),
             NEW to \in LifeStates, NEW d \in Nat
      PROVE  /\ AsleepRun(o, v) \in Orgs /\ LinksIn(AsleepRun(o, v))
             /\ TransitionIn(AsleepRun(o, v), o, to, d) \in Orgs
             /\ LinksIn(TransitionIn(AsleepRun(o, v), o, to, d))
  <2>1. AsleepRun(o, v) \in Orgs /\ LinksIn(AsleepRun(o, v))
        /\ AsleepRun(o, v)[o].state # "AWAKE"
    BY <1>0, <1>5, AsleepRunType, AsleepRunLinks DEF AtWork
  <2>2. QED
    BY <1>0, <2>1, TransitionInType, TransitionInLinks
<1>6. CASE Doze
  <2>1. PICK o \in Living, v \in Outcomes :
            AtWork(o, "ASLEEP") /\ Settle(o, AsleepRun(o, v), tally)
    BY <1>6 DEF Doze
  <2>2. AsleepRun(o, v) \in Orgs /\ LinksIn(AsleepRun(o, v))
    BY <1>0, AsleepRunType, AsleepRunLinks
  <2>3. QED
    BY <2>1, <2>2, SettleLinks
<1>7. CASE SwitchOff
  <2>1. PICK o \in Living, v \in Outcomes, d \in OffMin..OffMax :
            /\ AtWork(o, "ASLEEP")
            /\ Settle(o, TransitionIn(AsleepRun(o, v), o, "OFF", d),
                         TransitionTally(AsleepRun(o, v), tally, o, "OFF"))
    BY <1>7 DEF SwitchOff
  <2>2. d \in Nat /\ "OFF" \in LifeStates
    BY <1>0, ConfigAssumption
  <2>3. QED
    BY <1>5, <2>1, <2>2, SettleLinks
<1>8. CASE WakeUp
  <2>1. PICK o \in Living, v \in Outcomes :
            /\ AtWork(o, "ASLEEP")
            /\ \/ RemoveAt(TransitionIn(AsleepRun(o, v), o, "AWAKE", 0), tally, idx)
               \/ Settle(o, TransitionIn(AsleepRun(o, v), o, "AWAKE", 0), tally)
    BY <1>8 DEF WakeUp
  <2>2. "AWAKE" \in LifeStates /\ 0 \in Nat /\ idx \in DOMAIN slots
    BY <1>0, <2>1 DEF TypeOK, AtWork
  <2>3. QED
    BY <1>0, <1>5, <2>1, <2>2, SettleLinks, RemoveAtLinks
<1>9. QED
  BY <1>1, <1>2, <1>3, <1>4, <1>6, <1>7, <1>8 DEF Executes

LEMMA RestLinks ==
    TypeOK /\ LinksIn(org) /\ (\A x \in Ids : x >= nextId => ~Lives(x))
        /\ (Deliver \/ Courts \/ EvictOldest \/ Pair \/ Account \/ Host) => LinksIn(org')
<1> SUFFICES ASSUME TypeOK, LinksIn(org), \A x \in Ids : x >= nextId => ~Lives(x),
                    Deliver \/ Courts \/ EvictOldest \/ Pair \/ Account \/ Host
             PROVE  LinksIn(org')
  OBVIOUS
<1>0. /\ org \in Orgs /\ slots \in Seq(Ids) /\ tick \in Nat /\ Living \subseteq Ids
      /\ \A x \in Ids : org[x] \in OrgType
  BY DEF TypeOK, Living, Orgs
<1>1. CASE Deliver
  <2>1. ASSUME NEW x \in Ids, NEW i
        PROVE  /\ [org[x] EXCEPT !.inbox = i].state = org[x].state
               /\ [org[x] EXCEPT !.inbox = i].partner = org[x].partner
               /\ [org[x] EXCEPT !.inbox = i].progress = org[x].progress
               /\ [org[x] EXCEPT !.inbox = i].hears = org[x].hears
    <3>1. org[x] \in OrgType
      BY <1>0
    <3>2. QED
      BY <3>1, Zenon DEF OrgType
  <2>2. ASSUME NEW x \in Ids
        PROVE  /\ org'[x].state = org[x].state /\ org'[x].partner = org[x].partner
               /\ org'[x].progress = org[x].progress /\ org'[x].hears = org[x].hears
    BY <1>1, <2>1 DEF Deliver
  <2>3. QED
    BY <2>2, SameLinks
<1>2. CASE CourtshipFails
  <2>1. PICK o \in Living : org' = CancelIn(org, o)
    BY <1>2 DEF CourtshipFails
  <2>2. QED
    BY <1>0, <2>1, CancelLinks
<1>3. CASE CourtshipGoesOn
  <2>1. PICK o \in Living : MayCourt(o) /\ org' = Progressed(o)
    BY <1>3 DEF CourtshipGoesOn
  <2>2. QED
    BY <1>0, <2>1, ProgressedLinks
<1>4. CASE CourtshipEnds
  <2>1. PICK o \in Living, born \in BOOLEAN, m \in Mutations : MayCourt(o) /\ org' = Completed(o, born, m)
    BY <1>4 DEF CourtshipEnds
  <2>2. nextId \in Ids => ~Lives(nextId)
    BY MaxIdType DEF TypeOK, Ids
  <2>3. QED
    BY <1>0, <2>1, <2>2, CompletedLinks
<1>5. CASE EvictOldest
  <2>1. PICK j \in DOMAIN slots : RemoveAt(org, tally, j)
    BY <1>5 DEF EvictOldest
  <2>2. QED
    BY <1>0, <2>1, RemoveAtLinks
<1>6. CASE Pair \/ HostTryBirth
  <2>1. PICK a, b \in Ids, granted \in BOOLEAN : TryBirth(a, b, granted)
    BY <1>0, <1>6 DEF Pair, HostTryBirth
  <2>2. QED
    BY <1>0, <2>1, TryBirthLinks
<1>7. CASE Account
  <2>1. ASSUME NEW x \in Ids
        PROVE  /\ Accounted(org[x]).state = org[x].state
               /\ Accounted(org[x]).partner = org[x].partner
               /\ Accounted(org[x]).progress = org[x].progress
               /\ Accounted(org[x]).hears = org[x].hears
    BY <1>0, AccountedKeepsLink
  <2>2. ASSUME NEW x \in Ids
        PROVE  /\ org'[x].state = org[x].state /\ org'[x].partner = org[x].partner
               /\ org'[x].progress = org[x].progress /\ org'[x].hears = org[x].hears
    BY <1>7, <2>1 DEF Account
  <2>3. QED
    BY <2>2, SameLinks
<1>8. CASE HostTransition
  <2>1. PICK o \in Living, to \in LifeStates, d \in {0, OffMax + 1} :
            TransitionAllowed(o, to) /\ org' = TransitionIn(org, o, to, d)
    BY <1>8 DEF HostTransition, Transition
  <2>2. d \in Nat /\ (to = "AWAKE" => org[o].state # "AWAKE")
    BY <2>1, ConfigAssumption DEF TransitionAllowed
  <2>3. QED
    BY <1>0, <2>1, <2>2, TransitionInLinks
<1>9. CASE HostSpoils
  <2>1. PICK o \in Living : org' = [org EXCEPT ![o].sound = FALSE]
    BY <1>9 DEF HostSpoils
  <2> DEFINE r == [org[o] EXCEPT !.sound = FALSE]
  <2>2. /\ r \in OrgType /\ r.state = org[o].state /\ r.partner = org[o].partner
        /\ r.progress = org[o].progress /\ r.hears = org[o].hears
    <3>1. org[o] \in OrgType
      BY <1>0
    <3>2. QED
      BY <3>1, Zenon DEF OrgType
  <2>3. org' = [org EXCEPT ![o] = r]
    BY <1>0, <2>1 DEF Orgs
  <2> HIDE DEF r
  <2>4. QED
    BY <1>0, <2>2, <2>3, TouchLinks
<1>10. QED
  BY <1>1, <1>2, <1>3, <1>4, <1>5, <1>6, <1>7, <1>8, <1>9 DEF Courts, Host

LEMMA LinksInit == Init => LinksIn(org)
<1> SUFFICES ASSUME Init, NEW x \in Ids PROVE LinkIn(org, x)
  BY DEF LinksIn
<1>1. CASE x <= 2
  <2>1. PICK m \in 0..GenomeCount : org[x] = Newborn(0, Seed(m))
    BY <1>1, SeedsInit
  <2>2. QED
    BY <2>1, NewbornFields DEF LinkIn
<1>2. CASE ~(x <= 2)
  BY <1>2, SeedsInit DEF LinkIn, Nobody
<1>3. QED
  BY <1>1, <1>2

LEMMA LinksStep == PopulationInv /\ LinksIn(org) /\ [Next]_vars => LinksIn(org')
<1> SUFFICES ASSUME PopulationInv, LinksIn(org), [Next]_vars
             PROVE  LinksIn(org')
  OBVIOUS
<1>1. TypeOK /\ \A x \in Ids : x >= nextId => ~Lives(x)
  BY DEF PopulationInv, PopulationBalances
<1>2. (Passes \/ StartTick \/ Terminated \/ UNCHANGED vars) => org' = org
  BY PassesLeavesWorld DEF StartTick, Terminated, vars, world
<1>3. QED
  BY <1>1, <1>2, ScansLinks, ExecutesLinks, RestLinks
     DEF Next, Step, Passes, Executes, Courts

\* Every link points to a living, awake organism that points back with the
\* same progress, whatever deaths, evictions, sleep, births and calls of the
\* public API come between: no dangling and no one-sided courtship.
THEOREM LinksStayReciprocal == Spec => []LinksReciprocal
<1> DEFINE Inv == PopulationInv /\ LinksIn(org)
<1>1. Init => Inv
  BY PopulationInit, LinksInit
<1>2. Inv /\ [Next]_vars => Inv'
  <2>1. LinksIn(org)' = LinksIn(org')
    BY DEF LinksIn, LinkIn
  <2>2. QED
    BY <2>1, PopulationStep, LinksStep
<1>3. Inv => LinksReciprocal
  BY LinksAreReciprocal DEF PopulationInv, TypeOK
<1> HIDE DEF Inv
<1>4. QED
  BY <1>1, <1>2, <1>3, PTL DEF Spec

=============================================================================
