-------------------------- MODULE ExperimentProofs --------------------------
(***************************************************************************)
(* Proofs about crashes, resumes and the log, for every set of             *)
(* configurations and paths, every history of the world, and any number of *)
(* commands. First the checkpoints: whole, resumed exactly, and written    *)
(* last; then the types, for which the list of records of a loop must be a *)
(* list; that the log only grows; that saves implement Durable; that what  *)
(* is recorded has been committed; and that a segment of the log tells the *)
(* population.                                                             *)
(***************************************************************************)
EXTENDS Experiment, FiniteSetTheorems, SequenceTheorems, TLAPS

(***************************************************************************)
(* Worlds and images                                                       *)
(***************************************************************************)
\* A world has the fields that alife_world_load restores, and no others.
IsWorld(w) ==
    w = [rules |-> w.rules, tick |-> w.tick, rng |-> w.rng, alive |-> w.alive,
         nextId |-> w.nextId, births |-> w.births, deaths |-> w.deaths]

\* w is the world of an uninterrupted run of cfg at its tick.
OnCourse(w, cfg) ==
    /\ w.tick \in 0..cfg.ticks /\ w.rules = cfg.rules
    /\ w = History[cfg.rules][w.tick]

\* What a checkpoint at p is.
Exact(image, p) ==
    /\ image = Image(image.of, image.world)
    /\ image.of \in ConfigType /\ image.of.path = p
    /\ OnCourse(image.world, image.of)

LEMMA HistoryIsOfWorlds ==
    ASSUME NEW r \in Rules, NEW t \in 0..LastTick PROVE IsWorld(History[r][t])
<1>1. CASE t = 0
  <2>1. History[r][t] = Seeds(r)
    BY <1>1, HistoryAssumption
  <2>2. QED
    BY <2>1 DEF IsWorld, Seeds
<1>2. CASE t # 0
  <2>1. t - 1 \in 0..LastTick - 1 /\ (t - 1) + 1 = t
    BY <1>2, BoundAssumption
  <2>2. History[r][t] = Evolve(History[r][t - 1])
    BY <2>1, HistoryAssumption
  <2>3. QED
    BY <2>2 DEF IsWorld, Evolve
<1>3. QED
  BY <1>1, <1>2

LEMMA NextInHistory ==
    ASSUME NEW cfg \in ConfigType, NEW w, OnCourse(w, cfg), w.tick < cfg.ticks
    PROVE  OnCourse(Evolve(w), cfg) /\ Evolve(w).tick = w.tick + 1
<1>1. w.tick \in 0..LastTick - 1 /\ cfg.ticks \in 1..LastTick /\ LastTick \in Nat
      /\ cfg.rules \in Rules
  BY BoundAssumption DEF OnCourse, ConfigType
<1>2. History[cfg.rules][w.tick + 1] = Evolve(w)
  BY <1>1, HistoryAssumption DEF OnCourse
<1>3. Evolve(w).tick = w.tick + 1 /\ Evolve(w).rules = w.rules
  BY DEF Evolve
<1>4. QED
  BY <1>1, <1>2, <1>3 DEF OnCourse

\* The fingerprint makes up for what a checkpoint does not hold.
LEMMA RestoredIsSame ==
    ASSUME NEW image, NEW p, Exact(image, p), NEW cfg, image.of = cfg
    PROVE  Restored(image, cfg) = image.world
<1>1. /\ image.world.tick \in 0..LastTick /\ cfg.rules \in Rules
      /\ image.world = History[cfg.rules][image.world.tick]
      /\ image.world.rules = cfg.rules
  BY BoundAssumption DEF Exact, OnCourse, ConfigType
<1>2. IsWorld(image.world)
  BY <1>1, HistoryIsOfWorlds
<1>3. QED
  BY <1>1, <1>2 DEF IsWorld, Restored

LEMMA SeedsOnCourse ==
    ASSUME NEW cfg \in ConfigType
    PROVE  OnCourse(Seeds(cfg.rules), cfg) /\ Seeds(cfg.rules).tick < cfg.ticks
BY BoundAssumption, HistoryAssumption DEF OnCourse, Seeds, ConfigType

LEMMA EffectiveType ==
    ASSUME NEW c \in Configs, NEW given \in Paths \cup {None}
    PROVE  /\ Effective(c, given) \in ConfigType
           /\ given # None => Effective(c, given).path = given
BY ConfigsAssumption, Zenon DEF Effective, ConfigType

(***************************************************************************)
(* The inductive invariant                                                 *)
(***************************************************************************)
\* Disk and memory: checkpoints are exact, the process is on course, and what
\* is about to replace a checkpoint is the whole world.
CourseInv ==
    /\ cmd.cfg \in ConfigType
    /\ DOMAIN files = Paths /\ DOMAIN temps = Paths
    /\ \A p \in Paths : files[p] # None => Exact(files[p], p)
    /\ pc # "shell" => OnCourse(world, cmd.cfg)
    /\ pc = "rename" => temps[cmd.cfg.path] = Image(cmd.cfg, world)

SavedHere == files[cmd.cfg.path] = Image(cmd.cfg, world)
Ended == world.tick = cmd.cfg.ticks
DueAtEnd == Due(cmd.cfg.ticks, cmd.cfg.interval)

\* The way to the last save: where each step of a command that has not failed
\* stands with respect to the end and to the checkpoint.
LastSaveInv ==
    /\ pc = "run" => ~failed /\ ~final /\ (Ended /\ DueAtEnd => SavedHere)
    /\ pc \in {"save", "write", "rename", "record"} => ~failed /\ (final => Ended)
    /\ pc = "record" => SavedHere
    /\ pc = "stop" /\ ~failed =>
           Ended /\ ((cmd.given /\ ~cmd.resume) \/ DueAtEnd => SavedHere)
    /\ FinalStateSaved

ExperimentInv == CourseInv /\ LastSaveInv

LEMMA InvInit == Init => ExperimentInv
<1> SUFFICES ASSUME Init PROVE ExperimentInv
  OBVIOUS
<1>1. cmd.cfg \in ConfigType
  BY ConfigsAssumption DEF Init
<1>2. QED
  BY <1>1 DEF Init, ExperimentInv, CourseInv, LastSaveInv, FinalStateSaved

LEMMA RunKeepsInv ==
    ASSUME ExperimentInv, NEW c \in Configs, NEW given \in Paths \cup {None},
           Run(c, given)
    PROVE  ExperimentInv'
<1>1. /\ cmd'.cfg \in ConfigType /\ UNCHANGED <<files, temps>>
      /\ world' = Seeds(cmd'.cfg.rules) /\ pc' = "run" /\ ~failed' /\ ~final'
  BY EffectiveType DEF Run, Launch, onDisk
<1>2. OnCourse(world', cmd'.cfg) /\ world'.tick < cmd'.cfg.ticks
  BY <1>1, SeedsOnCourse
<1>3. ~Ended'
  BY <1>1, <1>2, BoundAssumption DEF Ended, OnCourse, ConfigType
<1>4. QED
  BY <1>1, <1>2, <1>3
     DEF ExperimentInv, CourseInv, LastSaveInv, FinalStateSaved, OnCourse

LEMMA ResumeKeepsInv ==
    ASSUME ExperimentInv, NEW c \in Configs, NEW given \in Paths,
           Resume(c, given)
    PROVE  ExperimentInv'
<1>1. /\ cmd'.cfg \in ConfigType /\ UNCHANGED <<files, temps>>
      /\ cmd'.cfg.path = given
      /\ world' = Restored(files[given], cmd'.cfg) /\ Loadable(files[given], cmd'.cfg)
      /\ pc' = "run" /\ ~failed' /\ ~final'
  BY EffectiveType, ConfigsAssumption DEF Resume, Launch, onDisk
<1>2. Exact(files[given], given) /\ files[given].of = cmd'.cfg
  BY <1>1 DEF ExperimentInv, CourseInv, Loadable
<1>3. world' = files[given].world
  BY <1>1, <1>2, RestoredIsSame
<1>4. OnCourse(world', cmd'.cfg)
  BY <1>2, <1>3 DEF Exact
<1>5. SavedHere'
  BY <1>1, <1>2, <1>3 DEF SavedHere, Exact
<1>6. QED
  BY <1>1, <1>4, <1>5
     DEF ExperimentInv, CourseInv, LastSaveInv, FinalStateSaved, OnCourse

LEMMA StepKeepsInv ==
    ASSUME ExperimentInv, Step
    PROVE  ExperimentInv'
<1>1. /\ UNCHANGED <<files, temps, cmd, final, failed>>
      /\ pc = "run" /\ world.tick < cmd.cfg.ticks /\ world' = Evolve(world)
      /\ pc' = IF Due(world'.tick, cmd.cfg.interval) THEN "save" ELSE "run"
  BY DEF Step, onDisk
<1>2. OnCourse(world', cmd.cfg)
  BY <1>1, NextInHistory DEF ExperimentInv, CourseInv
<1>3. pc' = "run" => ~(Ended' /\ DueAtEnd')
  BY <1>1 DEF Ended, DueAtEnd
<1>4. QED
  BY <1>1, <1>2, <1>3
     DEF ExperimentInv, CourseInv, LastSaveInv, FinalStateSaved, OnCourse

LEMMA RunEndsKeepsInv ==
    ASSUME ExperimentInv, RunEnds
    PROVE  ExperimentInv'
<1>1. /\ UNCHANGED <<files, temps, cmd, world, failed>>
      /\ pc = "run" /\ world.tick >= cmd.cfg.ticks
      /\ final' = FinalSaveDue /\ pc' = IF FinalSaveDue THEN "save" ELSE "stop"
  BY DEF RunEnds, onDisk
<1>2. Ended
  BY <1>1, BoundAssumption DEF Ended, ExperimentInv, CourseInv, OnCourse, ConfigType
<1>3. ~FinalSaveDue /\ ((cmd.given /\ ~cmd.resume) \/ DueAtEnd) => SavedHere
  BY <1>1, <1>2 DEF FinalSaveDue, DueAtEnd, Ended, ExperimentInv, LastSaveInv
<1>4. CourseInv'
  BY <1>1 DEF ExperimentInv, CourseInv, OnCourse
<1>5. LastSaveInv'
  BY <1>1, <1>2, <1>3
     DEF ExperimentInv, LastSaveInv, FinalStateSaved, Ended, DueAtEnd, SavedHere
<1>6. QED
  BY <1>4, <1>5 DEF ExperimentInv

\* The steps that change no checkpoint and not the world of the process.
LEMMA SavingKeepsInv ==
    ASSUME ExperimentInv,
           SaveRefused \/ OpenTemporary \/ WriteTemporary \/ WriteFails \/ LogCheckpoint
    PROVE  ExperimentInv'
<1>1. /\ UNCHANGED <<files, cmd, world, final>> /\ DOMAIN temps' = DOMAIN temps
      /\ pc \in {"save", "write", "rename", "record"} /\ pc' # "shell"
  BY DEF SaveRefused, OpenTemporary, WriteTemporary, WriteFails, LogCheckpoint, onDisk
<1>2. pc' = "rename" => temps'[cmd.cfg.path] = Image(cmd.cfg, world)
  BY DEF SaveRefused, OpenTemporary, WriteTemporary, WriteFails, LogCheckpoint,
         ExperimentInv, CourseInv, ConfigType
<1>3. CourseInv'
  BY <1>1, <1>2 DEF ExperimentInv, CourseInv, OnCourse
<1>4. LastSaveInv'
  BY <1>1 DEF SaveRefused, OpenTemporary, WriteTemporary, WriteFails, LogCheckpoint,
         ExperimentInv, LastSaveInv, FinalStateSaved, Ended, DueAtEnd, SavedHere
<1>5. QED
  BY <1>3, <1>4 DEF ExperimentInv

LEMMA ReplaceKeepsInv ==
    ASSUME ExperimentInv, Replace
    PROVE  ExperimentInv'
<1>1. cmd.cfg \in ConfigType /\ cmd.cfg.path \in Paths
  BY DEF ExperimentInv, CourseInv, ConfigType
<1>2. /\ UNCHANGED <<cmd, world, final, failed>>
      /\ pc = "rename" /\ pc' = "record"
      /\ files' = [files EXCEPT ![cmd.cfg.path] = Image(cmd.cfg, world)]
      /\ DOMAIN temps' = DOMAIN temps
  BY DEF Replace, ExperimentInv, CourseInv
<1>3. Exact(Image(cmd.cfg, world), cmd.cfg.path)
  BY <1>1, <1>2 DEF Exact, Image, ExperimentInv, CourseInv
<1>4. \A p \in Paths : files'[p] # None => Exact(files'[p], p)
  BY <1>1, <1>2, <1>3 DEF ExperimentInv, CourseInv
<1>5. SavedHere'
  BY <1>1, <1>2 DEF SavedHere, ExperimentInv, CourseInv
<1>6. CourseInv'
  BY <1>1, <1>2, <1>4 DEF ExperimentInv, CourseInv, OnCourse
<1>7. LastSaveInv'
  BY <1>2, <1>5 DEF ExperimentInv, LastSaveInv, FinalStateSaved, Ended
<1>8. QED
  BY <1>6, <1>7 DEF ExperimentInv

LEMMA DestroyKeepsInv ==
    ASSUME ExperimentInv, Destroy
    PROVE  ExperimentInv'
<1>1. /\ UNCHANGED <<files, temps, cmd, final, failed>>
      /\ pc = "stop" /\ pc' = "shell"
  BY DEF Destroy, onDisk
<1>2. FinalStateSaved'
  BY <1>1 DEF FinalStateSaved, ExperimentInv, CourseInv, LastSaveInv, OnCourse,
         Ended, DueAtEnd, SavedHere
<1>3. QED
  BY <1>1, <1>2 DEF ExperimentInv, CourseInv, LastSaveInv

\* The other ways to the shell end a command that failed.
LEMMA FailureKeepsInv ==
    ASSUME ExperimentInv, /\ cmd'.cfg \in ConfigType /\ UNCHANGED <<files, temps>>
                          /\ pc' = "shell" /\ failed'
    PROVE  ExperimentInv'
BY DEF ExperimentInv, CourseInv, LastSaveInv, FinalStateSaved

LEMMA StutterKeepsInv ==
    ASSUME ExperimentInv, UNCHANGED vars
    PROVE  ExperimentInv'
BY DEF ExperimentInv, CourseInv, LastSaveInv, FinalStateSaved, OnCourse, Ended,
       DueAtEnd, SavedHere, vars

LEMMA InvKept == ExperimentInv /\ [Next]_vars => ExperimentInv'
<1> SUFFICES ASSUME ExperimentInv, [Next]_vars PROVE ExperimentInv'
  OBVIOUS
<1>1. ASSUME Process PROVE ExperimentInv'
  BY <1>1, StepKeepsInv, RunEndsKeepsInv, SavingKeepsInv, ReplaceKeepsInv,
     DestroyKeepsInv DEF Process
<1>2. ASSUME User PROVE ExperimentInv'
  <2>1. ASSUME NEW c \in Configs, NEW given \in Paths, ResumeRefused(c, given)
        PROVE  ExperimentInv'
    <3>1. cmd'.cfg \in ConfigType
      BY <2>1, EffectiveType DEF ResumeRefused, Launch
    <3>2. QED
      BY <2>1, <3>1, FailureKeepsInv DEF ResumeRefused, Launch, onDisk
  <2>2. QED
    BY <1>2, <2>1, RunKeepsInv, ResumeKeepsInv DEF User
<1>3. ASSUME Crash PROVE ExperimentInv'
  BY <1>3, FailureKeepsInv DEF Crash, onDisk, ExperimentInv, CourseInv
<1>4. ASSUME UNCHANGED vars PROVE ExperimentInv'
  BY <1>4, StutterKeepsInv
<1>5. QED
  BY <1>1, <1>2, <1>3, <1>4 DEF Next, Over

(***************************************************************************)
(* The theorems                                                            *)
(***************************************************************************)
\* Wherever processes die and saves fail, what stands at a checkpoint path is a
\* whole checkpoint of the world that an uninterrupted run has at its tick.
THEOREM CheckpointsStayWhole == Spec => []CheckpointIsWhole
<1>1. ExperimentInv => CheckpointIsWhole
  BY DEF ExperimentInv, CourseInv, CheckpointIsWhole, Exact, Image, OnCourse
<1>2. QED
  BY InvInit, InvKept, <1>1, PTL DEF Spec

\* After any crashes and resumes a process is where an uninterrupted run would
\* be: alife_world_load loses nothing that the next step depends on.
THEOREM ResumesAreExact == Spec => []ResumeIsExact
<1>1. ExperimentInv => ResumeIsExact
  BY DEF ExperimentInv, CourseInv, ResumeIsExact, OnCourse
<1>2. QED
  BY InvInit, InvKept, <1>1, PTL DEF Spec

\* A successful run with --checkpoint, and any successful command whose tick
\* count is on the schedule, leaves its last state at the checkpoint path.
THEOREM LastStateIsSaved == Spec => []FinalStateSaved
<1>1. ExperimentInv => FinalStateSaved
  BY DEF ExperimentInv, LastSaveInv
<1>2. QED
  BY InvInit, InvKept, <1>1, PTL DEF Spec


(***************************************************************************)
(* Numbers in ascending order                                              *)
(***************************************************************************)
\* The members of ids up to x.
UpTo(ids, x) == {y \in ids : y <= x}

\* The place of x among ids: it maps ids one to one to 1..Cardinality(ids).
LEMMA RanksAreABijection ==
    ASSUME NEW ids \in SUBSET Nat, IsFiniteSet(ids),
           NEW rank, rank = [x \in ids |-> Cardinality(UpTo(ids, x))]
    PROVE  /\ rank \in Surjection(ids, 1..Cardinality(ids))
           /\ \A x, y \in ids : x < y => rank[x] < rank[y]
<1>1. Cardinality(ids) \in Nat
  BY FS_CardinalityType
<1>2. ASSUME NEW x \in ids
      PROVE  /\ IsFiniteSet(UpTo(ids, x)) /\ Cardinality(UpTo(ids, x)) \in Nat
             /\ Cardinality(UpTo(ids, x)) \in 1..Cardinality(ids)
  <2>1. UpTo(ids, x) \in SUBSET ids /\ x \in UpTo(ids, x)
    BY DEF UpTo
  <2>2. IsFiniteSet(UpTo(ids, x)) /\ Cardinality(UpTo(ids, x)) <= Cardinality(ids)
    BY <2>1, FS_Subset
  <2>3. Cardinality(UpTo(ids, x)) \in Nat /\ Cardinality(UpTo(ids, x)) # 0
    BY <2>1, <2>2, FS_CardinalityType, FS_EmptySet
  <2>4. QED
    BY <1>1, <2>2, <2>3
<1>3. ASSUME NEW x \in ids, NEW y \in ids, x < y PROVE rank[x] < rank[y]
  <2>1. UpTo(ids, x) \in SUBSET UpTo(ids, y) /\ UpTo(ids, x) # UpTo(ids, y)
    <3>1. y \in UpTo(ids, y) /\ y \notin UpTo(ids, x)
      BY <1>3 DEF UpTo
    <3>2. \A z \in ids : z <= x => z <= y
      BY <1>3
    <3>3. QED
      BY <3>1, <3>2 DEF UpTo
  <2>2. /\ Cardinality(UpTo(ids, x)) <= Cardinality(UpTo(ids, y))
        /\ Cardinality(UpTo(ids, x)) # Cardinality(UpTo(ids, y))
    BY <1>2, <2>1, FS_Subset
  <2>3. QED
    BY <1>2, <2>2
<1>4. rank \in Injection(ids, 1..Cardinality(ids))
  <2>1. rank \in [ids -> 1..Cardinality(ids)]
    BY <1>2
  <2>2. \A x, y \in ids : rank[x] = rank[y] => x = y
    BY <1>1, <1>3, <2>1
  <2>3. QED
    BY <2>1, <2>2 DEF Injection, IsInjective
<1>5. IsFiniteSet(1..Cardinality(ids)) /\ Cardinality(1..Cardinality(ids)) = Cardinality(ids)
  BY <1>1, FS_Interval
<1>6. QED
  BY <1>3, <1>4, <1>5, FS_Injection

\* Every finite set of numbers has its ascending list.
LEMMA AscendingIsTheList ==
    ASSUME NEW ids \in SUBSET Nat, IsFiniteSet(ids)
    PROVE  /\ Cardinality(ids) \in Nat
           /\ Ascending(ids) \in [1..Cardinality(ids) -> ids]
           /\ \A i, j \in 1..Cardinality(ids) :
                  i < j => Ascending(ids)[i] < Ascending(ids)[j]
           /\ \A x \in ids : \E i \in 1..Cardinality(ids) : Ascending(ids)[i] = x
<1> DEFINE n == Cardinality(ids)
           rank == [x \in ids |-> Cardinality(UpTo(ids, x))]
           list == [i \in 1..n |-> CHOOSE x \in ids : rank[x] = i]
<1>1. n \in Nat
  BY FS_CardinalityType
<1>2. /\ rank \in Surjection(ids, 1..n)
      /\ \A x, y \in ids : x < y => rank[x] < rank[y]
  BY RanksAreABijection
<1> HIDE DEF rank, n
<1>3. rank \in [ids -> 1..n] /\ \A i \in 1..n : \E x \in ids : rank[x] = i
  BY <1>2 DEF Surjection
<1>4. list \in [1..n -> ids] /\ \A i \in 1..n : rank[list[i]] = i
  BY <1>3
<1> HIDE DEF list
<1>5. \A i, j \in 1..n : i < j => list[i] < list[j]
  <2>1. ASSUME NEW i \in 1..n, NEW j \in 1..n, i < j PROVE list[i] < list[j]
    <3>1. rank[list[i]] = i /\ rank[list[j]] = j /\ list[i] \in ids /\ list[j] \in ids
      BY <1>4
    <3>2. ~(list[j] < list[i]) /\ list[i] # list[j]
      <4>1. ~(j < i) /\ i # j
        BY <1>1, <2>1
      <4>2. list[j] < list[i] => rank[list[j]] < rank[list[i]]
        BY <1>2, <3>1
      <4>3. QED
        BY <3>1, <4>1, <4>2
    <3>3. list[i] \in Nat /\ list[j] \in Nat
      BY <3>1
    <3>4. QED
      BY <3>2, <3>3
  <2>2. QED
    BY <2>1
<1> DEFINE Sorted(s) == \A i, j \in DOMAIN s : i < j => s[i] < s[j]
<1>6. \E s \in [1..n -> ids] : Sorted(s)
  BY <1>4, <1>5
<1>7. Ascending(ids) \in [1..n -> ids] /\ Sorted(Ascending(ids))
  BY <1>6 DEF Ascending, n
<1>8. \A i, j \in 1..n : i < j => Ascending(ids)[i] < Ascending(ids)[j]
  BY <1>7
<1>9. Ascending(ids) \in Injection(1..n, ids)
  <2>1. ASSUME NEW i \in 1..n, NEW j \in 1..n, Ascending(ids)[i] = Ascending(ids)[j]
        PROVE  i = j
    <3>1. Ascending(ids)[i] \in Nat
      BY <1>7
    <3>2. ~(i < j) /\ ~(j < i)
      BY <1>8, <2>1, <3>1
    <3>3. QED
      BY <1>1, <3>2
  <2>2. QED
    BY <1>7, <2>1 DEF Injection, IsInjective
<1>10. Cardinality(1..n) = n
  BY <1>1, FS_Interval
<1>11. Ascending(ids) \in Surjection(1..n, ids)
  BY <1>9, <1>10, FS_Injection DEF n
<1>12. QED
  BY <1>1, <1>7, <1>8, <1>11 DEF Surjection, n

(***************************************************************************)
(* The records of the log                                                  *)
(***************************************************************************)
RecordType == [kind : Kinds, tick : Nat, id : Nat, path : Paths \cup {None}]

\* One record for each of ids, and for nobody else.
LEMMA AboutIsAList ==
    ASSUME NEW kind \in Kinds, NEW w, w.tick \in Nat,
           NEW ids \in SUBSET Nat, IsFiniteSet(ids)
    PROVE  /\ About(kind, w, ids) \in Seq(RecordType)
           /\ \A i \in 1..Len(About(kind, w, ids)) :
                  About(kind, w, ids)[i].kind = kind /\ About(kind, w, ids)[i].id \in ids
           /\ \A i, j \in 1..Len(About(kind, w, ids)) :
                  i < j => About(kind, w, ids)[i].id # About(kind, w, ids)[j].id
           /\ \A x \in ids : \E i \in 1..Len(About(kind, w, ids)) :
                  About(kind, w, ids)[i].id = x
<1> DEFINE n == Cardinality(ids)
           s == Ascending(ids)
           r == About(kind, w, ids)
<1>1. /\ n \in Nat /\ s \in [1..n -> ids]
      /\ \A i, j \in 1..n : i < j => s[i] < s[j]
      /\ \A x \in ids : \E i \in 1..n : s[i] = x
  BY AscendingIsTheList
<1>2. r = [i \in 1..n |-> Record(kind, w, s[i], None)]
  BY <1>1 DEF About
<1> HIDE DEF n, s, r
<1>3. \A i \in 1..n : /\ Record(kind, w, s[i], None) \in RecordType
                      /\ Record(kind, w, s[i], None).kind = kind
                      /\ Record(kind, w, s[i], None).id = s[i]
  BY <1>1 DEF Record, RecordType
<1>4. r \in Seq(RecordType) /\ Len(r) = n
  BY <1>1, <1>2, <1>3
<1>5. \A i \in 1..n : r[i].kind = kind /\ r[i].id = s[i]
  BY <1>2, <1>3
<1>6. \A i, j \in 1..n : i < j => s[i] # s[j]
  <2>1. \A i \in 1..n : s[i] \in Nat
    BY <1>1
  <2>2. QED
    BY <1>1, <2>1
<1>7. /\ \A i \in 1..n : r[i].kind = kind /\ r[i].id \in ids
      /\ \A i, j \in 1..n : i < j => r[i].id # r[j].id
      /\ \A x \in ids : \E i \in 1..n : r[i].id = x
  BY <1>1, <1>5, <1>6
<1>8. QED
  BY <1>4, <1>7 DEF r


(***************************************************************************)
(* What the log is, and what writing and losing make of it                 *)
(***************************************************************************)
IsLog(l) ==
    /\ l = [lines |-> l.lines, safe |-> l.safe, cut |-> l.cut, broken |-> l.broken]
    /\ l.lines \in Seq(RecordType)
    /\ l.safe \in 0..Len(l.lines) /\ l.cut \in BOOLEAN
    /\ l.cut => l.safe < Len(l.lines)
    /\ l.broken \subseteq 1..l.safe

\* m is l with the records r after it, and nothing that was safe is lost.
Adds(l, m, r) ==
    IsLog(m) /\ m.lines = l.lines \o r /\ IsPrefix(SafeLines(l), SafeLines(m))

LEMMA PrefixOfLonger ==
    ASSUME NEW S, NEW s \in Seq(S), NEW t \in Seq(S), NEW n \in 0..Len(s),
           NEW m \in n..Len(s \o t)
    PROVE  IsPrefix(SubSeq(s, 1, n), SubSeq(s \o t, 1, m))
BY DEF IsPrefix

LEMMA NoLogIsLog == IsLog(NoLog) /\ Len(NoLog.lines) = 0
BY DEF IsLog, NoLog

LEMMA FlushedAdds ==
    ASSUME NEW l, IsLog(l), NEW r \in Seq(RecordType)
    PROVE  Adds(l, Flushed(l, r), r)
<1> DEFINE m == Flushed(l, r)
<1>1. m = [lines |-> l.lines \o r, safe |-> Len(l.lines \o r), cut |-> FALSE,
           broken |-> l.broken]
  <2>1. l = [lines |-> l.lines, safe |-> l.safe, cut |-> l.cut, broken |-> l.broken]
    BY DEF IsLog
  <2>2. m = [l EXCEPT !.lines = l.lines \o r, !.safe = Len(l.lines \o r), !.cut = FALSE]
    BY DEF Flushed
  <2>3. QED
    BY <2>1, <2>2
<1>2. /\ m.lines = l.lines \o r /\ m.safe = Len(l.lines \o r) /\ m.cut = FALSE
      /\ m.broken = l.broken /\ m.cut \in BOOLEAN /\ ~m.cut
      /\ m = [lines |-> m.lines, safe |-> m.safe, cut |-> m.cut, broken |-> m.broken]
  BY <1>1
<1> HIDE DEF m
<1>3. l.lines \in Seq(RecordType) /\ l.safe \in 0..Len(l.lines) /\ l.broken \subseteq 1..l.safe
  BY DEF IsLog
<1>4. /\ l.lines \o r \in Seq(RecordType) /\ Len(l.lines \o r) \in Nat
      /\ Len(l.lines \o r) >= l.safe /\ Len(l.lines \o r) \in l.safe .. Len(l.lines \o r)
  BY <1>3
<1>5. l.broken \subseteq 1..Len(l.lines \o r)
  BY <1>3, <1>4
<1>6. IsLog(m)
  BY <1>2, <1>4, <1>5 DEF IsLog
<1>7. IsPrefix(SafeLines(l), SafeLines(m))
  BY <1>2, <1>3, <1>4, PrefixOfLonger DEF SafeLines
<1>8. QED
  BY <1>2, <1>6, <1>7 DEF Adds, m

LEMMA FprintfAdds ==
    ASSUME NEW l, IsLog(l), NEW r \in Seq(RecordType), NEW m \in Fprintf(l, r)
    PROVE  Adds(l, m, r)
<1> DEFINE all == l.lines \o r
<1>1. /\ l.lines \in Seq(RecordType) /\ l.safe \in 0..Len(l.lines) /\ l.broken \subseteq 1..l.safe
      /\ l = [lines |-> l.lines, safe |-> l.safe, cut |-> l.cut, broken |-> l.broken]
      /\ l.cut \in BOOLEAN /\ (l.cut => l.safe < Len(l.lines))
  BY DEF IsLog
<1>2. all \in Seq(RecordType) /\ Len(all) \in Nat /\ Len(all) >= Len(l.lines)
  BY <1>1
<1> HIDE DEF all
<1>3. /\ m = [lines |-> m.lines, safe |-> m.safe, cut |-> m.cut, broken |-> m.broken]
      /\ m.lines = all /\ m.broken = l.broken /\ m.cut \in BOOLEAN
      /\ \/ m.safe = l.safe /\ m.cut = l.cut
         \/ m.safe \in Len(l.lines) .. Len(all) - 1
  <2>1. CASE m = [l EXCEPT !.lines = all]
    <3>1. m = [lines |-> all, safe |-> l.safe, cut |-> l.cut, broken |-> l.broken]
      BY <1>1, <2>1
    <3>2. QED
      BY <1>1, <3>1
  <2>2. CASE m \in [lines : {all}, safe : Len(l.lines) .. Len(all) - 1,
                    cut : BOOLEAN, broken : {l.broken}]
    BY <2>2
  <2>3. \/ m = [l EXCEPT !.lines = all]
        \/ m \in [lines : {all}, safe : Len(l.lines) .. Len(all) - 1,
                  cut : BOOLEAN, broken : {l.broken}]
    BY DEF Fprintf, all
  <2>4. QED
    BY <2>1, <2>2, <2>3
<1>4. m.safe \in l.safe .. Len(all)
  BY <1>1, <1>2, <1>3
<1>5. m.cut => m.safe < Len(all)
  <2>1. CASE m.safe = l.safe /\ m.cut = l.cut
    <3>1. CASE l.cut
      BY <1>1, <1>2, <2>1, <3>1
    <3>2. CASE ~l.cut
      BY <2>1, <3>2
    <3>3. QED
      BY <3>1, <3>2
  <2>2. CASE m.safe \in Len(l.lines) .. Len(all) - 1
    BY <1>1, <1>2, <2>2
  <2>3. QED
    BY <1>3, <2>1, <2>2
<1>6. m.safe \in 0..Len(all) /\ l.broken \subseteq 1..m.safe
  BY <1>1, <1>2, <1>4
<1>7. IsLog(m)
  BY <1>2, <1>3, <1>5, <1>6 DEF IsLog
<1>8. IsPrefix(SafeLines(l), SafeLines(m))
  BY <1>1, <1>3, <1>4, PrefixOfLonger DEF SafeLines, all
<1>9. QED
  BY <1>3, <1>7, <1>8 DEF Adds, all

\* With the process goes the end of the log; what is left is safe.
LEMMA LostIsPrefix ==
    ASSUME NEW l, IsLog(l)
    PROVE  /\ IsLog(Lost(l)) /\ IsPrefix(SafeLines(l), SafeLines(Lost(l)))
           /\ \E n \in 0..Len(l.lines) : Lost(l).lines = SubSeq(l.lines, 1, n)
<1> DEFINE n == IF l.cut THEN l.safe + 1 ELSE l.safe
           m == Lost(l)
<1>1. /\ l.lines \in Seq(RecordType) /\ l.safe \in 0..Len(l.lines) /\ l.broken \subseteq 1..l.safe
      /\ l.cut \in BOOLEAN /\ (l.cut => l.safe < Len(l.lines))
  BY DEF IsLog
<1>2. n \in l.safe..Len(l.lines) /\ n \in 0..Len(l.lines)
  <2>1. CASE l.cut
    BY <1>1, <2>1
  <2>2. CASE ~l.cut
    BY <1>1, <2>2
  <2>3. QED
    BY <2>1, <2>2
<1>3. m.broken \subseteq 1..n
  <2>1. CASE l.cut
    BY <1>1, <2>1 DEF Lost
  <2>2. CASE ~l.cut
    BY <1>1, <2>2 DEF Lost
  <2>3. QED
    BY <2>1, <2>2
<1>4. /\ m = [lines |-> m.lines, safe |-> m.safe, cut |-> m.cut, broken |-> m.broken]
      /\ m.lines = SubSeq(l.lines, 1, n) /\ m.safe = n
      /\ m.cut \in BOOLEAN /\ ~m.cut
  BY DEF Lost
<1> HIDE DEF n, m
<1>5. SubSeq(l.lines, 1, n) \in Seq(RecordType) /\ Len(SubSeq(l.lines, 1, n)) = n
  BY <1>1, <1>2
<1>6. IsLog(m)
  BY <1>2, <1>3, <1>4, <1>5 DEF IsLog
<1>7. SubSeq(SubSeq(l.lines, 1, n), 1, n) = SubSeq(l.lines, 1, n)
  BY <1>1, <1>2, <1>5
<1>8. IsPrefix(SubSeq(l.lines, 1, l.safe), SubSeq(l.lines, 1, n))
  BY <1>1, <1>2 DEF IsPrefix
<1>9. IsPrefix(SafeLines(l), SafeLines(m))
  BY <1>4, <1>7, <1>8 DEF SafeLines
<1>10. QED
  BY <1>2, <1>4, <1>6, <1>9 DEF m


(***************************************************************************)
(* Worlds that a process can have                                          *)
(***************************************************************************)
\* The generator stands where the ticks have brought it, and the living are
\* among the ids given so far.
Sound(w) ==
    /\ w \in WorldType /\ w.rules \in Rules /\ w.rng = w.tick /\ w.nextId # 0
    /\ w.alive \subseteq 1 .. w.nextId - 1

LEMMA SeedsAreSound ==
    /\ \A r \in Rules : Sound(Seeds(r))
    /\ Blank \in WorldType
    /\ IsFiniteSet(SeedIds) /\ SeedIds \in SUBSET Nat
<1>1. \A r \in Rules : Sound(Seeds(r))
  BY BoundAssumption DEF Sound, Seeds, SeedIds, WorldType
<1>2. Blank \in WorldType
  BY BoundAssumption DEF Blank, WorldType
<1>3. IsFiniteSet(SeedIds) /\ SeedIds \in SUBSET Nat
  <2>1. SeedIds = 1..2 /\ SeedIds \in SUBSET Nat
    BY DEF SeedIds
  <2>2. IsFiniteSet(1..2)
    <3>1. 1 \in Int /\ 2 \in Int
      OBVIOUS
    <3>2. QED
      BY <3>1, FS_Interval, Zenon
  <2>3. QED
    BY <2>1, <2>2
<1>4. QED
  BY <1>1, <1>2, <1>3

LEMMA SoundIsFinite ==
    ASSUME NEW w, Sound(w)
    PROVE  IsFiniteSet(w.alive) /\ w.alive \in SUBSET Nat /\ w.nextId \in Nat \ {0}
<1>1. w.nextId \in Nat \ {0} /\ w.alive \in SUBSET Nat /\ w.alive \in SUBSET (1 .. w.nextId - 1)
  BY DEF Sound, WorldType
<1>2. IsFiniteSet(1 .. w.nextId - 1)
  BY <1>1, FS_Interval
<1>3. QED
  BY <1>1, <1>2, FS_Subset

\* Who is born gets an id that nobody had; who dies was there.
LEMMA TickOfSound ==
    ASSUME NEW w, Sound(w), w.tick < LastTick
    PROVE  /\ Newborn(w) \in SUBSET Nat /\ IsFiniteSet(Newborn(w))
           /\ \A x \in Newborn(w) : x >= w.nextId /\ x < w.nextId + BirthsOf(w)
           /\ Dying(w) \in SUBSET Nat /\ IsFiniteSet(Dying(w))
           /\ Dying(w) \subseteq w.alive \cup Newborn(w)
           /\ BirthsOf(w) \in Nat /\ Evolve(w).nextId = w.nextId + BirthsOf(w)
           /\ Evolve(w).alive = (w.alive \cup Newborn(w)) \ Dying(w)
           /\ Evolve(w).tick = w.tick + 1
           /\ Sound(Evolve(w))
<1>1. /\ w.tick \in 0..LastTick - 1 /\ w.rng = w.tick /\ w.tick + 1 \in 0..LastTick
      /\ w.rules \in Rules
      /\ w.nextId \in Nat \ {0} /\ w.births \in Nat /\ w.deaths \in Nat
      /\ w.alive \in SUBSET Nat /\ w.alive \subseteq 1 .. w.nextId - 1
  BY BoundAssumption DEF Sound, WorldType
<1>2. BirthsOf(w) \in Nat
  BY <1>1, RandomAssumption DEF BirthsOf
<1>3. Newborn(w) \in SUBSET Nat /\ IsFiniteSet(Newborn(w))
  <2>1. w.nextId \in Int /\ w.nextId + BirthsOf(w) - 1 \in Int
    BY <1>1, <1>2
  <2>2. IsFiniteSet(w.nextId .. w.nextId + BirthsOf(w) - 1)
    BY <2>1, FS_Interval
  <2>3. w.nextId .. w.nextId + BirthsOf(w) - 1 \in SUBSET Nat
    BY <1>1, <1>2
  <2>4. QED
    BY <2>2, <2>3 DEF Newborn
<1>4. \A x \in Newborn(w) : x >= w.nextId /\ x < w.nextId + BirthsOf(w) /\ x >= 1
  BY <1>1, <1>2 DEF Newborn
<1>5. Dying(w) \in SUBSET (w.alive \cup Newborn(w))
  BY DEF Dying
<1>6. IsFiniteSet(Dying(w)) /\ Dying(w) \in SUBSET Nat
  BY <1>1, <1>3, <1>5, SoundIsFinite, FS_Union, FS_Subset
<1>7. Cardinality(Dying(w)) \in Nat
  BY <1>6, FS_CardinalityType
<1>8. /\ Evolve(w).nextId = w.nextId + BirthsOf(w)
      /\ Evolve(w).alive = (w.alive \cup Newborn(w)) \ Dying(w)
      /\ Evolve(w).tick = w.tick + 1 /\ Evolve(w).rng = w.rng + 1
      /\ Evolve(w).rules = w.rules
  BY DEF Evolve
<1>9. Evolve(w) \in WorldType
  <2>1. (w.alive \cup Newborn(w)) \ Dying(w) \in SUBSET Nat
    BY <1>1, <1>3
  <2>2. /\ w.births + BirthsOf(w) \in Nat /\ w.nextId + BirthsOf(w) \in Nat
        /\ w.deaths + Cardinality(Dying(w)) \in Nat /\ w.rng + 1 \in 0..LastTick
    BY <1>1, <1>2, <1>7
  <2>3. QED
    BY <1>1, <2>1, <2>2 DEF Evolve, WorldType
<1>10. (w.alive \cup Newborn(w)) \ Dying(w) \subseteq 1 .. (w.nextId + BirthsOf(w)) - 1
  <2>1. ASSUME NEW x \in w.alive PROVE x \in 1 .. (w.nextId + BirthsOf(w)) - 1
    <3>1. x \in 1 .. w.nextId - 1
      BY <1>1, <2>1
    <3>2. QED
      BY <1>1, <1>2, <3>1
  <2>2. ASSUME NEW x \in Newborn(w) PROVE x \in 1 .. (w.nextId + BirthsOf(w)) - 1
    BY <1>1, <1>2, <1>4, <2>2 DEF Newborn
  <2>3. QED
    BY <2>1, <2>2
<1>11. Sound(Evolve(w))
  BY <1>1, <1>2, <1>8, <1>9, <1>10 DEF Sound
<1>12. QED
  BY <1>2, <1>3, <1>4, <1>5, <1>6, <1>8, <1>11

\* What a tick writes: the births, then the deaths.
LEMMA TickRecords ==
    ASSUME NEW w, Sound(w), w.tick < LastTick
    PROVE  LET b == About("birth", w, Newborn(w))
               d == About("death", w, Dying(w))
           IN  /\ b \in Seq(RecordType) /\ d \in Seq(RecordType)
               /\ StepRecords(w) = b \o d
               /\ \A i \in 1..Len(b) : b[i].kind = "birth" /\ b[i].id \in Newborn(w)
               /\ \A x \in Newborn(w) : \E i \in 1..Len(b) : b[i].id = x
               /\ \A i \in 1..Len(d) : d[i].kind = "death" /\ d[i].id \in Dying(w)
               /\ \A x \in Dying(w) : \E i \in 1..Len(d) : d[i].id = x
               /\ \A i, j \in 1..Len(d) : i < j => d[i].id # d[j].id
<1>1. w.tick \in Nat
  BY BoundAssumption DEF Sound, WorldType
<1>2. "birth" \in Kinds /\ "death" \in Kinds
  BY DEF Kinds
<1>3. /\ Newborn(w) \in SUBSET Nat /\ IsFiniteSet(Newborn(w))
      /\ Dying(w) \in SUBSET Nat /\ IsFiniteSet(Dying(w))
  BY TickOfSound
<1> DEFINE b == About("birth", w, Newborn(w))
           d == About("death", w, Dying(w))
<1>4. /\ b \in Seq(RecordType)
      /\ \A i \in 1..Len(b) : b[i].kind = "birth" /\ b[i].id \in Newborn(w)
      /\ \A x \in Newborn(w) : \E i \in 1..Len(b) : b[i].id = x
  BY <1>1, <1>2, <1>3, AboutIsAList
<1>5. /\ d \in Seq(RecordType)
      /\ \A i \in 1..Len(d) : d[i].kind = "death" /\ d[i].id \in Dying(w)
      /\ \A x \in Dying(w) : \E i \in 1..Len(d) : d[i].id = x
      /\ \A i, j \in 1..Len(d) : i < j => d[i].id # d[j].id
  BY <1>1, <1>2, <1>3, AboutIsAList
<1>6. QED
  BY <1>4, <1>5, Zenon DEF StepRecords

\* A record about no organism.
LEMMA SingleRecord ==
    ASSUME NEW kind \in Kinds, NEW w, w.tick \in Nat, NEW path \in Paths \cup {None}
    PROVE  LET r == <<Record(kind, w, 0, path)>>
           IN  /\ r \in Seq(RecordType) /\ Len(r) = 1
               /\ r[1].kind = kind /\ r[1].id = 0 /\ r[1].tick = w.tick /\ r[1].path = path
<1>1. Record(kind, w, 0, path) \in RecordType
  BY DEF Record, RecordType
<1>2. QED
  BY <1>1 DEF Record


(***************************************************************************)
(* Types, and what each action writes                                      *)
(***************************************************************************)
\* Worlds are sound wherever they are: in memory and in a checkpoint.
TypeInv ==
    /\ IsLog(log)
    /\ pc \in {"shell", "run", "save", "write", "rename", "record", "stop"}
    /\ cmd \in [resume : BOOLEAN, given : BOOLEAN, cfg : ConfigType]
    /\ final \in BOOLEAN /\ failed \in BOOLEAN
    /\ launches \in 0..MaxLaunches
    /\ IF pc = "shell" THEN world = Blank ELSE Sound(world)
    /\ \A p \in Paths : files[p] # None => files[p] \in ImageType /\ Sound(files[p].world)
    /\ \A p \in Paths : temps[p] # None => temps[p] \in ImageType

LEMMA ImageIsTyped ==
    ASSUME NEW cfg \in ConfigType, NEW w, Sound(w)
    PROVE  /\ Image(cfg, w) \in ImageType /\ Image(cfg, w) # None
           /\ Image(cfg, w).world = w /\ w # None
<1>1. w \in WorldType
  BY DEF Sound
<1>2. Image(cfg, w) \in ImageType
  BY <1>1, Zenon DEF Image, ImageType
<1>3. Image(cfg, w).world = w
  BY DEF Image
<1>4. QED
  BY <1>1, <1>2, <1>3, NoneAssumption

LEMMA PartIsTyped ==
    ASSUME NEW cfg \in ConfigType PROVE Part(cfg) \in ImageType
BY SeedsAreSound DEF Part, ImageType

LEMMA EffectiveCommand ==
    ASSUME NEW c \in Configs, NEW given \in Paths \cup {None}, NEW resume \in BOOLEAN,
           Launch(resume, c, given)
    PROVE  /\ cmd' \in [resume : BOOLEAN, given : BOOLEAN, cfg : ConfigType]
           /\ cmd'.resume = resume /\ cmd'.given = (given # None)
           /\ given # None => cmd'.cfg.path = given
<1>1. Effective(c, given) \in ConfigType /\ (given # None => Effective(c, given).path = given)
  BY EffectiveType
<1>2. cmd' = [resume |-> resume, given |-> given # None, cfg |-> Effective(c, given)]
  BY DEF Launch
<1>3. (given # None) \in BOOLEAN
  OBVIOUS
<1>4. QED
  BY <1>1, <1>2, <1>3, Zenon

\* The path of a command is a path.
LEMMA CommandPath ==
    ASSUME TypeInv PROVE cmd.cfg \in ConfigType /\ cmd.cfg.path \in Paths
BY DEF TypeInv, ConfigType

\* alife_world_init: run_start and the seeds, in an empty log.
LEMMA RunAdds ==
    ASSUME NEW c \in Configs, NEW given \in Paths \cup {None}, Run(c, given)
    PROVE  LET b == About("birth", Blank, SeedIds)
           IN  /\ StartRecord(Blank) \in Seq(RecordType) /\ b \in Seq(RecordType)
               /\ Adds(NoLog, log', StartRecord(Blank) \o b)
               /\ \A i \in 1..Len(b) : b[i].kind = "birth" /\ b[i].id \in SeedIds
               /\ \A x \in SeedIds : \E i \in 1..Len(b) : b[i].id = x
<1> DEFINE b == About("birth", Blank, SeedIds)
<1>1. IsFiniteSet(SeedIds) /\ SeedIds \in SUBSET Nat
  BY SeedsAreSound
<1>2. Blank.tick \in Nat /\ "birth" \in Kinds /\ "run_start" \in Kinds
  BY DEF Blank, Kinds
<1>3. /\ b \in Seq(RecordType)
      /\ \A i \in 1..Len(b) : b[i].kind = "birth" /\ b[i].id \in SeedIds
      /\ \A x \in SeedIds : \E i \in 1..Len(b) : b[i].id = x
  BY <1>1, <1>2, AboutIsAList
<1>4. StartRecord(Blank) \in Seq(RecordType)
  BY <1>2, SingleRecord DEF StartRecord
<1>5. log' \in Fprintf(NoLog, StartRecord(Blank) \o b)
  BY DEF Run, OpenLog
<1>6. StartRecord(Blank) \o b \in Seq(RecordType)
  BY <1>3, <1>4
<1>7. Adds(NoLog, log', StartRecord(Blank) \o b)
  BY <1>5, <1>6, NoLogIsLog, FprintfAdds
<1>8. QED
  BY <1>3, <1>4, <1>7

LEMMA ResumeAdds ==
    ASSUME IsLog(log), NEW c \in Configs, NEW given \in Paths, Resume(c, given),
           Sound(world')
    PROVE  Adds(log, log', StartRecord(world')) /\ StartRecord(world') \in Seq(RecordType)
<1>1. world'.tick \in Nat /\ "run_start" \in Kinds
  BY BoundAssumption DEF Sound, WorldType, Kinds
<1>2. StartRecord(world') \in Seq(RecordType)
  BY <1>1, SingleRecord DEF StartRecord
<1>3. log' \in Fprintf(log, StartRecord(world'))
  BY DEF Resume, OpenLog
<1>4. QED
  BY <1>2, <1>3, FprintfAdds

\* A tick, with a summary or without.
LEMMA StepAdds ==
    ASSUME TypeInv, CourseInv, Step
    PROVE  /\ Sound(world) /\ world.tick < LastTick
           /\ StepRecords(world) \in Seq(RecordType)
           /\ SummaryRecord(world') \in Seq(RecordType)
           /\ \/ Adds(log, log', StepRecords(world))
              \/ Adds(log, log', StepRecords(world) \o SummaryRecord(world'))
<1>1. Sound(world) /\ world.tick < LastTick
  BY BoundAssumption DEF Step, TypeInv, CourseInv, ConfigType, OnCourse
<1>2. StepRecords(world) \in Seq(RecordType)
  <2> DEFINE b == About("birth", world, Newborn(world))
             d == About("death", world, Dying(world))
  <2>1. b \in Seq(RecordType) /\ d \in Seq(RecordType) /\ StepRecords(world) = b \o d
    BY <1>1, TickRecords, Zenon
  <2> HIDE DEF b, d
  <2>2. QED
    BY <2>1
<1>3. Sound(world')
  BY <1>1, TickOfSound DEF Step
<1>4. world'.tick \in Nat /\ "summary" \in Kinds
  BY <1>3, BoundAssumption DEF Sound, WorldType, Kinds
<1>5. SummaryRecord(world') \in Seq(RecordType)
  BY <1>4, SingleRecord DEF SummaryRecord
<1>6. /\ IsLog(log)
      /\ StepRecords(world) \o SummaryRecord(world') \in Seq(RecordType)
  BY <1>2, <1>5 DEF TypeInv
<1>7. \/ log' = Flushed(log, StepRecords(world) \o SummaryRecord(world'))
      \/ log' \in Fprintf(log, StepRecords(world))
  BY DEF Step
<1>8. QED
  BY <1>1, <1>2, <1>5, <1>6, <1>7, FlushedAdds, FprintfAdds

LEMMA RunEndsAdds ==
    ASSUME TypeInv, RunEnds
    PROVE  log' = log \/ Adds(log, log', SummaryRecord(world))
<1>1. world.tick \in Nat /\ "summary" \in Kinds /\ IsLog(log)
  BY BoundAssumption DEF RunEnds, TypeInv, Sound, WorldType, Kinds
<1>2. SummaryRecord(world) \in Seq(RecordType)
  BY <1>1, SingleRecord DEF SummaryRecord
<1>3. QED
  BY <1>1, <1>2, FlushedAdds DEF RunEnds

LEMMA LogCheckpointAdds ==
    ASSUME TypeInv, LogCheckpoint
    PROVE  Adds(log, log', <<Record("checkpoint", world, 0, cmd.cfg.path)>>)
<1>1. world.tick \in Nat /\ "checkpoint" \in Kinds /\ IsLog(log)
  BY BoundAssumption DEF LogCheckpoint, TypeInv, Sound, WorldType, Kinds
<1>2. cmd.cfg.path \in Paths \cup {None}
  BY CommandPath
<1>3. <<Record("checkpoint", world, 0, cmd.cfg.path)>> \in Seq(RecordType)
  BY <1>1, <1>2, SingleRecord
<1>4. QED
  BY <1>1, <1>3, FlushedAdds DEF LogCheckpoint

\* alife_world_destroy: a death for everybody left, then run_end.
LEMMA DestroyAdds ==
    ASSUME TypeInv, Destroy
    PROVE  LET d == About("death", world, world.alive)
               e == <<Record("run_end", world, 0, None)>>
           IN  /\ d \in Seq(RecordType) /\ e \in Seq(RecordType)
               /\ ShutdownRecords(world) = d \o e
               /\ Adds(log, log', ShutdownRecords(world))
               /\ \A i \in 1..Len(d) : d[i].kind = "death" /\ d[i].id \in world.alive
               /\ \A i, j \in 1..Len(d) : i < j => d[i].id # d[j].id
<1> DEFINE d == About("death", world, world.alive)
           e == <<Record("run_end", world, 0, None)>>
<1>1. /\ Sound(world) /\ world.tick \in Nat /\ IsLog(log)
      /\ "death" \in Kinds /\ "run_end" \in Kinds
  BY BoundAssumption DEF Destroy, TypeInv, Sound, WorldType, Kinds
<1>2. IsFiniteSet(world.alive) /\ world.alive \in SUBSET Nat
  BY <1>1, SoundIsFinite
<1>3. /\ d \in Seq(RecordType)
      /\ \A i \in 1..Len(d) : d[i].kind = "death" /\ d[i].id \in world.alive
      /\ \A i, j \in 1..Len(d) : i < j => d[i].id # d[j].id
  BY <1>1, <1>2, AboutIsAList
<1>4. e \in Seq(RecordType)
  BY <1>1, SingleRecord
<1>5. ShutdownRecords(world) = d \o e
  BY DEF ShutdownRecords
<1>6. ShutdownRecords(world) \in Seq(RecordType)
  BY <1>3, <1>4, <1>5
<1>7. Adds(log, log', ShutdownRecords(world))
  BY <1>1, <1>6, FlushedAdds DEF Destroy
<1>8. QED
  BY <1>3, <1>4, <1>5, <1>7


\* A resumed process has the world of the checkpoint, which is sound.
LEMMA ResumeRestores ==
    ASSUME TypeInv, CourseInv, NEW c \in Configs, NEW given \in Paths, Resume(c, given)
    PROVE  /\ files[given] # None /\ world' = files[given].world /\ Sound(world')
           /\ cmd' \in [resume : BOOLEAN, given : BOOLEAN, cfg : ConfigType]
           /\ cmd'.resume = TRUE /\ cmd'.cfg.path = given
           /\ pc = "shell" /\ launches < MaxLaunches /\ launches' = launches + 1
           /\ UNCHANGED <<files, temps>>
           /\ pc' = "run" /\ failed' = FALSE /\ final' = FALSE
<1>1. /\ Launch(TRUE, c, given) /\ Loadable(files[given], cmd'.cfg)
      /\ world' = Restored(files[given], cmd'.cfg) /\ pc' = "run" /\ failed' = FALSE
  BY DEF Resume
<1>2. /\ files[given] # None /\ pc = "shell" /\ launches < MaxLaunches
      /\ launches' = launches + 1 /\ UNCHANGED <<files, temps>> /\ final' = FALSE
  BY <1>1 DEF Launch, Loadable, onDisk
<1>3. Exact(files[given], given) /\ Sound(files[given].world)
  BY <1>2 DEF CourseInv, TypeInv
<1>4. world' = files[given].world
  BY <1>1, <1>3, RestoredIsSame DEF Loadable
<1>5. given # None /\ given \in Paths \cup {None}
  BY ConfigsAssumption
<1>6. /\ cmd' \in [resume : BOOLEAN, given : BOOLEAN, cfg : ConfigType]
      /\ cmd'.resume = TRUE /\ cmd'.cfg.path = given
  BY <1>1, <1>5, EffectiveCommand
<1>7. QED
  BY <1>1, <1>2, <1>3, <1>4, <1>6

LEMMA TypeInit == Init => TypeInv
<1> SUFFICES ASSUME Init PROVE TypeInv
  OBVIOUS
<1>1. cmd \in [resume : BOOLEAN, given : BOOLEAN, cfg : ConfigType]
  BY ConfigsAssumption DEF Init
<1>2. IsLog(log)
  BY NoLogIsLog DEF Init
<1>3. /\ pc = "shell" /\ world = Blank /\ final = FALSE /\ failed = TRUE
      /\ launches \in 0..MaxLaunches
      /\ \A p \in Paths : files[p] = None /\ temps[p] = None
  BY BoundAssumption DEF Init
<1>4. QED
  BY <1>1, <1>2, <1>3 DEF TypeInv

\* The commands of the user.
LEMMA LaunchKeepsTypes ==
    ASSUME TypeInv, CourseInv, User PROVE TypeInv'
<1>1. ASSUME NEW c \in Configs, NEW given \in Paths \cup {None}, Run(c, given)
      PROVE  TypeInv'
  <2>1. /\ Launch(FALSE, c, given) /\ world' = Seeds(cmd'.cfg.rules)
        /\ pc' = "run" /\ failed' = FALSE
        /\ launches < MaxLaunches /\ launches' = launches + 1
        /\ UNCHANGED <<files, temps>> /\ final' = FALSE
    BY <1>1 DEF Run, Launch, onDisk
  <2>2. cmd' \in [resume : BOOLEAN, given : BOOLEAN, cfg : ConfigType]
    BY <2>1, EffectiveCommand
  <2>3. IsLog(log')
    BY <1>1, RunAdds DEF Adds
  <2>4. launches' \in 0..MaxLaunches
    BY <2>1, BoundAssumption DEF TypeInv
  <2>5. QED
    <3>1. Sound(world')
      BY <2>1, <2>2, SeedsAreSound DEF ConfigType
    <3>2. QED
      BY <2>1, <2>2, <2>3, <2>4, <3>1 DEF TypeInv
<1>2. ASSUME NEW c \in Configs, NEW given \in Paths, Resume(c, given)
      PROVE  TypeInv'
  <2>1. /\ cmd' \in [resume : BOOLEAN, given : BOOLEAN, cfg : ConfigType]
        /\ Sound(world') /\ launches < MaxLaunches /\ launches' = launches + 1
        /\ UNCHANGED <<files, temps>>
        /\ pc' = "run" /\ failed' = FALSE /\ final' = FALSE
    BY <1>2, ResumeRestores
  <2>2. IsLog(log')
    BY <1>2, <2>1, ResumeAdds DEF Adds, TypeInv
  <2>3. launches' \in 0..MaxLaunches
    BY <2>1, BoundAssumption DEF TypeInv
  <2>4. QED
    BY <2>1, <2>2, <2>3 DEF TypeInv
<1>3. ASSUME NEW c \in Configs, NEW given \in Paths, ResumeRefused(c, given)
      PROVE  TypeInv'
  <2>1. /\ Launch(TRUE, c, given) /\ failed' = TRUE /\ log' = log
        /\ UNCHANGED <<pc, world, files, temps>>
        /\ launches < MaxLaunches /\ launches' = launches + 1 /\ final' = FALSE
    BY <1>3 DEF ResumeRefused, Launch, onDisk, OpenLog
  <2>2. cmd' \in [resume : BOOLEAN, given : BOOLEAN, cfg : ConfigType]
    BY <2>1, EffectiveCommand
  <2>3. launches' \in 0..MaxLaunches
    BY <2>1, BoundAssumption DEF TypeInv
  <2>4. QED
    BY <2>1, <2>2, <2>3 DEF TypeInv
<1>4. QED
  BY <1>1, <1>2, <1>3 DEF User

\* The steps of alife_world_save.
LEMMA SavingKeepsTypes ==
    ASSUME TypeInv, CourseInv,
           SaveRefused \/ OpenTemporary \/ WriteTemporary \/ WriteFails \/ Replace
    PROVE  TypeInv'
<1>1. /\ UNCHANGED <<log, cmd, world, final, launches>>
      /\ pc # "shell" /\ pc' \in {"stop", "write", "rename", "record"}
      /\ failed' \in BOOLEAN
  BY DEF SaveRefused, OpenTemporary, WriteTemporary, WriteFails, Replace, onDisk, TypeInv
<1>2. cmd.cfg \in ConfigType /\ cmd.cfg.path \in Paths /\ Sound(world)
  BY <1>1, CommandPath DEF TypeInv
<1>3. DOMAIN files = Paths /\ DOMAIN temps = Paths
  BY DEF CourseInv
<1>4. \A p \in Paths : temps'[p] # None => temps'[p] \in ImageType
  <2>1. \/ UNCHANGED temps
        \/ temps' = [temps EXCEPT ![cmd.cfg.path] = None]
        \/ temps' = [temps EXCEPT ![cmd.cfg.path] = Part(cmd.cfg)]
        \/ temps' = [temps EXCEPT ![cmd.cfg.path] = Image(cmd.cfg, world)]
    BY DEF SaveRefused, OpenTemporary, WriteTemporary, WriteFails, Replace, onDisk
  <2>2. Part(cmd.cfg) \in ImageType /\ Image(cmd.cfg, world) \in ImageType
    BY <1>2, PartIsTyped, ImageIsTyped
  <2>3. QED
    BY <1>2, <1>3, <2>1, <2>2 DEF TypeInv
<1>5. \A p \in Paths : files'[p] # None => files'[p] \in ImageType /\ Sound(files'[p].world)
  <2>1. \/ UNCHANGED files
        \/ files' = [files EXCEPT ![cmd.cfg.path] = Image(cmd.cfg, world)]
    BY DEF SaveRefused, OpenTemporary, WriteTemporary, WriteFails, Replace, onDisk, CourseInv
  <2>2. Image(cmd.cfg, world) \in ImageType /\ Sound(Image(cmd.cfg, world).world)
    BY <1>2, ImageIsTyped
  <2>3. QED
    BY <1>2, <1>3, <2>1, <2>2 DEF TypeInv
<1>6. QED
  BY <1>1, <1>4, <1>5 DEF TypeInv

\* Steps that write to the log, and the end of the process.
LEMMA LoggingKeepsTypes ==
    ASSUME TypeInv, CourseInv, Step \/ RunEnds \/ LogCheckpoint \/ Destroy \/ Crash
    PROVE  TypeInv'
<1>1. UNCHANGED <<files, temps, cmd, launches>>
  BY DEF Step, RunEnds, LogCheckpoint, Destroy, Crash, onDisk
<1>2. IsLog(log')
  BY StepAdds, RunEndsAdds, LogCheckpointAdds, DestroyAdds, LostIsPrefix
     DEF Crash, Adds, TypeInv
<1>3. final' \in BOOLEAN /\ failed' \in BOOLEAN
  BY DEF Step, RunEnds, LogCheckpoint, Destroy, Crash, TypeInv, FinalSaveDue
<1>4. pc' \in {"shell", "run", "save", "stop"}
  BY DEF Step, RunEnds, LogCheckpoint, Destroy, Crash
<1>5. IF pc' = "shell" THEN world' = Blank ELSE Sound(world')
  <2>1. CASE Step
    <3>1. Sound(world') /\ pc' # "shell"
      BY <2>1, StepAdds, TickOfSound DEF Step
    <3>2. QED
      BY <3>1
  <2>2. CASE RunEnds \/ LogCheckpoint
    <3>1. world' = world /\ Sound(world) /\ pc' # "shell"
      BY <2>2 DEF RunEnds, LogCheckpoint, TypeInv
    <3>2. QED
      BY <3>1
  <2>3. CASE Destroy \/ Crash
    BY <2>3 DEF Destroy, Crash
  <2>4. QED
    BY <2>1, <2>2, <2>3
<1>6. QED
  BY <1>1, <1>2, <1>3, <1>4, <1>5 DEF TypeInv

LEMMA TypeKept ==
    ASSUME TypeInv, ExperimentInv, [Next]_vars PROVE TypeInv'
<1>1. CourseInv
  BY DEF ExperimentInv
<1>2. ASSUME UNCHANGED vars PROVE TypeInv'
  BY <1>2 DEF TypeInv, vars
<1>3. QED
  BY <1>1, <1>2, LaunchKeepsTypes, SavingKeepsTypes, LoggingKeepsTypes
     DEF Next, Over, Process

LEMMA TypesAreKept == Spec => [](TypeInv /\ ExperimentInv)
<1>1. Init => TypeInv /\ ExperimentInv
  BY TypeInit, InvInit
<1>2. TypeInv /\ ExperimentInv /\ [Next]_vars => (TypeInv /\ ExperimentInv)'
  BY TypeKept, InvKept
<1>3. QED
  BY <1>1, <1>2, PTL DEF Spec

\* Through every crash, refusal and failed write the log, the checkpoints and
\* the state of the process stay of their types.
THEOREM ExperimentTypeCorrect == Spec => []TypeOK
<1>1. TypeInv => TypeOK
  <2> SUFFICES ASSUME TypeInv PROVE TypeOK
    OBVIOUS
  <2>1. \A p \in Paths : \A image \in {files[p], temps[p]} :
            image # None => image \in ImageType
    BY DEF TypeInv
  <2>2. world \in WorldType
    BY SeedsAreSound DEF TypeInv, Sound
  <2>3. /\ \A i \in DOMAIN log.lines : log.lines[i].kind \in Kinds
        /\ log.safe \in 0 .. Len(log.lines) /\ (log.cut => log.safe < Len(log.lines))
        /\ log.broken \subseteq 1..log.safe
    <3>1. IsLog(log)
      BY DEF TypeInv
    <3>2. log.lines \in Seq(RecordType)
      BY <3>1 DEF IsLog
    <3>3. \A i \in DOMAIN log.lines : log.lines[i] \in RecordType
      BY <3>2
    <3>4. \A i \in DOMAIN log.lines : log.lines[i].kind \in Kinds
      BY <3>3 DEF RecordType
    <3>5. QED
      BY <3>1, <3>4 DEF IsLog
  <2>4. QED
    BY <2>1, <2>2, <2>3 DEF TypeInv, TypeOK
<1>2. QED
  BY <1>1, TypesAreKept, PTL


(***************************************************************************)
(* The log only grows                                                      *)
(***************************************************************************)
LEMMA SafeLinesAreKept ==
    ASSUME TypeInv, CourseInv, Next \/ UNCHANGED vars
    PROVE  SafeLinesStay \/ RunTruncates
<1>1. IsLog(log)
  BY DEF TypeInv
<1>2. ASSUME UNCHANGED log PROVE SafeLinesStay
  <2>1. log.lines \in Seq(RecordType) /\ log.safe \in 0..Len(log.lines)
    BY <1>1 DEF IsLog
  <2>2. IsPrefix(SafeLines(log), SafeLines(log))
    BY <2>1 DEF IsPrefix, SafeLines
  <2>3. QED
    BY <1>2, <2>2 DEF SafeLinesStay
<1>3. ASSUME NEW c \in Configs, NEW given \in Paths \cup {None}, Run(c, given)
      PROVE  RunTruncates
  <2>1. Launch(FALSE, c, given)
    BY <1>3 DEF Run
  <2>2. ~cmd'.resume
    BY <2>1, EffectiveCommand
  <2>3. pc = "shell" /\ launches' > launches
    BY <2>1, BoundAssumption DEF Launch, TypeInv
  <2>4. QED
    BY <2>2, <2>3 DEF RunTruncates
<1>4. ASSUME NEW c \in Configs, NEW given \in Paths, Resume(c, given)
      PROVE  SafeLinesStay
  BY <1>1, <1>4, ResumeRestores, ResumeAdds DEF Adds, SafeLinesStay
<1>5. ASSUME Step \/ RunEnds \/ LogCheckpoint \/ Destroy
      PROVE  SafeLinesStay
  BY <1>2, <1>5, StepAdds, RunEndsAdds, LogCheckpointAdds, DestroyAdds DEF Adds, SafeLinesStay
<1>6. ASSUME Crash PROVE SafeLinesStay
  BY <1>1, <1>6, LostIsPrefix DEF Crash, SafeLinesStay
<1>7. ASSUME \/ SaveRefused \/ OpenTemporary \/ WriteTemporary \/ WriteFails \/ Replace
             \/ UNCHANGED vars
             \/ \E c \in Configs : \E given \in Paths : ResumeRefused(c, given)
      PROVE  SafeLinesStay
  <2>1. UNCHANGED log
    BY <1>7 DEF SaveRefused, OpenTemporary, WriteTemporary, WriteFails, Replace, vars,
                ResumeRefused, OpenLog
  <2>2. QED
    BY <1>2, <2>1
<1>8. QED
  BY <1>3, <1>4, <1>5, <1>6, <1>7 DEF Next, Over, Process, User

\* Only the truncation by a new run takes back what has left the buffer; no
\* resume, refusal, failed save or crash does.
THEOREM LogsOnlyGrow == Spec => LogOnlyGrows
<1>1. TypeInv /\ ExperimentInv /\ [Next]_vars => [SafeLinesStay \/ RunTruncates]_vars
  BY SafeLinesAreKept DEF ExperimentInv
<1>2. QED
  BY <1>1, TypesAreKept, PTL DEF Spec, LogOnlyGrows

(***************************************************************************)
(* Experiment implements Durable                                           *)
(***************************************************************************)
\* The refinement mapping.
Live == IF pc = "shell" THEN None ELSE world
Kept == [p \in Paths |-> IF files[p] = None THEN None ELSE files[p].world]

LEMMA LiveIsAWorld == ASSUME TypeInv, pc # "shell" PROVE Live = world /\ Live # None
BY NoneAssumption DEF TypeInv, Sound, Live

LEMMA StoreInit == Init => Store!DurableInit
BY DEF Init, Store!DurableInit

LEMMA BeginOfProcess ==
    ASSUME TypeInv, CourseInv, User PROVE Store!Begin \/ UNCHANGED <<Live, Kept>>
<1>1. ASSUME NEW c \in Configs, NEW given \in Paths \cup {None}, Run(c, given)
      PROVE  Store!Begin
  <2>1. /\ cmd' \in [resume : BOOLEAN, given : BOOLEAN, cfg : ConfigType]
        /\ world' = Seeds(cmd'.cfg.rules)
    BY <1>1, EffectiveCommand DEF Run
  <2>2. world' \in {Seeds(r) : r \in Rules}
    BY <2>1 DEF ConfigType
  <2>3. QED
    BY <1>1, <2>2 DEF Run, Launch, onDisk, Store!Begin
<1>2. ASSUME NEW c \in Configs, NEW given \in Paths, Resume(c, given)
      PROVE  Store!Begin
  <2>1. /\ files[given] # None /\ world' = files[given].world /\ Sound(world')
        /\ pc = "shell" /\ pc' = "run" /\ UNCHANGED files
    BY <1>2, ResumeRestores
  <2>2. Kept[given] # None /\ Live' = Kept[given] /\ Live = None /\ Kept' = Kept
    BY <2>1, NoneAssumption DEF Kept, Live, Sound
  <2>3. QED
    BY <2>2 DEF Store!Begin, Kept, Live
<1>3. ASSUME NEW c \in Configs, NEW given \in Paths, ResumeRefused(c, given)
      PROVE  UNCHANGED <<Live, Kept>>
  BY <1>3 DEF ResumeRefused, Launch, onDisk, Live, Kept
<1>4. QED
  BY <1>1, <1>2, <1>3 DEF User

\* The rename commits; all the rest of alife_world_save is a stuttering step.
LEMMA RenameCommits ==
    ASSUME TypeInv, CourseInv, Replace PROVE \E p \in Paths : Store!Commit(p)
<1>1. /\ cmd.cfg \in ConfigType /\ cmd.cfg.path \in Paths
      /\ pc # "shell" /\ pc' # "shell" /\ world' = world /\ Sound(world)
      /\ DOMAIN files = Paths
      /\ files' = [files EXCEPT ![cmd.cfg.path] = Image(cmd.cfg, world)]
  BY CommandPath DEF Replace, CourseInv, TypeInv
<1>2. Image(cmd.cfg, world) # None /\ Image(cmd.cfg, world).world = world
  BY <1>1, ImageIsTyped
<1>3. Live # None /\ Live' = Live /\ Live = world
  BY <1>1, LiveIsAWorld DEF Live
<1>4. Kept' = [Kept EXCEPT ![cmd.cfg.path] = Live]
  <2> DEFINE K == [Kept EXCEPT ![cmd.cfg.path] = Live]
  <2>1. ASSUME NEW p \in Paths PROVE Kept'[p] = K[p]
    BY <1>1, <1>2, <1>3 DEF Kept
  <2>2. Kept' = [p \in Paths |-> Kept'[p]] /\ K = [p \in Paths |-> K[p]]
    BY DEF Kept
  <2>3. QED
    BY <2>1, <2>2
<1>5. QED
  BY <1>1, <1>3, <1>4 DEF Store!Commit, Kept, Live

LEMMA StoreStep ==
    ASSUME TypeInv, CourseInv, Next \/ UNCHANGED vars
    PROVE  [Store!DurableNext]_<<Live, Kept>>
<1>1. CASE User
  BY <1>1, BeginOfProcess DEF Store!DurableNext
<1>2. CASE Step
  BY <1>2, LiveIsAWorld DEF Step, onDisk, Store!DurableNext, Store!Advance, Live, Kept
<1>3. CASE RunEnds \/ SaveRefused \/ OpenTemporary \/ WriteTemporary \/ WriteFails \/ LogCheckpoint
  BY <1>3 DEF RunEnds, SaveRefused, OpenTemporary, WriteTemporary, WriteFails,
              LogCheckpoint, onDisk, Live, Kept
<1>4. CASE Replace
  BY <1>4, RenameCommits DEF Store!DurableNext
<1>5. CASE Destroy \/ Crash
  BY <1>5, LiveIsAWorld DEF Destroy, Crash, onDisk, Store!DurableNext, Store!Lose, Live, Kept
<1>6. CASE UNCHANGED vars
  BY <1>6 DEF vars, Live, Kept
<1>7. QED
  BY <1>1, <1>2, <1>3, <1>4, <1>5, <1>6 DEF Next, Over, Process

\* Saving is atomic and resuming exact: with the rename as the commit, every
\* behaviour of processes and files is one of the abstract store.
THEOREM SavesAreDurable == Spec => KeepsDurable
<1>1. TypeInv /\ ExperimentInv /\ [Next]_vars => [Store!DurableNext]_Store!durableVars
  BY StoreStep DEF ExperimentInv, Store!durableVars, Live, Kept
<1>2. QED
  BY <1>1, StoreInit, TypesAreKept, PTL DEF Spec, KeepsDurable, Store!DurableSpec


(***************************************************************************)
(* Recorded checkpoints are in place                                       *)
(***************************************************************************)
\* The checkpoint of a record is at its path, or a later one; and the process
\* that is to save there next is not behind it.
InPlace(line) ==
    /\ line.path \in Paths /\ files[line.path] # None
    /\ files[line.path].world.tick >= line.tick
    /\ pc # "shell" /\ line.path = cmd.cfg.path => world.tick >= line.tick

CommittedInv ==
    \A i \in 1..Len(log.lines) : log.lines[i].kind = "checkpoint" => InPlace(log.lines[i])

\* Records none of which is a checkpoint.
Plain(r) == r \in Seq(RecordType) /\ \A i \in 1..Len(r) : r[i].kind # "checkpoint"

LEMMA LinesOfConcat ==
    ASSUME NEW s \in Seq(RecordType), NEW r \in Seq(RecordType), NEW i \in 1..Len(s \o r)
    PROVE  \/ i \in 1..Len(s) /\ (s \o r)[i] = s[i]
           \/ i - Len(s) \in 1..Len(r) /\ (s \o r)[i] = r[i - Len(s)]
OBVIOUS

LEMMA PlainConcat ==
    ASSUME NEW s, NEW r, Plain(s), Plain(r) PROVE Plain(s \o r)
<1>1. s \in Seq(RecordType) /\ r \in Seq(RecordType) /\ s \o r \in Seq(RecordType)
  BY DEF Plain
<1>2. ASSUME NEW i \in 1..Len(s \o r) PROVE (s \o r)[i].kind # "checkpoint"
  BY <1>1, LinesOfConcat DEF Plain
<1>3. QED
  BY <1>1, <1>2 DEF Plain

LEMMA PlainSingle ==
    ASSUME NEW kind \in Kinds \ {"checkpoint"}, NEW w, w.tick \in Nat
    PROVE  Plain(<<Record(kind, w, 0, None)>>)
BY SingleRecord DEF Plain

LEMMA PlainStepRecords ==
    ASSUME NEW w, Sound(w), w.tick < LastTick PROVE Plain(StepRecords(w))
<1> DEFINE b == About("birth", w, Newborn(w))
           d == About("death", w, Dying(w))
<1>1. /\ b \in Seq(RecordType) /\ d \in Seq(RecordType) /\ StepRecords(w) = b \o d
      /\ \A i \in 1..Len(b) : b[i].kind = "birth"
      /\ \A i \in 1..Len(d) : d[i].kind = "death"
  BY TickRecords
<1> HIDE DEF b, d
<1>2. Plain(b) /\ Plain(d)
  BY <1>1 DEF Plain
<1>3. QED
  BY <1>1, <1>2, PlainConcat

\* Writing anything else keeps what holds of the checkpoints.
LEMMA PlainKeepsCommitted ==
    ASSUME CommittedInv, NEW r, Plain(r), IsLog(log), Adds(log, log', r) \/ log' = log,
           \A line \in RecordType : InPlace(line) => InPlace(line)'
    PROVE  CommittedInv'
<1>1. log.lines \in Seq(RecordType) /\ r \in Seq(RecordType)
  BY DEF IsLog, Plain
<1>2. log'.lines = log.lines \o r \/ log'.lines = log.lines
  BY DEF Adds
<1>3. ASSUME NEW i \in 1..Len(log'.lines), log'.lines[i].kind = "checkpoint"
      PROVE  \E j \in 1..Len(log.lines) : log'.lines[i] = log.lines[j]
  <2>1. CASE log'.lines = log.lines \o r
    BY <1>1, <1>3, <2>1, LinesOfConcat DEF Plain
  <2>2. CASE log'.lines = log.lines
    BY <1>3, <2>2
  <2>3. QED
    BY <1>2, <2>1, <2>2
<1>4. ASSUME NEW i \in 1..Len(log'.lines), log'.lines[i].kind = "checkpoint",
             NEW line, line = log'.lines[i]
      PROVE  InPlace(line)'
  <2>1. PICK j \in 1..Len(log.lines) : log'.lines[i] = log.lines[j]
    BY <1>3, <1>4
  <2>2. line \in RecordType /\ InPlace(line)
    BY <1>1, <1>4, <2>1 DEF CommittedInv
  <2>3. QED
    BY <2>2
<1>5. QED
  BY <1>4 DEF CommittedInv, InPlace

LEMMA CommittedInit == Init => CommittedInv
BY NoLogIsLog DEF Init, CommittedInv

LEMMA CommittedKept ==
    ASSUME TypeInv, ExperimentInv, CommittedInv, Next \/ UNCHANGED vars
    PROVE  CommittedInv'
<1>1. CourseInv /\ IsLog(log) /\ log.lines \in Seq(RecordType)
  BY DEF ExperimentInv, TypeInv, IsLog
<1>2. /\ Plain(<<>>)
      /\ \A line \in RecordType : line.tick \in Nat
      /\ \A p \in Paths : files[p] # None => files[p].world.tick \in Nat
      /\ pc # "shell" => world.tick \in Nat
  <2>1. Plain(<<>>)
    BY DEF Plain
  <2>2. \A line \in RecordType : line.tick \in Nat
    BY DEF RecordType
  <2>3. ASSUME NEW w, Sound(w) PROVE w.tick \in Nat
    BY <2>3, BoundAssumption DEF Sound, WorldType
  <2>4. QED
    BY <2>1, <2>2, <2>3 DEF TypeInv
<1>3. ASSUME NEW c \in Configs, NEW given \in Paths \cup {None}, Run(c, given)
      PROVE  CommittedInv'
  <2> DEFINE b == About("birth", Blank, SeedIds)
  <2>1. /\ StartRecord(Blank) \in Seq(RecordType) /\ b \in Seq(RecordType)
        /\ log'.lines = NoLog.lines \o (StartRecord(Blank) \o b)
        /\ \A i \in 1..Len(b) : b[i].kind = "birth"
    BY <1>3, RunAdds DEF Adds
  <2>2. Plain(StartRecord(Blank))
    BY PlainSingle DEF StartRecord, Blank, Kinds
  <2> HIDE DEF b
  <2>3. Plain(StartRecord(Blank) \o b) /\ Plain(NoLog.lines)
    <3>1. NoLog.lines \in Seq(RecordType) /\ Len(NoLog.lines) = 0
      BY NoLogIsLog DEF IsLog
    <3>2. Plain(NoLog.lines)
      BY <3>1 DEF Plain
    <3>3. Plain(b)
      BY <2>1 DEF Plain
    <3>4. QED
      BY <2>2, <3>2, <3>3, PlainConcat
  <2>4. Plain(log'.lines)
    BY <2>1, <2>3, PlainConcat
  <2>5. QED
    BY <2>4 DEF Plain, CommittedInv
<1>4. ASSUME NEW c \in Configs, NEW given \in Paths, Resume(c, given)
      PROVE  CommittedInv'
  <2>1. /\ files[given] # None /\ world' = files[given].world /\ Sound(world')
        /\ cmd'.cfg.path = given /\ UNCHANGED files
    BY <1>1, <1>4, ResumeRestores
  <2>2. Adds(log, log', StartRecord(world'))
    BY <1>1, <1>4, <2>1, ResumeAdds
  <2>3. world'.tick \in Nat
    BY <1>2, <2>1
  <2>4. Plain(StartRecord(world'))
    BY <2>3, PlainSingle DEF StartRecord, Kinds
  <2>5. \A line \in RecordType : InPlace(line) => InPlace(line)'
    BY <1>2, <2>1, <2>3 DEF InPlace
  <2>6. QED
    BY <1>1, <2>2, <2>4, <2>5, PlainKeepsCommitted
<1>5. ASSUME NEW c \in Configs, NEW given \in Paths, ResumeRefused(c, given)
      PROVE  CommittedInv'
  <2>1. UNCHANGED <<files, log, pc>> /\ pc = "shell"
    BY <1>5 DEF ResumeRefused, Launch, onDisk, OpenLog
  <2>2. \A line \in RecordType : InPlace(line) => InPlace(line)'
    BY <2>1 DEF InPlace
  <2>3. QED
    BY <1>1, <1>2, <2>1, <2>2, PlainKeepsCommitted
<1>6. ASSUME Step PROVE CommittedInv'
  <2>1. /\ Sound(world) /\ world.tick < LastTick
        /\ \/ Adds(log, log', StepRecords(world))
           \/ Adds(log, log', StepRecords(world) \o SummaryRecord(world'))
        /\ UNCHANGED <<files, cmd>> /\ pc # "shell" /\ world' = Evolve(world)
    BY <1>1, <1>6, StepAdds DEF Step, onDisk
  <2>2. world'.tick = world.tick + 1 /\ world.tick \in Nat
    BY <1>2, <2>1, TickOfSound
  <2>3. Plain(SummaryRecord(world'))
    BY <2>2, PlainSingle DEF SummaryRecord, Kinds
  <2>4. Plain(StepRecords(world)) /\ Plain(StepRecords(world) \o SummaryRecord(world'))
    BY <2>1, <2>3, PlainStepRecords, PlainConcat
  <2>5. \A line \in RecordType : InPlace(line) => InPlace(line)'
    BY <1>2, <2>1, <2>2 DEF InPlace
  <2>6. QED
    BY <1>1, <2>1, <2>4, <2>5, PlainKeepsCommitted
<1>7. ASSUME RunEnds PROVE CommittedInv'
  <2>1. UNCHANGED <<files, cmd, world>> /\ pc # "shell"
    BY <1>7 DEF RunEnds, onDisk
  <2>2. Plain(SummaryRecord(world))
    BY <1>2, <2>1, PlainSingle DEF SummaryRecord, Kinds
  <2>3. \A line \in RecordType : InPlace(line) => InPlace(line)'
    BY <2>1 DEF InPlace
  <2>4. QED
    BY <1>1, <1>7, <2>2, <2>3, RunEndsAdds, PlainKeepsCommitted
<1>8. ASSUME \/ SaveRefused \/ OpenTemporary \/ WriteTemporary \/ WriteFails
             \/ UNCHANGED vars
      PROVE  CommittedInv'
  <2>1. UNCHANGED <<files, log, cmd, world>> /\ (pc = "shell" <=> pc' = "shell")
    BY <1>8 DEF SaveRefused, OpenTemporary, WriteTemporary, WriteFails, onDisk, vars
  <2>2. \A line \in RecordType : InPlace(line) => InPlace(line)'
    BY <2>1 DEF InPlace
  <2>3. QED
    BY <1>1, <1>2, <2>1, <2>2, PlainKeepsCommitted
<1>9. ASSUME Replace PROVE CommittedInv'
  <2>1. /\ UNCHANGED <<log, cmd, world>> /\ pc # "shell" /\ Sound(world)
        /\ cmd.cfg \in ConfigType /\ cmd.cfg.path \in Paths /\ DOMAIN files = Paths
        /\ files' = [files EXCEPT ![cmd.cfg.path] = Image(cmd.cfg, world)]
    BY <1>9, CommandPath DEF Replace, ExperimentInv, CourseInv, TypeInv
  <2>2. Image(cmd.cfg, world) # None /\ Image(cmd.cfg, world).world = world
    BY <2>1, ImageIsTyped
  <2>3. \A line \in RecordType : InPlace(line) => InPlace(line)'
    BY <2>1, <2>2 DEF InPlace
  <2>4. QED
    BY <1>1, <1>2, <2>1, <2>3, PlainKeepsCommitted
<1>10. ASSUME LogCheckpoint PROVE CommittedInv'
  <2> DEFINE r == <<Record("checkpoint", world, 0, cmd.cfg.path)>>
  <2>1. /\ UNCHANGED <<files, cmd, world>> /\ pc = "record" /\ pc' # "shell" /\ Sound(world)
        /\ cmd.cfg \in ConfigType /\ cmd.cfg.path \in Paths /\ DOMAIN files = Paths
        /\ files[cmd.cfg.path] = Image(cmd.cfg, world)
    BY <1>10, CommandPath
       DEF LogCheckpoint, onDisk, ExperimentInv, CourseInv, LastSaveInv, SavedHere, TypeInv
  <2>2. log'.lines = log.lines \o r
    BY <1>10, LogCheckpointAdds DEF Adds
  <2>3. Image(cmd.cfg, world) # None /\ Image(cmd.cfg, world).world = world
    BY <2>1, ImageIsTyped
  <2>4. r \in Seq(RecordType) /\ Len(r) = 1 /\ r[1].tick = world.tick /\ r[1].path = cmd.cfg.path
    <3>1. "checkpoint" \in Kinds /\ world.tick \in Nat /\ cmd.cfg.path \in Paths \cup {None}
      BY <1>2, <2>1 DEF Kinds
    <3>2. QED
      BY <3>1, SingleRecord
  <2> HIDE DEF r
  <2>5. InPlace(r[1])
    BY <1>2, <2>1, <2>3, <2>4 DEF InPlace
  <2>6. ASSUME NEW i \in 1..Len(log'.lines), log'.lines[i].kind = "checkpoint",
               NEW line, line = log'.lines[i]
        PROVE  InPlace(line)'
    <3>1. InPlace(line)
      <4>1. \/ i \in 1..Len(log.lines) /\ line = log.lines[i]
            \/ i - Len(log.lines) \in 1..Len(r) /\ line = r[i - Len(log.lines)]
        <5>1. i \in 1..Len(log.lines \o r) /\ line = (log.lines \o r)[i]
          BY <2>2, <2>6
        <5>2. QED
          BY <1>1, <2>4, <5>1, LinesOfConcat
      <4>2. CASE i \in 1..Len(log.lines) /\ line = log.lines[i]
        BY <2>6, <4>2 DEF CommittedInv
      <4>3. CASE i - Len(log.lines) \in 1..Len(r) /\ line = r[i - Len(log.lines)]
        <5>1. i - Len(log.lines) = 1
          BY <2>4, <4>3
        <5>2. QED
          BY <2>5, <4>3, <5>1
      <4>4. QED
        BY <4>1, <4>2, <4>3
    <3>2. QED
      BY <2>1, <3>1 DEF InPlace
  <2>7. QED
    BY <2>6 DEF CommittedInv, InPlace
<1>11. ASSUME Destroy PROVE CommittedInv'
  <2> DEFINE d == About("death", world, world.alive)
             e == <<Record("run_end", world, 0, None)>>
  <2>1. /\ d \in Seq(RecordType) /\ e \in Seq(RecordType)
        /\ Adds(log, log', d \o e)
        /\ \A i \in 1..Len(d) : d[i].kind = "death"
        /\ UNCHANGED files /\ pc' = "shell" /\ pc # "shell"
    BY <1>11, DestroyAdds DEF Destroy, onDisk
  <2>2. Plain(e)
    BY <1>2, <2>1, PlainSingle DEF Kinds
  <2> HIDE DEF d, e
  <2>3. Plain(d \o e)
    BY <2>1, <2>2, PlainConcat DEF Plain
  <2>4. \A line \in RecordType : InPlace(line) => InPlace(line)'
    BY <2>1 DEF InPlace
  <2>5. QED
    BY <1>1, <2>1, <2>3, <2>4, PlainKeepsCommitted
<1>12. ASSUME Crash PROVE CommittedInv'
  <2>1. UNCHANGED files /\ pc' = "shell" /\ log' = Lost(log)
    BY <1>12 DEF Crash, onDisk
  <2>2. PICK n \in 0..Len(log.lines) : log'.lines = SubSeq(log.lines, 1, n)
    BY <1>1, <2>1, LostIsPrefix
  <2>3. Len(log'.lines) = n /\ \A i \in 1..n : log'.lines[i] = log.lines[i]
    BY <1>1, <2>2
  <2>4. ASSUME NEW i \in 1..Len(log'.lines), log'.lines[i].kind = "checkpoint",
               NEW line, line = log'.lines[i]
        PROVE  InPlace(line)'
    <3>1. InPlace(line)
      BY <1>1, <2>2, <2>3, <2>4 DEF CommittedInv
    <3>2. QED
      BY <2>1, <3>1 DEF InPlace
  <2>5. QED
    BY <2>4 DEF CommittedInv, InPlace
<1>13. QED
  BY <1>3, <1>4, <1>5, <1>6, <1>7, <1>8, <1>9, <1>10, <1>11, <1>12
     DEF Next, Over, Process, User

\* A checkpoint that the log reports stands at its path, or a later one of the
\* same experiment does, whatever crashes came between the rename and the record.
THEOREM RecordsAreCommitted == Spec => []RecordedIsCommitted
<1>1. Init => TypeInv /\ ExperimentInv /\ CommittedInv
  BY TypeInit, InvInit, CommittedInit
<1>2. TypeInv /\ ExperimentInv /\ CommittedInv /\ [Next]_vars
      => (TypeInv /\ ExperimentInv /\ CommittedInv)'
  BY TypeKept, InvKept, CommittedKept
<1>3. TypeInv /\ CommittedInv => RecordedIsCommitted
  <2> SUFFICES ASSUME TypeInv, CommittedInv PROVE RecordedIsCommitted
    OBVIOUS
  <2>1. log.lines \in Seq(RecordType)
    BY DEF TypeInv, IsLog
  <2>2. DOMAIN log.lines = 1..Len(log.lines)
    BY <2>1
  <2>3. QED
    BY <2>2 DEF CommittedInv, InPlace, RecordedIsCommitted
<1>4. QED
  BY <1>1, <1>2, <1>3, PTL DEF Spec


(***************************************************************************)
(* Segments of the log                                                     *)
(***************************************************************************)
\* s is where the last segment of lines begins.
Current(lines, s) ==
    /\ s \in 1..Len(lines) /\ lines[s].kind = "run_start"
    /\ \A i \in 1..Len(lines) : i > s => lines[i].kind # "run_start"

\* The ids that records of a kind name, and those from the record s on.
Ids(lines, kind) == {lines[i].id : i \in {j \in 1..Len(lines) : lines[j].kind = kind}}
NamedFrom(lines, s, kind) ==
    {lines[i].id : i \in {j \in s..Len(lines) : lines[j].kind = kind}}

\* No record of an organism follows its death in the same segment.
Closed(lines) ==
    \A i, j \in 1..Len(lines) :
        (/\ i < j /\ lines[i].kind = "death"
         /\ \A k \in i..j : lines[k].kind # "run_start")
        => lines[j].id # lines[i].id

\* The segment from s on tells who is alive in w, and no id that it buries is
\* given again.
Tells(lines, s, w, before) ==
    /\ Current(lines, s)
    /\ w.alive = (before \cup NamedFrom(lines, s, "birth")) \ NamedFrom(lines, s, "death")
    /\ \A x \in NamedFrom(lines, s, "death") : x # 0 /\ x < w.nextId

\* No run_start among the records, and nothing after a death about the dead.
Continues(r) ==
    /\ r \in Seq(RecordType)
    /\ \A i \in 1..Len(r) : r[i].kind # "run_start"
    /\ \A i, j \in 1..Len(r) : i < j /\ r[i].kind = "death" => r[j].id # r[i].id

LEMMA RecordsAreTyped ==
    ASSUME NEW l \in Seq(RecordType)
    PROVE  /\ Len(l) \in Nat
           /\ \A i \in 1..Len(l) : l[i] \in RecordType /\ l[i].id \in Nat
<1>1. Len(l) \in Nat /\ \A i \in 1..Len(l) : l[i] \in RecordType
  OBVIOUS
<1>2. \A x \in RecordType : x.id \in Nat
  BY DEF RecordType
<1>3. QED
  BY <1>1, <1>2

LEMMA ConcatParts ==
    ASSUME NEW l \in Seq(RecordType), NEW r \in Seq(RecordType)
    PROVE  /\ l \o r \in Seq(RecordType) /\ Len(l \o r) = Len(l) + Len(r)
           /\ Len(l) \in Nat /\ Len(r) \in Nat
           /\ \A i \in 1..Len(l) : (l \o r)[i] = l[i]
           /\ \A i \in 1..Len(r) : (l \o r)[Len(l) + i] = r[i]
OBVIOUS

\* Records that continue a segment leave its start where it is, and name what
\* they name.
LEMMA ContinuesSegment ==
    ASSUME NEW l \in Seq(RecordType), NEW r, Continues(r), NEW s, Current(l, s)
    PROVE  /\ Current(l \o r, s) /\ (l \o r)[s] = l[s]
           /\ \A kind :
                  NamedFrom(l \o r, s, kind) = NamedFrom(l, s, kind) \cup Ids(r, kind)
<1> DEFINE c == l \o r
<1>1. /\ r \in Seq(RecordType) /\ Len(c) = Len(l) + Len(r)
      /\ Len(l) \in Nat /\ Len(r) \in Nat /\ s \in 1..Len(l)
      /\ \A i \in 1..Len(l) : c[i] = l[i]
      /\ \A i \in 1..Len(r) : c[Len(l) + i] = r[i]
      /\ \A i \in 1..Len(c) : \/ i \in 1..Len(l) /\ c[i] = l[i]
                              \/ i - Len(l) \in 1..Len(r) /\ c[i] = r[i - Len(l)]
  BY ConcatParts, LinesOfConcat DEF Continues, Current
<1> HIDE DEF c
<1>2. c[s] = l[s] /\ s \in 1..Len(c)
  BY <1>1
<1>3. Current(c, s)
  BY <1>1, <1>2 DEF Current, Continues
<1>4. ASSUME NEW kind
      PROVE  NamedFrom(c, s, kind) = NamedFrom(l, s, kind) \cup Ids(r, kind)
  <2>1. ASSUME NEW x \in NamedFrom(c, s, kind)
        PROVE  x \in NamedFrom(l, s, kind) \cup Ids(r, kind)
    <3>1. PICK i \in s..Len(c) : c[i].kind = kind /\ x = c[i].id
      BY <2>1 DEF NamedFrom
    <3>2. CASE i \in 1..Len(l) /\ c[i] = l[i]
      BY <1>1, <3>1, <3>2 DEF NamedFrom
    <3>3. CASE i - Len(l) \in 1..Len(r) /\ c[i] = r[i - Len(l)]
      BY <3>1, <3>3 DEF Ids
    <3>4. i \in 1..Len(c)
      BY <1>1, <3>1
    <3>5. QED
      BY <1>1, <3>2, <3>3, <3>4
  <2>2. ASSUME NEW x \in NamedFrom(l, s, kind) PROVE x \in NamedFrom(c, s, kind)
    <3>1. PICK i \in s..Len(l) : l[i].kind = kind /\ x = l[i].id
      BY <2>2 DEF NamedFrom
    <3>2. i \in s..Len(c) /\ c[i] = l[i]
      BY <1>1, <3>1
    <3>3. QED
      BY <3>1, <3>2 DEF NamedFrom
  <2>3. ASSUME NEW x \in Ids(r, kind) PROVE x \in NamedFrom(c, s, kind)
    <3>1. PICK i \in 1..Len(r) : r[i].kind = kind /\ x = r[i].id
      BY <2>3 DEF Ids
    <3>2. Len(l) + i \in s..Len(c) /\ c[Len(l) + i] = r[i]
      BY <1>1, <3>1
    <3>3. QED
      BY <3>1, <3>2 DEF NamedFrom
  <2>4. QED
    BY <2>1, <2>2, <2>3
<1>5. QED
  BY <1>2, <1>3, <1>4 DEF c

\* They leave the dead alone if none of them is about one whom the segment has
\* buried.
LEMMA ContinuesClosed ==
    ASSUME NEW l \in Seq(RecordType), Closed(l), NEW s, Current(l, s), NEW r, Continues(r),
           \A i \in 1..Len(r) : r[i].id \notin NamedFrom(l, s, "death")
    PROVE  Closed(l \o r)
<1> DEFINE c == l \o r
<1>1. /\ r \in Seq(RecordType) /\ Len(c) = Len(l) + Len(r)
      /\ Len(l) \in Nat /\ Len(r) \in Nat /\ s \in 1..Len(l)
      /\ \A i \in 1..Len(l) : c[i] = l[i]
      /\ \A i \in 1..Len(c) : \/ i \in 1..Len(l) /\ c[i] = l[i]
                              \/ i - Len(l) \in 1..Len(r) /\ c[i] = r[i - Len(l)]
  BY ConcatParts, LinesOfConcat DEF Continues, Current
<1> HIDE DEF c
<1>2. SUFFICES ASSUME NEW i \in 1..Len(c), NEW j \in 1..Len(c), i < j,
                      c[i].kind = "death", \A k \in i..j : c[k].kind # "run_start"
               PROVE  c[j].id # c[i].id
  BY DEF Closed, c
<1>3. CASE j \in 1..Len(l)
  <2>1. i \in 1..Len(l) /\ \A k \in i..j : k \in 1..Len(l) /\ c[k] = l[k]
    BY <1>1, <1>2, <1>3
  <2>2. c[i] = l[i] /\ c[j] = l[j] /\ \A k \in i..j : l[k].kind # "run_start"
    BY <1>1, <1>2, <1>3, <2>1
  <2>3. QED
    BY <1>2, <1>3, <2>1, <2>2 DEF Closed
<1>4. CASE j \notin 1..Len(l) /\ i \in 1..Len(l)
  <2>1. j - Len(l) \in 1..Len(r) /\ c[j] = r[j - Len(l)]
    BY <1>1, <1>4
  <2>2. i \in s..Len(l)
    <3>1. s \in i..j => FALSE
      BY <1>1, <1>2 DEF Current
    <3>2. s < j
      BY <1>1, <1>4
    <3>3. QED
      BY <1>1, <1>4, <3>1, <3>2
  <2>3. c[i].id \in NamedFrom(l, s, "death")
    BY <1>1, <1>2, <1>4, <2>2 DEF NamedFrom
  <2>4. QED
    BY <2>1, <2>3
<1>5. CASE i \notin 1..Len(l)
  <2>1. /\ i - Len(l) \in 1..Len(r) /\ c[i] = r[i - Len(l)]
        /\ j - Len(l) \in 1..Len(r) /\ c[j] = r[j - Len(l)]
        /\ i - Len(l) < j - Len(l)
    BY <1>1, <1>2, <1>5
  <2>2. QED
    BY <1>2, <2>1 DEF Continues
<1>6. QED
  BY <1>3, <1>4, <1>5

\* A run_start begins a segment, in which what came before does not count.
LEMMA StartsSegment ==
    ASSUME NEW l \in Seq(RecordType), Closed(l), NEW r \in Seq(RecordType),
           Len(r) >= 1, r[1].kind = "run_start",
           \A i \in 1..Len(r) : i > 1 => r[i].kind \notin {"run_start", "death"}
    PROVE  /\ Closed(l \o r) /\ Current(l \o r, Len(l) + 1)
           /\ (l \o r)[Len(l) + 1] = r[1]
           /\ \A kind : NamedFrom(l \o r, Len(l) + 1, kind) = Ids(r, kind)
<1> DEFINE c == l \o r
           s == Len(l) + 1
<1>1. /\ Len(c) = Len(l) + Len(r) /\ Len(l) \in Nat /\ Len(r) \in Nat
      /\ \A i \in 1..Len(l) : c[i] = l[i]
      /\ \A i \in 1..Len(r) : c[Len(l) + i] = r[i]
      /\ \A i \in 1..Len(c) : \/ i \in 1..Len(l) /\ c[i] = l[i]
                              \/ i - Len(l) \in 1..Len(r) /\ c[i] = r[i - Len(l)]
  BY ConcatParts, LinesOfConcat
<1> HIDE DEF c
<1>2. s \in 1..Len(c) /\ c[s] = r[1] /\ c[s].kind = "run_start"
  BY <1>1
<1>3. Current(c, s)
  <2>1. ASSUME NEW i \in 1..Len(c), i > s PROVE c[i].kind # "run_start"
    <3>1. i - Len(l) \in 1..Len(r) /\ c[i] = r[i - Len(l)] /\ i - Len(l) > 1
      BY <1>1, <2>1
    <3>2. QED
      BY <3>1
  <2>2. QED
    BY <1>2, <2>1 DEF Current
<1>4. Closed(c)
  <2>1. SUFFICES ASSUME NEW i \in 1..Len(c), NEW j \in 1..Len(c), i < j,
                        c[i].kind = "death", \A k \in i..j : c[k].kind # "run_start"
                 PROVE  c[j].id # c[i].id
    BY DEF Closed
  <2>2. s \notin i..j
    BY <1>2, <2>1
  <2>3. i \in 1..Len(l)
    <3>1. CASE i - Len(l) \in 1..Len(r) /\ c[i] = r[i - Len(l)]
      <4>1. i - Len(l) = 1 \/ i - Len(l) > 1
        BY <3>1
      <4>2. QED
        BY <2>1, <3>1, <4>1
    <3>2. QED
      BY <1>1, <3>1
  <2>4. j \in 1..Len(l) /\ \A k \in i..j : k \in 1..Len(l) /\ c[k] = l[k]
    BY <1>1, <2>1, <2>2, <2>3
  <2>5. c[i] = l[i] /\ c[j] = l[j] /\ \A k \in i..j : l[k].kind # "run_start"
    BY <1>1, <2>1, <2>3, <2>4
  <2>6. QED
    BY <2>1, <2>3, <2>4, <2>5 DEF Closed
<1>5. ASSUME NEW kind PROVE NamedFrom(c, s, kind) = Ids(r, kind)
  <2>1. ASSUME NEW x \in NamedFrom(c, s, kind) PROVE x \in Ids(r, kind)
    <3>1. PICK i \in s..Len(c) : c[i].kind = kind /\ x = c[i].id
      BY <2>1 DEF NamedFrom
    <3>2. i - Len(l) \in 1..Len(r) /\ c[i] = r[i - Len(l)]
      BY <1>1, <3>1
    <3>3. QED
      BY <3>1, <3>2 DEF Ids
  <2>2. ASSUME NEW x \in Ids(r, kind) PROVE x \in NamedFrom(c, s, kind)
    <3>1. PICK i \in 1..Len(r) : r[i].kind = kind /\ x = r[i].id
      BY <2>2 DEF Ids
    <3>2. Len(l) + i \in s..Len(c) /\ c[Len(l) + i] = r[i]
      BY <1>1, <3>1
    <3>3. QED
      BY <3>1, <3>2 DEF NamedFrom
  <2>3. QED
    BY <2>1, <2>2
<1>6. QED
  BY <1>2, <1>3, <1>4, <1>5 DEF c

LEMMA PrefixIsClosed ==
    ASSUME NEW l \in Seq(RecordType), Closed(l), NEW n \in 0..Len(l)
    PROVE  Closed(SubSeq(l, 1, n))
<1> DEFINE p == SubSeq(l, 1, n)
<1>1. Len(p) = n /\ \A i \in 1..n : p[i] = l[i]
  OBVIOUS
<1> HIDE DEF p
<1>2. SUFFICES ASSUME NEW i \in 1..n, NEW j \in 1..n, i < j,
                      p[i].kind = "death", \A k \in i..j : p[k].kind # "run_start"
               PROVE  p[j].id # p[i].id
  BY <1>1 DEF Closed, p
<1>3. /\ i \in 1..Len(l) /\ j \in 1..Len(l)
      /\ \A k \in i..j : k \in 1..n
  OBVIOUS
<1>4. QED
  BY <1>1, <1>2, <1>3 DEF Closed


\* A summary, a checkpoint or a run_end.
Silent(r) ==
    /\ r \in Seq(RecordType)
    /\ \A i \in 1..Len(r) : r[i].id = 0 /\ r[i].kind \notin {"run_start", "birth", "death"}

LEMMA SilentSingle ==
    ASSUME NEW kind \in {"summary", "checkpoint", "run_end"}, NEW w, w.tick \in Nat,
           NEW path \in Paths \cup {None}
    PROVE  Silent(<<Record(kind, w, 0, path)>>)
<1> DEFINE r == <<Record(kind, w, 0, path)>>
<1>1. kind \in Kinds
  BY DEF Kinds
<1>2. r \in Seq(RecordType) /\ Len(r) = 1 /\ r[1].kind = kind /\ r[1].id = 0
  BY <1>1, SingleRecord
<1> HIDE DEF r
<1>3. \A i \in 1..Len(r) : i = 1
  BY <1>2
<1>4. QED
  BY <1>2, <1>3 DEF Silent, r

LEMMA SilentKeepsTelling ==
    ASSUME NEW l \in Seq(RecordType), Closed(l), NEW s, NEW w, NEW before,
           Tells(l, s, w, before), NEW r, Silent(r)
    PROVE  /\ Closed(l \o r) /\ Tells(l \o r, s, w, before) /\ (l \o r)[s] = l[s]
<1>1. Continues(r)
  BY DEF Silent, Continues
<1>2. Ids(r, "birth") = {} /\ Ids(r, "death") = {}
  BY DEF Silent, Ids
<1>3. Current(l, s) /\ \A x \in NamedFrom(l, s, "death") : x # 0
  BY DEF Tells
<1>4. Closed(l \o r)
  BY <1>1, <1>3, ContinuesClosed DEF Silent
<1>5. /\ Current(l \o r, s) /\ (l \o r)[s] = l[s]
      /\ NamedFrom(l \o r, s, "birth") = NamedFrom(l, s, "birth")
      /\ NamedFrom(l \o r, s, "death") = NamedFrom(l, s, "death")
  <2>1. Current(l, s)
    BY <1>3
  <2>2. /\ Current(l \o r, s) /\ (l \o r)[s] = l[s]
        /\ \A kind : NamedFrom(l \o r, s, kind) = NamedFrom(l, s, kind) \cup Ids(r, kind)
    BY <1>1, <2>1, ContinuesSegment, Zenon
  <2>3. NamedFrom(l \o r, s, "birth") = NamedFrom(l, s, "birth") \cup {}
    BY <1>2, <2>2, Zenon
  <2>4. NamedFrom(l \o r, s, "death") = NamedFrom(l, s, "death") \cup {}
    BY <1>2, <2>2, Zenon
  <2>5. QED
    BY <2>2, <2>3, <2>4, Zenon
<1>6. QED
  BY <1>4, <1>5 DEF Tells

\* The records of a tick are about its births and deaths, and in order.
LEMMA TickContinues ==
    ASSUME NEW w, Sound(w), w.tick < LastTick
    PROVE  /\ Continues(StepRecords(w))
           /\ Ids(StepRecords(w), "birth") = Newborn(w)
           /\ Ids(StepRecords(w), "death") = Dying(w)
           /\ \A i \in 1..Len(StepRecords(w)) :
                  StepRecords(w)[i].id \in w.alive \cup Newborn(w)
<1> DEFINE b == About("birth", w, Newborn(w))
           d == About("death", w, Dying(w))
           r == b \o d
<1>1. /\ b \in Seq(RecordType) /\ d \in Seq(RecordType)
      /\ StepRecords(w) = r
      /\ \A i \in 1..Len(b) : b[i].kind = "birth" /\ b[i].id \in Newborn(w)
      /\ \A x \in Newborn(w) : \E i \in 1..Len(b) : b[i].id = x
      /\ \A i \in 1..Len(d) : d[i].kind = "death" /\ d[i].id \in Dying(w)
      /\ \A x \in Dying(w) : \E i \in 1..Len(d) : d[i].id = x
      /\ \A i, j \in 1..Len(d) : i < j => d[i].id # d[j].id
  BY TickRecords
<1>2. Dying(w) \subseteq w.alive \cup Newborn(w)
  BY TickOfSound
<1> HIDE DEF b, d
<1>3. /\ r \in Seq(RecordType) /\ Len(r) = Len(b) + Len(d) /\ Len(b) \in Nat /\ Len(d) \in Nat
      /\ \A i \in 1..Len(b) : r[i] = b[i]
      /\ \A i \in 1..Len(d) : r[Len(b) + i] = d[i]
      /\ \A i \in 1..Len(r) : \/ i \in 1..Len(b) /\ r[i] = b[i]
                              \/ i - Len(b) \in 1..Len(d) /\ r[i] = d[i - Len(b)]
  BY <1>1, ConcatParts, LinesOfConcat
<1> HIDE DEF r
<1>4. \A i \in 1..Len(r) :
          /\ r[i].kind # "run_start" /\ r[i].id \in w.alive \cup Newborn(w)
          /\ r[i].kind = "birth" => r[i].id \in Newborn(w)
          /\ r[i].kind = "death" =>
                 /\ i - Len(b) \in 1..Len(d) /\ r[i] = d[i - Len(b)]
                 /\ r[i].id \in Dying(w)
  <2> SUFFICES ASSUME NEW i \in 1..Len(r)
               PROVE  /\ r[i].kind # "run_start" /\ r[i].id \in w.alive \cup Newborn(w)
                      /\ r[i].kind = "birth" => r[i].id \in Newborn(w)
                      /\ r[i].kind = "death" =>
                             /\ i - Len(b) \in 1..Len(d) /\ r[i] = d[i - Len(b)]
                             /\ r[i].id \in Dying(w)
    OBVIOUS
  <2>1. CASE i \in 1..Len(b) /\ r[i] = b[i]
    BY <1>1, <2>1
  <2>2. CASE i - Len(b) \in 1..Len(d) /\ r[i] = d[i - Len(b)]
    BY <1>1, <1>2, <2>2
  <2>3. QED
    BY <1>3, <2>1, <2>2
<1>5. ASSUME NEW i \in 1..Len(r), NEW j \in 1..Len(r), i < j, r[i].kind = "death"
      PROVE  r[j].id # r[i].id
  <2>1. i - Len(b) \in 1..Len(d) /\ r[i] = d[i - Len(b)]
    BY <1>4, <1>5
  <2>2. j - Len(b) \in 1..Len(d) /\ i - Len(b) < j - Len(b)
    BY <1>3, <1>5, <2>1
  <2>3. r[j] = d[j - Len(b)]
    BY <1>3, <2>2
  <2>4. QED
    BY <1>1, <2>1, <2>2, <2>3
<1>6. Continues(r)
  BY <1>3, <1>4, <1>5 DEF Continues
<1>7. Ids(r, "birth") = Newborn(w)
  <2>1. ASSUME NEW x \in Newborn(w) PROVE x \in Ids(r, "birth")
    <3>1. PICK i \in 1..Len(b) : b[i].id = x
      BY <1>1, <2>1
    <3>2. i \in 1..Len(r) /\ r[i].kind = "birth" /\ r[i].id = x
      BY <1>1, <1>3, <3>1
    <3>3. QED
      BY <3>2 DEF Ids
  <2>2. QED
    BY <1>4, <2>1 DEF Ids
<1>8. Ids(r, "death") = Dying(w)
  <2>1. ASSUME NEW x \in Dying(w) PROVE x \in Ids(r, "death")
    <3>1. PICK i \in 1..Len(d) : d[i].id = x
      BY <1>1, <2>1
    <3>2. Len(b) + i \in 1..Len(r) /\ r[Len(b) + i] = d[i]
      BY <1>3, <3>1
    <3>3. QED
      BY <1>1, <3>1, <3>2 DEF Ids
  <2>2. QED
    BY <1>4, <2>1 DEF Ids
<1>9. QED
  BY <1>1, <1>4, <1>6, <1>7, <1>8

LEMMA TickKeepsTelling ==
    ASSUME NEW l \in Seq(RecordType), Closed(l), NEW s, NEW w, NEW before,
           Tells(l, s, w, before), Sound(w), w.tick < LastTick
    PROVE  LET c == l \o StepRecords(w)
           IN  Closed(c) /\ Tells(c, s, Evolve(w), before) /\ c[s] = l[s]
<1> DEFINE r == StepRecords(w)
           B == NamedFrom(l, s, "birth")
           D == NamedFrom(l, s, "death")
<1>1. /\ Continues(r) /\ Ids(r, "birth") = Newborn(w) /\ Ids(r, "death") = Dying(w)
      /\ \A i \in 1..Len(r) : r[i].id \in w.alive \cup Newborn(w)
  BY TickContinues
<1>2. /\ Current(l, s) /\ w.alive = (before \cup B) \ D
      /\ \A x \in D : x # 0 /\ x < w.nextId
  BY DEF Tells
<1>3. /\ \A x \in Newborn(w) : x >= w.nextId /\ x < w.nextId + BirthsOf(w)
      /\ Dying(w) \subseteq w.alive \cup Newborn(w)
      /\ BirthsOf(w) \in Nat /\ Evolve(w).nextId = w.nextId + BirthsOf(w)
      /\ Evolve(w).alive = (w.alive \cup Newborn(w)) \ Dying(w)
      /\ Newborn(w) \in SUBSET Nat
  BY TickOfSound
<1>4. w.nextId \in Nat \ {0} /\ \A x \in w.alive : x \in Nat /\ x # 0 /\ x < w.nextId
  <2>1. w.nextId \in Nat \ {0} /\ w.alive \subseteq 1 .. w.nextId - 1
    BY DEF Sound, WorldType
  <2>2. QED
    BY <2>1
<1>5. D \subseteq Nat
  <2>1. ASSUME NEW x \in D PROVE x \in Nat
    <3>1. PICK i \in s..Len(l) : x = l[i].id
      BY <2>1 DEF NamedFrom
    <3>2. i \in 1..Len(l)
      BY <1>2, <3>1 DEF Current
    <3>3. QED
      BY <3>1, <3>2, RecordsAreTyped
  <2>2. QED
    BY <2>1
<1> HIDE DEF r, B, D
<1>6. \A x \in Newborn(w) : x \notin D
  BY <1>2, <1>3, <1>4, <1>5
<1>7. \A i \in 1..Len(r) : r[i].id \notin D
  BY <1>1, <1>2, <1>6
<1>8. Closed(l \o r)
  BY <1>1, <1>2, <1>7, ContinuesClosed DEF D
<1>9. /\ Current(l \o r, s) /\ (l \o r)[s] = l[s]
      /\ NamedFrom(l \o r, s, "birth") = B \cup Newborn(w)
      /\ NamedFrom(l \o r, s, "death") = D \cup Dying(w)
  <2>1. Current(l, s)
    BY <1>2
  <2>2. /\ Current(l \o r, s) /\ (l \o r)[s] = l[s]
        /\ \A kind : NamedFrom(l \o r, s, kind) = NamedFrom(l, s, kind) \cup Ids(r, kind)
    BY <1>1, <2>1, ContinuesSegment, Zenon
  <2>3. NamedFrom(l \o r, s, "birth") = B \cup Newborn(w)
    BY <1>1, <2>2, Zenon DEF B
  <2>4. NamedFrom(l \o r, s, "death") = D \cup Dying(w)
    BY <1>1, <2>2, Zenon DEF D
  <2>5. QED
    BY <2>2, <2>3, <2>4
<1>10. Evolve(w).alive = (before \cup (B \cup Newborn(w))) \ (D \cup Dying(w))
  BY <1>2, <1>3, <1>6
<1>11. ASSUME NEW x \in D \cup Dying(w) PROVE x # 0 /\ x < Evolve(w).nextId
  <2>1. CASE x \in D
    BY <1>2, <1>3, <1>4, <1>5, <2>1
  <2>2. CASE x \in w.alive
    BY <1>3, <1>4, <2>2
  <2>3. CASE x \in Newborn(w)
    BY <1>3, <1>4, <2>3
  <2>4. QED
    BY <1>3, <1>11, <2>1, <2>2, <2>3
<1>12. Tells(l \o r, s, Evolve(w), before)
  BY <1>9, <1>10, <1>11 DEF Tells
<1>13. QED
  BY <1>8, <1>9, <1>12 DEF r

\* The records with which a process leaves are the deaths of who was alive.
LEMMA ShutdownIsClosed ==
    ASSUME NEW l \in Seq(RecordType), Closed(l), NEW s, NEW w, NEW before,
           Tells(l, s, w, before), 0 \notin w.alive,
           NEW d, NEW e, d \in Seq(RecordType), Silent(e),
           \A i \in 1..Len(d) : d[i].kind = "death" /\ d[i].id \in w.alive,
           \A i, j \in 1..Len(d) : i < j => d[i].id # d[j].id
    PROVE  Closed(l \o (d \o e))
<1> DEFINE r == d \o e
<1>1. /\ e \in Seq(RecordType)
      /\ r \in Seq(RecordType) /\ Len(r) = Len(d) + Len(e) /\ Len(d) \in Nat /\ Len(e) \in Nat
      /\ \A i \in 1..Len(r) : \/ i \in 1..Len(d) /\ r[i] = d[i]
                              \/ i - Len(d) \in 1..Len(e) /\ r[i] = e[i - Len(d)]
  BY ConcatParts, LinesOfConcat DEF Silent
<1> HIDE DEF r
<1>2. \A i \in 1..Len(r) :
          \/ i \in 1..Len(d) /\ r[i] = d[i] /\ r[i].kind = "death" /\ r[i].id \in w.alive
          \/ i > Len(d) /\ r[i].id = 0 /\ r[i].kind \notin {"run_start", "death"}
  BY <1>1 DEF Silent
<1>3. ASSUME NEW i \in 1..Len(r), NEW j \in 1..Len(r), i < j, r[i].kind = "death"
      PROVE  r[j].id # r[i].id
  <2>1. i \in 1..Len(d) /\ r[i] = d[i] /\ r[i].id \in w.alive
    BY <1>2, <1>3
  <2>2. CASE j \in 1..Len(d) /\ r[j] = d[j]
    BY <1>3, <2>1, <2>2
  <2>3. CASE r[j].id = 0
    BY <2>1, <2>3
  <2>4. QED
    BY <1>2, <2>2, <2>3
<1>4. Continues(r)
  BY <1>1, <1>2, <1>3 DEF Continues
<1>5. \A i \in 1..Len(r) : r[i].id \notin NamedFrom(l, s, "death")
  BY <1>2 DEF Tells
<1>6. Current(l, s)
  BY DEF Tells
<1>7. QED
  BY <1>4, <1>5, <1>6, ContinuesClosed DEF r


\* Who was alive when the segment from s on began.
Before(s) ==
    IF cmd.resume THEN History[cmd.cfg.rules][log.lines[s].tick].alive ELSE {}

SegmentInv ==
    /\ Closed(log.lines)
    /\ pc # "shell" =>
           \E s \in 1..Len(log.lines) : Tells(log.lines, s, world, Before(s))

LEMMA SegmentInit == Init => SegmentInv
BY NoLogIsLog DEF Init, SegmentInv, Closed

LEMMA LaunchKeepsSegment ==
    ASSUME TypeInv, ExperimentInv, ExperimentInv', SegmentInv, User
    PROVE  SegmentInv'
<1>1. CourseInv /\ IsLog(log) /\ log.lines \in Seq(RecordType) /\ Closed(log.lines)
  BY DEF ExperimentInv, TypeInv, IsLog, SegmentInv
<1>2. ASSUME NEW c \in Configs, NEW given \in Paths \cup {None}, Run(c, given)
      PROVE  SegmentInv'
  <2> DEFINE b == About("birth", Blank, SeedIds)
             a == StartRecord(Blank)
             r == a \o b
             n == NoLog.lines
  <2>1. /\ a \in Seq(RecordType) /\ b \in Seq(RecordType)
        /\ log'.lines = n \o r
        /\ \A i \in 1..Len(b) : b[i].kind = "birth" /\ b[i].id \in SeedIds
        /\ \A x \in SeedIds : \E i \in 1..Len(b) : b[i].id = x
    BY <1>2, RunAdds DEF Adds
  <2>2. Len(a) = 1 /\ a[1].kind = "run_start"
    BY DEF StartRecord, Record
  <2>3. world'.alive = SeedIds /\ ~cmd'.resume
    <3>1. Launch(FALSE, c, given) /\ world' = Seeds(cmd'.cfg.rules)
      BY <1>2 DEF Run
    <3>2. QED
      BY <3>1, EffectiveCommand DEF Seeds
  <2>4. n \in Seq(RecordType) /\ Len(n) = 0 /\ Closed(n)
    BY NoLogIsLog DEF IsLog, Closed
  <2> HIDE DEF a, b, n
  <2>5. /\ r \in Seq(RecordType) /\ Len(r) = 1 + Len(b) /\ r[1] = a[1] /\ Len(b) \in Nat
        /\ \A i \in 1..Len(b) : r[1 + i] = b[i]
        /\ \A i \in 1..Len(r) : i > 1 => i - 1 \in 1..Len(b) /\ r[i] = b[i - 1]
    <3>1. /\ r \in Seq(RecordType) /\ Len(r) = Len(a) + Len(b) /\ Len(b) \in Nat
          /\ \A i \in 1..Len(a) : r[i] = a[i]
          /\ \A i \in 1..Len(b) : r[Len(a) + i] = b[i]
      BY <2>1, ConcatParts
    <3> HIDE DEF r
    <3>2. \A i \in 1..Len(b) : r[1 + i] = b[i]
      BY <2>2, <3>1
    <3>3. ASSUME NEW i \in 1..Len(r), i > 1 PROVE i - 1 \in 1..Len(b) /\ r[i] = b[i - 1]
      <4>1. i - 1 \in 1..Len(b) /\ 1 + (i - 1) = i
        BY <2>2, <3>1, <3>3
      <4>2. r[1 + (i - 1)] = b[i - 1]
        BY <3>2, <4>1
      <4>3. QED
        BY <4>1, <4>2
    <3>4. QED
      BY <2>2, <3>1, <3>2, <3>3
  <2> HIDE DEF r
  <2>6. \A i \in 1..Len(r) : i > 1 => r[i].kind = "birth" /\ r[i].id \in SeedIds
    <3>1. ASSUME NEW i \in 1..Len(r), i > 1
          PROVE  r[i].kind = "birth" /\ r[i].id \in SeedIds
      <4>1. i - 1 \in 1..Len(b) /\ r[i] = b[i - 1]
        BY <2>5, <3>1
      <4>2. QED
        BY <2>1, <4>1
    <3>2. QED
      BY <3>1
  <2>7. Ids(r, "birth") = SeedIds
    <3>1. ASSUME NEW x \in SeedIds PROVE x \in Ids(r, "birth")
      <4>1. PICK i \in 1..Len(b) : b[i].id = x
        BY <2>1, <3>1
      <4>2. 1 + i \in 1..Len(r) /\ r[1 + i] = b[i] /\ b[i].kind = "birth"
        BY <2>1, <2>5, <4>1
      <4>3. QED
        BY <4>1, <4>2 DEF Ids
    <3>2. ASSUME NEW x \in Ids(r, "birth") PROVE x \in SeedIds
      <4>1. PICK i \in 1..Len(r) : r[i].kind = "birth" /\ r[i].id = x
        BY <3>2 DEF Ids
      <4>2. i # 1
        BY <2>2, <2>5, <4>1
      <4>3. QED
        BY <2>6, <4>1, <4>2
    <3>3. QED
      BY <3>1, <3>2
  <2>8. Ids(r, "death") = {}
    <3>1. \A i \in 1..Len(r) : r[i].kind # "death"
      BY <2>2, <2>5, <2>6
    <3>2. QED
      BY <3>1 DEF Ids
  <2>9. /\ Len(r) >= 1 /\ r[1].kind = "run_start"
        /\ \A i \in 1..Len(r) : i > 1 => r[i].kind \notin {"run_start", "death"}
    BY <2>2, <2>5, <2>6
  <2>10. /\ Closed(n \o r) /\ Current(n \o r, Len(n) + 1)
         /\ \A kind : NamedFrom(n \o r, Len(n) + 1, kind) = Ids(r, kind)
    BY <2>4, <2>5, <2>9, StartsSegment, Zenon
  <2>11. /\ NamedFrom(n \o r, Len(n) + 1, "birth") = SeedIds
         /\ NamedFrom(n \o r, Len(n) + 1, "death") = {}
    BY <2>7, <2>8, <2>10, Zenon
  <2>12. Tells(log'.lines, Len(n) + 1, world', {})
    BY <2>1, <2>3, <2>10, <2>11 DEF Tells
  <2>13. Before(Len(n) + 1)' = {}
    BY <2>3 DEF Before
  <2>14. Len(n) + 1 \in 1..Len(log'.lines)
    BY <2>12 DEF Tells, Current
  <2>15. QED
    BY <2>1, <2>10, <2>12, <2>13, <2>14 DEF SegmentInv, Before
<1>3. ASSUME NEW c \in Configs, NEW given \in Paths, Resume(c, given)
      PROVE  SegmentInv'
  <2> DEFINE r == StartRecord(world')
             l == log.lines
  <2> SUFFICES ASSUME NEW s, s = Len(l) + 1 PROVE SegmentInv'
    OBVIOUS
  <2>1. /\ Sound(world') /\ cmd'.resume = TRUE /\ pc' = "run"
    BY <1>1, <1>3, ResumeRestores
  <2>2. r \in Seq(RecordType) /\ log'.lines = l \o r
    BY <1>1, <1>3, <2>1, ResumeAdds DEF Adds
  <2>3. Len(r) = 1 /\ r[1].kind = "run_start" /\ r[1].tick = world'.tick
    BY DEF StartRecord, Record
  <2>4. world' = History[cmd'.cfg.rules][world'.tick]
    BY <2>1 DEF ExperimentInv, CourseInv, OnCourse
  <2> HIDE DEF r
  <2>5. \A i \in 1..Len(r) : i = 1
    BY <2>3
  <2>6. Ids(r, "birth") = {} /\ Ids(r, "death") = {}
    BY <2>3, <2>5 DEF Ids
  <2>7. /\ Closed(l \o r) /\ Current(l \o r, s) /\ (l \o r)[s] = r[1]
        /\ \A kind : NamedFrom(l \o r, s, kind) = Ids(r, kind)
    <3>1. Len(r) >= 1 /\ \A i \in 1..Len(r) : i > 1 => r[i].kind \notin {"run_start", "death"}
      BY <2>3, <2>5
    <3>2. QED
      BY <1>1, <2>2, <2>3, <3>1, StartsSegment, Zenon
  <2>8. NamedFrom(l \o r, s, "birth") = {} /\ NamedFrom(l \o r, s, "death") = {}
    BY <2>6, <2>7, Zenon
  <2> HIDE DEF l
  <2>9. Before(s)' = world'.alive
    BY <2>1, <2>2, <2>3, <2>4, <2>7 DEF Before
  <2>10. Tells(log'.lines, s, world', world'.alive)
    BY <2>2, <2>7, <2>8 DEF Tells
  <2>11. s \in 1..Len(log'.lines)
    BY <2>10 DEF Tells, Current
  <2>12. QED
    BY <2>2, <2>7, <2>9, <2>10, <2>11 DEF SegmentInv
<1>4. ASSUME NEW c \in Configs, NEW given \in Paths, ResumeRefused(c, given)
      PROVE  SegmentInv'
  BY <1>1, <1>4 DEF ResumeRefused, Launch, OpenLog, SegmentInv
<1>5. QED
  BY <1>2, <1>3, <1>4 DEF User

LEMMA ConcatOfRecords ==
    ASSUME NEW l \in Seq(RecordType), NEW t \in Seq(RecordType), NEW m \in Seq(RecordType)
    PROVE  l \o (t \o m) = (l \o t) \o m
BY ConcatAssociative

LEMMA ProcessKeepsSegment ==
    ASSUME TypeInv, CourseInv, SegmentInv, Process \/ Crash \/ UNCHANGED vars
    PROVE  SegmentInv'
<1>1. IsLog(log) /\ log.lines \in Seq(RecordType) /\ Closed(log.lines)
  BY DEF TypeInv, IsLog, SegmentInv
<1>2. pc # "shell" => Sound(world) /\ world.tick \in Nat
  BY BoundAssumption DEF TypeInv, Sound, WorldType
<1>3. ASSUME Step PROVE SegmentInv'
  <2> DEFINE t == StepRecords(world)
             m == SummaryRecord(world')
             c == log.lines \o t
  <2>1. /\ Sound(world) /\ world.tick < LastTick /\ pc # "shell"
        /\ world' = Evolve(world) /\ cmd' = cmd
        /\ t \in Seq(RecordType) /\ m \in Seq(RecordType)
        /\ log'.lines = c \/ log'.lines = log.lines \o (t \o m)
    BY <1>3, StepAdds DEF Step, Adds
  <2>2. PICK s \in 1..Len(log.lines) : Tells(log.lines, s, world, Before(s))
    BY <2>1 DEF SegmentInv
  <2>3. Closed(c) /\ Tells(c, s, world', Before(s)) /\ c[s] = log.lines[s]
    BY <1>1, <2>1, <2>2, TickKeepsTelling
  <2>4. Silent(m)
    <3>1. world'.tick \in Nat
      BY <2>1, TickOfSound, BoundAssumption DEF Sound, WorldType
    <3>2. QED
      BY <3>1, SilentSingle DEF SummaryRecord
  <2>5. c \in Seq(RecordType) /\ log.lines \o (t \o m) = c \o m
    <3>1. c \in Seq(RecordType)
      BY <1>1, <2>1
    <3>2. log.lines \o (t \o m) = (log.lines \o t) \o m
      BY <1>1, <2>1, ConcatOfRecords, Zenon
    <3>3. QED
      BY <3>1, <3>2
  <2>6. /\ Closed(c \o m) /\ Tells(c \o m, s, world', Before(s))
        /\ (c \o m)[s] = log.lines[s]
    BY <2>3, <2>4, <2>5, SilentKeepsTelling
  <2>7. /\ Closed(log'.lines) /\ Tells(log'.lines, s, world', Before(s))
        /\ log'.lines[s] = log.lines[s]
    BY <2>1, <2>3, <2>5, <2>6
  <2>8. Before(s)' = Before(s) /\ s \in 1..Len(log'.lines)
    BY <2>1, <2>7 DEF Before, Tells, Current
  <2>9. QED
    BY <2>7, <2>8 DEF SegmentInv
<1>4. ASSUME RunEnds \/ LogCheckpoint PROVE SegmentInv'
  <2>1. pc # "shell" /\ UNCHANGED <<cmd, world>>
    BY <1>4 DEF RunEnds, LogCheckpoint
  <2>2. \/ log' = log
        \/ \E r : Silent(r) /\ log'.lines = log.lines \o r
    <3>1. CASE RunEnds
      <4>1. Silent(SummaryRecord(world))
        BY <1>2, <2>1, SilentSingle DEF SummaryRecord
      <4>2. QED
        BY <3>1, <4>1, RunEndsAdds DEF Adds
    <3>2. CASE LogCheckpoint
      <4>1. cmd.cfg.path \in Paths \cup {None}
        BY CommandPath
      <4>2. Silent(<<Record("checkpoint", world, 0, cmd.cfg.path)>>)
        BY <1>2, <2>1, <4>1, SilentSingle
      <4>3. QED
        BY <3>2, <4>2, LogCheckpointAdds DEF Adds
    <3>3. QED
      BY <1>4, <3>1, <3>2
  <2>3. PICK s \in 1..Len(log.lines) : Tells(log.lines, s, world, Before(s))
    BY <2>1 DEF SegmentInv
  <2>4. /\ Closed(log'.lines) /\ Tells(log'.lines, s, world, Before(s))
        /\ log'.lines[s] = log.lines[s]
    <3>1. CASE log' = log
      BY <1>1, <2>3, <3>1
    <3>2. ASSUME NEW r, Silent(r), log'.lines = log.lines \o r
          PROVE  /\ Closed(log'.lines) /\ Tells(log'.lines, s, world, Before(s))
                 /\ log'.lines[s] = log.lines[s]
      <4>1. /\ Closed(log.lines \o r) /\ Tells(log.lines \o r, s, world, Before(s))
            /\ (log.lines \o r)[s] = log.lines[s]
        BY <1>1, <2>3, <3>2, SilentKeepsTelling, Zenon
      <4>2. QED
        BY <3>2, <4>1, Zenon
    <3>3. QED
      BY <2>2, <3>1, <3>2, Zenon
  <2>5. Before(s)' = Before(s) /\ s \in 1..Len(log'.lines)
    BY <2>1, <2>4 DEF Before, Tells, Current
  <2>6. QED
    BY <2>1, <2>4, <2>5 DEF SegmentInv
<1>5. ASSUME \/ SaveRefused \/ OpenTemporary \/ WriteTemporary \/ WriteFails \/ Replace
             \/ UNCHANGED vars
      PROVE  SegmentInv'
  <2>1. UNCHANGED <<log, cmd, world>> /\ (pc' # "shell" => pc # "shell")
    BY <1>5 DEF SaveRefused, OpenTemporary, WriteTemporary, WriteFails, Replace, vars
  <2>2. QED
    BY <2>1 DEF SegmentInv, Before
<1>6. ASSUME Destroy PROVE SegmentInv'
  <2> DEFINE d == About("death", world, world.alive)
             e == <<Record("run_end", world, 0, None)>>
  <2>1. /\ d \in Seq(RecordType) /\ log'.lines = log.lines \o (d \o e)
        /\ \A i \in 1..Len(d) : d[i].kind = "death" /\ d[i].id \in world.alive
        /\ \A i, j \in 1..Len(d) : i < j => d[i].id # d[j].id
        /\ pc # "shell" /\ pc' = "shell"
    BY <1>6, DestroyAdds DEF Destroy, Adds
  <2>2. PICK s \in 1..Len(log.lines) : Tells(log.lines, s, world, Before(s))
    BY <2>1 DEF SegmentInv
  <2>3. Silent(e)
    BY <1>2, <2>1, SilentSingle
  <2>4. 0 \notin world.alive
    BY <1>2, <2>1 DEF Sound
  <2> HIDE DEF d, e
  <2>5. Closed(log'.lines)
    BY <1>1, <2>1, <2>2, <2>3, <2>4, ShutdownIsClosed
  <2>6. QED
    BY <2>1, <2>5 DEF SegmentInv
<1>7. ASSUME Crash PROVE SegmentInv'
  <2>1. pc' = "shell" /\ log' = Lost(log)
    BY <1>7 DEF Crash
  <2>2. PICK n \in 0..Len(log.lines) : log'.lines = SubSeq(log.lines, 1, n)
    BY <1>1, <2>1, LostIsPrefix
  <2>3. QED
    BY <1>1, <2>1, <2>2, PrefixIsClosed DEF SegmentInv
<1>8. QED
  BY <1>3, <1>4, <1>5, <1>6, <1>7 DEF Process

LEMMA SegmentsAreKept == Spec => [](TypeInv /\ ExperimentInv /\ SegmentInv)
<1>1. Init => TypeInv /\ ExperimentInv /\ SegmentInv
  BY TypeInit, InvInit, SegmentInit
<1>2. TypeInv /\ ExperimentInv /\ SegmentInv /\ [Next]_vars
      => (TypeInv /\ ExperimentInv /\ SegmentInv)'
  <2> SUFFICES ASSUME TypeInv, ExperimentInv, SegmentInv, [Next]_vars
               PROVE  (TypeInv /\ ExperimentInv /\ SegmentInv)'
    OBVIOUS
  <2>1. TypeInv' /\ ExperimentInv' /\ CourseInv
    BY TypeKept, InvKept DEF ExperimentInv
  <2>2. SegmentInv'
    BY <2>1, LaunchKeepsSegment, ProcessKeepsSegment DEF Next, Over
  <2>3. QED
    BY <2>1, <2>2
<1>3. QED
  BY <1>1, <1>2, PTL DEF Spec

\* No record of an organism follows its death within a segment of the log: not
\* the shutdown's, which reports the death of whoever is left, and not after a
\* crash has cut the segment short.
THEOREM DeathsEndSegments == Spec => []DeathEndsSegment
<1>1. TypeInv /\ SegmentInv => DeathEndsSegment
  <2> SUFFICES ASSUME TypeInv, SegmentInv PROVE DeathEndsSegment
    OBVIOUS
  <2>1. DOMAIN log.lines = 1..Len(log.lines)
    BY DEF TypeInv, IsLog
  <2>2. QED
    BY <2>1 DEF SegmentInv, Closed, DeathEndsSegment
<1>2. QED
  BY <1>1, SegmentsAreKept, PTL

\* From the records of its segment, births and deaths on top of the population
\* that a resume restores, a reader of the log derives who is alive.
THEOREM SegmentsTellPopulation == Spec => []SegmentTellsPopulation
<1>1. TypeInv /\ SegmentInv => SegmentTellsPopulation
  <2> SUFFICES ASSUME TypeInv, SegmentInv, pc # "shell"
               PROVE  LET start == log.lines[SegmentStart].tick
                          before == IF cmd.resume THEN History[cmd.cfg.rules][start].alive
                                    ELSE {}
                      IN  world.alive = (before \cup Named("birth")) \ Named("death")
    BY DEF SegmentTellsPopulation
  <2>1. PICK s \in 1..Len(log.lines) : Tells(log.lines, s, world, Before(s))
    BY DEF SegmentInv
  <2>2. DOMAIN log.lines = 1..Len(log.lines) /\ Len(log.lines) \in Nat
    BY DEF TypeInv, IsLog
  <2> DEFINE S == {i \in DOMAIN log.lines : log.lines[i].kind = "run_start"}
  <2>3. s \in S /\ \A i \in S : i \in Int /\ s >= i
    BY <2>1, <2>2 DEF Tells, Current
  <2>4. SegmentStart = s
    <3>1. SegmentStart = Max(S)
      BY DEF SegmentStart
    <3> HIDE DEF S
    <3>2. Max(S) \in S /\ \A i \in S : Max(S) >= i
      BY <2>3 DEF Max
    <3>3. QED
      <4>1. Max(S) \in Int /\ s \in Int /\ s >= Max(S) /\ Max(S) >= s
        BY <2>3, <3>2
      <4>2. Max(S) = s
        BY <4>1
      <4>3. QED
        BY <3>1, <4>2, Zenon
  <2>5. Named("birth") = NamedFrom(log.lines, s, "birth")
    BY <2>4, Zenon DEF Named, NamedFrom
  <2>6. Named("death") = NamedFrom(log.lines, s, "death")
    BY <2>4, Zenon DEF Named, NamedFrom
  <2>7. QED
    BY <2>1, <2>4, <2>5, <2>6, Zenon DEF Tells, Before
<1>2. QED
  BY <1>1, SegmentsAreKept, PTL

=============================================================================
