----------------------------- MODULE Experiment -----------------------------
(***************************************************************************)
(* One experiment over several processes: `alife run` and `alife resume`   *)
(* (run_command in main.c), the run loop, the checkpoint file with its     *)
(* temporary file and rename (alife_world_save, alife_world_load), and the *)
(* event log that all of them write. A process may die between any two     *)
(* steps. The world is reduced to what the files say of it; Substrate has  *)
(* the rest.                                                               *)
(***************************************************************************)
EXTENDS EventLog, FiniteSets, FiniteSetsExt, SequencesExt

CONSTANTS
    Paths,        \* where checkpoints may go
    Rules,        \* what alife_world_step reads of a configuration, the seed too
    Configs,      \* configuration files, each valid: see ConfigType
    None,         \* no file, or no --checkpoint option
    LastTick,     \* the largest tick_count
    Born,         \* how many are born in a tick, by rules and generator
    Dies,         \* who dies in a tick, by rules and generator
    Unsavable,    \* ticks whose world alife_world_save refuses
    History,      \* the worlds of an uninterrupted run, by rules and tick
    MaxLaunches   \* bound: how many commands the user gives

ConfigType == [rules : Rules, ticks : 1..LastTick, interval : Nat \ {0},
               summary : Nat \ {0}, path : Paths]

WorldType == [rules : Rules \cup {None}, tick : 0..LastTick, rng : 0..LastTick,
              alive : SUBSET Nat, nextId : Nat, births : Nat, deaths : Nat]

(***************************************************************************)
(* The world                                                               *)
(***************************************************************************)
\* memset(world, 0): there is no world.
Blank == [rules |-> None, tick |-> 0, rng |-> 0, alive |-> {}, nextId |-> 0,
          births |-> 0, deaths |-> 0]

SeedIds == {1, 2}

\* alife_world_init: a copy of the configuration, a seeded generator and the
\* two seed organisms.
Seeds(rules) ==
    [rules |-> rules, tick |-> 0, rng |-> 0, alive |-> SeedIds, nextId |-> 3,
     births |-> 2, deaths |-> 0]

BirthsOf(w) == Born[w.rules][w.rng]
Newborn(w) == w.nextId .. w.nextId + BirthsOf(w) - 1
Dying(w) == Dies[w.rules][w.rng] \cap (w.alive \cup Newborn(w))

\* alife_world_step as a function of the world: it follows world->config, draws
\* from its generator, and reads nothing else.
Evolve(w) ==
    [rules |-> w.rules,
     tick |-> w.tick + 1,
     rng |-> w.rng + 1,
     alive |-> (w.alive \cup Newborn(w)) \ Dying(w),
     nextId |-> w.nextId + BirthsOf(w),
     births |-> w.births + BirthsOf(w),
     deaths |-> w.deaths + Cardinality(Dying(w))]

ASSUME BoundAssumption == LastTick \in Nat \ {0} /\ MaxLaunches \in Nat

ASSUME ConfigsAssumption ==
    Configs \subseteq ConfigType /\ None \notin Paths

\* What the generator decides at each of its states.
ASSUME RandomAssumption ==
    \A r \in Rules, n \in 0 .. LastTick - 1 :
        Born[r][n] \in Nat /\ Dies[r][n] \subseteq Nat

ASSUME HistoryAssumption ==
    \A r \in Rules :
        /\ History[r][0] = Seeds(r)
        /\ \A t \in 0 .. LastTick - 1 : History[r][t + 1] = Evolve(History[r][t])

\* The guard that save and load share: totals, population and next id agree.
CountsAgree(w) ==
    /\ w.deaths <= w.births
    /\ Cardinality(w.alive) = w.births - w.deaths
    /\ w.nextId # 0 /\ w.nextId = w.births + 1

SaveAccepts(w) == CountsAgree(w) /\ w.tick \notin Unsavable

(***************************************************************************)
(* The files                                                               *)
(***************************************************************************)
VARIABLES
    files,     \* the checkpoint at each path, or None
    temps,     \* the ".tmp" file next to it, or None
    log,       \* the event log
    pc,        \* where the process is; "shell" when there is none
    cmd,       \* the command it executes
    world,     \* its world
    final,     \* the save in progress is the one of run_command
    failed,    \* the command ended, or is to end, with EXIT_FAILURE
    launches   \* how many commands the user has given

vars == <<files, temps, log, pc, cmd, world, final, failed, launches>>
onDisk == <<files, temps>>

\* A checkpoint as it is written: a header and its body, or a part of it. Of the
\* configuration it holds the fingerprint only (of).
ImageType == [whole : BOOLEAN, of : ConfigType, world : WorldType]
Image(cfg, w) == [whole |-> TRUE, of |-> cfg, world |-> w]
Part(cfg) == [whole |-> FALSE, of |-> cfg, world |-> Blank]

\* None stands for no world and no file.
ASSUME NoneAssumption == None \notin WorldType /\ None \notin ImageType

\* copy_checkpoint_override
Effective(config, given) ==
    IF given = None THEN config ELSE [config EXCEPT !.path = given]

\* Fault: the fingerprint is not compared.
LoadableAnyhow(image, cfg) ==
    /\ image # None
    /\ image.whole
    /\ CountsAgree(image.world)
    /\ image.world.tick <= cfg.ticks
    /\ \A o \in image.world.alive : o < image.world.nextId

\* What alife_world_load asks. The fingerprint is of the whole configuration,
\* the path and the tick count included.
Loadable(image, cfg) ==
    /\ image # None
    /\ image.whole
    /\ image.of = cfg
    /\ CountsAgree(image.world)
    /\ image.world.tick <= cfg.ticks
    /\ \A o \in image.world.alive : o < image.world.nextId

\* The fields that alife_world_load restores, after alife_setup_world has
\* copied the configuration, which the file does not hold.
Restored(image, cfg) ==
    [rules |-> cfg.rules, tick |-> image.world.tick,
     rng |-> image.world.rng, alive |-> image.world.alive,
     nextId |-> image.world.nextId, births |-> image.world.births,
     deaths |-> image.world.deaths]

(***************************************************************************)
(* The records of the log                                                  *)
(***************************************************************************)
\* event_prefix puts the tick into every record.
Record(kind, w, id, path) == [kind |-> kind, tick |-> w.tick, id |-> id, path |-> path]
\* The order in which a loop reports several organisms; no property asks for it.
Ascending(ids) ==
    CHOOSE s \in [1..Cardinality(ids) -> ids] : \A i, j \in DOMAIN s : i < j => s[i] < s[j]
About(kind, w, ids) ==
    LET s == Ascending(ids) IN [i \in DOMAIN s |-> Record(kind, w, s[i], None)]

StartRecord(w) == <<Record("run_start", w, 0, None)>>
\* Fault: deaths are not reported.
StepBirths(w) == About("birth", w, Newborn(w))

\* A birth comes before the deaths it causes.
StepRecords(w) == About("birth", w, Newborn(w)) \o About("death", w, Dying(w))
SummaryRecord(w) == <<Record("summary", w, 0, None)>>

\* Fault: every id ever given is reported dead, the dead among them.
ShutdownOfAll(w) == About("death", w, 1 .. w.nextId - 1) \o <<Record("run_end", w, 0, None)>>

\* alife_world_destroy: a death record for everybody left, then run_end.
ShutdownRecords(w) == About("death", w, w.alive) \o <<Record("run_end", w, 0, None)>>

(***************************************************************************)
(* Commands                                                                *)
(***************************************************************************)
Init ==
    /\ files = [p \in Paths |-> None] /\ temps = [p \in Paths |-> None]
    /\ log = NoLog
    /\ pc = "shell"
    /\ \E c \in Configs : cmd = [resume |-> FALSE, given |-> FALSE, cfg |-> c]
    /\ world = Blank
    /\ final = FALSE /\ failed = TRUE
    /\ launches = 0

Launch(resume, config, given) ==
    /\ pc = "shell" /\ launches < MaxLaunches
    /\ launches' = launches + 1
    /\ cmd' = [resume |-> resume, given |-> given # None,
               cfg |-> Effective(config, given)]
    /\ final' = FALSE
    /\ UNCHANGED onDisk

\* `alife run`: alife_world_init truncates the log, then seeds the world.
Run(config, given) ==
    /\ Launch(FALSE, config, given)
    /\ world' = Seeds(cmd'.cfg.rules)
    /\ log' \in Fprintf(OpenLog(log, "w"),
                        StartRecord(Blank) \o About("birth", Blank, SeedIds))
    /\ pc' = "run" /\ failed' = FALSE

\* Fault: the log is truncated by a resumed run too.
ResumeTruncating(config, given) ==
    /\ Launch(TRUE, config, given)
    /\ Loadable(files[given], cmd'.cfg)
    /\ world' = Restored(files[given], cmd'.cfg)
    /\ log' \in Fprintf(OpenLog(log, "w"), StartRecord(world'))
    /\ pc' = "run" /\ failed' = FALSE

\* `alife resume` of a matching checkpoint: the log is appended to.
Resume(config, given) ==
    /\ Launch(TRUE, config, given)
    /\ Loadable(files[given], cmd'.cfg)
    /\ world' = Restored(files[given], cmd'.cfg)
    /\ log' \in Fprintf(OpenLog(log, "a"), StartRecord(world'))
    /\ pc' = "run" /\ failed' = FALSE

\* `alife resume` of anything else: refused, the world abandoned, no record.
ResumeRefused(config, given) ==
    /\ Launch(TRUE, config, given)
    /\ ~Loadable(files[given], cmd'.cfg)
    /\ failed' = TRUE
    /\ log' = OpenLog(log, "a")
    /\ UNCHANGED <<pc, world>>

(***************************************************************************)
(* The run loop                                                            *)
(***************************************************************************)
Due(n, interval) == n % interval = 0

\* One turn of alife_world_run: alife_world_step with its periodic_work, up to
\* the call of alife_world_save.
Step ==
    /\ pc = "run" /\ world.tick < cmd.cfg.ticks
    /\ world' = Evolve(world)
    /\ IF Due(world'.tick, cmd.cfg.summary)
       THEN log' = Flushed(log, StepRecords(world) \o SummaryRecord(world'))
       ELSE log' \in Fprintf(log, StepRecords(world))
    /\ pc' = IF Due(world'.tick, cmd.cfg.interval) THEN "save" ELSE "run"
    /\ UNCHANGED <<onDisk, cmd, final, failed, launches>>

\* Fault: the checkpoint at the end is left to the schedule.
FinalSaveNever == FALSE

\* run_command saves once more at the end of a run with --checkpoint, unless
\* the schedule has just done so.
FinalSaveDue ==
    ~cmd.resume /\ cmd.given /\ ~Due(world.tick, cmd.cfg.interval)

\* The end of alife_world_run, and of run_command but for the final save.
RunEnds ==
    /\ pc = "run" /\ world.tick >= cmd.cfg.ticks
    /\ log' = IF Due(world.tick, cmd.cfg.summary) THEN log
              ELSE Flushed(log, SummaryRecord(world))
    /\ final' = FinalSaveDue
    /\ pc' = IF FinalSaveDue THEN "save" ELSE "stop"
    /\ UNCHANGED <<onDisk, cmd, world, failed, launches>>

(***************************************************************************)
(* alife_world_save                                                        *)
(***************************************************************************)
\* The world is refused, or the temporary file cannot be opened.
SaveRefused ==
    /\ pc = "save"
    /\ failed' = TRUE /\ pc' = "stop"
    /\ UNCHANGED <<onDisk, log, cmd, world, final, launches>>

\* Fault: the checkpoint itself is opened for writing.
OpenInPlace ==
    /\ pc = "save" /\ SaveAccepts(world)
    /\ files' = [files EXCEPT ![cmd.cfg.path] = Part(cmd.cfg)]
    /\ temps' = [temps EXCEPT ![cmd.cfg.path] = Part(cmd.cfg)]
    /\ pc' = "write"
    /\ UNCHANGED <<log, cmd, world, final, failed, launches>>

\* Fault: the old checkpoint is removed to make room for the new one.
RemoveThenOpen ==
    /\ pc = "save" /\ SaveAccepts(world)
    /\ files' = [files EXCEPT ![cmd.cfg.path] = None]
    /\ temps' = [temps EXCEPT ![cmd.cfg.path] = Part(cmd.cfg)]
    /\ pc' = "write"
    /\ UNCHANGED <<log, cmd, world, final, failed, launches>>

\* The temporary file is opened, and what a crash has left of it truncated.
OpenTemporary ==
    /\ pc = "save" /\ SaveAccepts(world)
    /\ temps' = [temps EXCEPT ![cmd.cfg.path] = Part(cmd.cfg)]
    /\ pc' = "write"
    /\ UNCHANGED <<files, log, cmd, world, final, failed, launches>>

\* Fault: the record of the checkpoint is written before it is in place.
WriteAndLog ==
    /\ pc = "write"
    /\ temps' = [temps EXCEPT ![cmd.cfg.path] = Image(cmd.cfg, world)]
    /\ log' = Flushed(log, <<Record("checkpoint", world, 0, cmd.cfg.path)>>)
    /\ pc' = "rename"
    /\ UNCHANGED <<files, cmd, world, final, failed, launches>>

\* Header and organisms are written, flushed and closed.
WriteTemporary ==
    /\ pc = "write"
    /\ temps' = [temps EXCEPT ![cmd.cfg.path] = Image(cmd.cfg, world)]
    /\ pc' = "rename"
    /\ UNCHANGED <<files, log, cmd, world, final, failed, launches>>

\* Fault: a write that fails is tried again.
RetryWrite ==
    /\ pc \in {"write", "rename"}
    /\ temps' = [temps EXCEPT ![cmd.cfg.path] = None]
    /\ pc' = "save"
    /\ UNCHANGED <<files, log, cmd, world, final, failed, launches>>

\* A write, the flush, the close or the rename fails: the temporary file is
\* removed, the checkpoint stays.
WriteFails ==
    /\ pc \in {"write", "rename"}
    /\ temps' = [temps EXCEPT ![cmd.cfg.path] = None]
    /\ failed' = TRUE /\ pc' = "stop"
    /\ UNCHANGED <<files, log, cmd, world, final, launches>>

\* The temporary file takes the place of the checkpoint.
Replace ==
    /\ pc = "rename"
    /\ files' = [files EXCEPT ![cmd.cfg.path] = temps[cmd.cfg.path]]
    /\ temps' = [temps EXCEPT ![cmd.cfg.path] = None]
    /\ pc' = "record"
    /\ UNCHANGED <<log, cmd, world, final, failed, launches>>

\* alife_log_checkpoint, and the return to the caller.
LogCheckpoint ==
    /\ pc = "record"
    /\ log' = Flushed(log, <<Record("checkpoint", world, 0, cmd.cfg.path)>>)
    /\ pc' = IF final THEN "stop" ELSE "run"
    /\ UNCHANGED <<onDisk, cmd, world, final, failed, launches>>

\* alife_world_destroy, whether the run succeeded or not, and exit.
Destroy ==
    /\ pc = "stop"
    /\ log' = Flushed(log, ShutdownRecords(world))
    /\ world' = Blank
    /\ pc' = "shell"
    /\ UNCHANGED <<onDisk, cmd, final, failed, launches>>

(***************************************************************************)
(* Everything together                                                     *)
(***************************************************************************)
\* The process dies: its memory is gone, the files stay as they are.
Crash ==
    /\ pc # "shell"
    /\ log' = Lost(log)
    /\ world' = Blank
    /\ failed' = TRUE /\ pc' = "shell"
    /\ UNCHANGED <<onDisk, cmd, final, launches>>

Process ==
    \/ Step \/ RunEnds
    \/ SaveRefused \/ OpenTemporary \/ WriteTemporary \/ WriteFails
    \/ Replace \/ LogCheckpoint \/ Destroy

User ==
    \E config \in Configs :
        \/ \E given \in Paths \cup {None} : Run(config, given)
        \/ \E given \in Paths : Resume(config, given) \/ ResumeRefused(config, given)

\* The user gives no more commands.
Over == pc = "shell" /\ launches = MaxLaunches /\ UNCHANGED vars

Next == Process \/ User \/ Crash \/ Over

Spec == Init /\ [][Next]_vars

\* One thread without blocking calls; the user and crashes are not fair.
FairSpec == Spec /\ WF_vars(Process)

(***************************************************************************)
(* Properties                                                              *)
(***************************************************************************)
TypeOK ==
    /\ \A p \in Paths : \A image \in {files[p], temps[p]} :
           image # None => image \in ImageType
    /\ \A i \in DOMAIN log.lines : log.lines[i].kind \in Kinds
    /\ log.safe \in 0 .. Len(log.lines)
    /\ log.cut => log.safe < Len(log.lines)
    /\ log.broken \subseteq 1..log.safe
    /\ pc \in {"shell", "run", "save", "write", "rename", "record", "stop"}
    /\ cmd \in [resume : BOOLEAN, given : BOOLEAN, cfg : ConfigType]
    /\ world \in WorldType
    /\ final \in BOOLEAN /\ failed \in BOOLEAN
    /\ launches \in 0..MaxLaunches

\* What stands at a path is never a part of a checkpoint, and it is exactly the
\* world that an uninterrupted run of its configuration has at its tick: writing to a temporary file
\* and renaming it (alife_world_save) leaves no moment in which a crash or a
\* failed write could show anything else.
CheckpointIsWhole ==
    \A p \in Paths : files[p] # None =>
        /\ files[p].whole
        /\ files[p].of.path = p
        /\ files[p].world = History[files[p].of.rules][files[p].world.tick]

\* Whatever crashes and resumes have gone before, a process has the world that
\* an uninterrupted run of its own configuration would have: alife_world_load
\* restores all that alife_world_step reads, and the fingerprint keeps a world
\* from being continued under another configuration.
ResumeIsExact == pc # "shell" => world = History[cmd.cfg.rules][world.tick]

\* A checkpoint in the log is in place at its path, or a later one of the same
\* experiment is: alife_log_checkpoint comes after the rename, and only a new
\* run, which truncates the log first, takes a checkpoint back.
RecordedIsCommitted ==
    \A i \in DOMAIN log.lines :
        LET line == log.lines[i]
        IN  line.kind = "checkpoint" =>
                /\ files[line.path] # None
                /\ files[line.path].world.tick >= line.tick

\* A run with --checkpoint that succeeds leaves its last state there, whether
\* its tick count falls on the schedule or not; so does any command whose tick
\* count does.
FinalStateSaved ==
    /\ pc = "shell" /\ ~failed
    /\ (cmd.given /\ ~cmd.resume) \/ Due(cmd.cfg.ticks, cmd.cfg.interval)
    => files[cmd.cfg.path] = Image(cmd.cfg, History[cmd.cfg.rules][cmd.cfg.ticks])

\* The last run_start of the log.
SegmentStart ==
    Max({i \in DOMAIN log.lines : log.lines[i].kind = "run_start"})

\* The ids that the records of a kind name since the last run_start.
Named(kind) ==
    {log.lines[i].id : i \in {j \in SegmentStart .. Len(log.lines) :
                                 log.lines[j].kind = kind}}

\* docs/log-format.md: the living population derives from births and deaths. It
\* does within a segment, on top of the population of its first tick.
SegmentTellsPopulation ==
    pc # "shell" =>
        LET start == log.lines[SegmentStart].tick
            before == IF cmd.resume THEN History[cmd.cfg.rules][start].alive ELSE {}
        IN  world.alive = (before \cup Named("birth")) \ Named("death")

\* No record of an organism follows its death before the next run_start.
DeathEndsSegment ==
    \A i, j \in DOMAIN log.lines :
        (/\ i < j /\ log.lines[i].kind = "death"
         /\ \A k \in i..j : log.lines[k].kind # "run_start")
        => log.lines[j].id # log.lines[i].id

RunTruncates == pc = "shell" /\ launches' > launches /\ ~cmd'.resume
SafeLinesStay == IsPrefix(SafeLines(log), SafeLines(log'))

\* Only a new run takes records back that have left the buffer: a resumed run,
\* a refused one and a crash leave them in the log.
LogOnlyGrows == [][SafeLinesStay \/ RunTruncates]_vars

\* Every command ends, with a failed save or without.
LaunchEnds == pc # "shell" ~> pc = "shell"

\* docs/log-format.md, ordering guarantee 5: "A death is the final event for
\* that organism ID." (Does not hold: see the run death_final.)
DeathIsFinal ==
    \A i, j \in DOMAIN log.lines :
        i < j /\ log.lines[i].kind = "death" => log.lines[j].id # log.lines[i].id

\* docs/log-format.md: "one complete JSON object per UTF-8 line", so that all
\* complete records can be recovered after a crash. (Does not hold: see the
\* run own_line.)
RecordsOnOwnLine ==
    \A i \in 1..log.safe : i \notin log.broken => OwnLine(log, i)

(***************************************************************************)
(* Refinement                                                              *)
(***************************************************************************)
\* The files and the process as the abstract store of Durable.
Store == INSTANCE Durable WITH
    Fresh <- {Seeds(r) : r \in Rules},
    live <- IF pc = "shell" THEN None ELSE world,
    kept <- [p \in Paths |-> IF files[p] = None THEN None ELSE files[p].world]

\* Saving is atomic and resuming is exact: Experiment implements Durable.
KeepsDurable == Store!DurableSpec

=============================================================================
