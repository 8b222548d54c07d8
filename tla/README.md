# A TLA+ model of AL4.20

AL4.20 is one single-threaded C program: `main.c` reads a configuration,
creates (or loads) an `AlifeWorld`, and calls `alife_world_run`, which calls
`alife_world_step` until `tick_count`. Nothing runs concurrently. What makes the
program hard is not concurrency but the length and the density of its loops, and
the many places at which its start can fail half-way:
five loops of a tick walk over an array that each of them may shrink (a removal
moves the last organism into the hole) or grow; courtships are links between two
organisms, kept next to counters that have to agree with them; three clocks
(tick, date, off timers) are compared with each other before and after the tick
is counted; and everything is checked again when a checkpoint is saved and when
it is loaded, with guards that are not the same on the two sides.

Line numbers below are of the repository at this commit. File names such as
`simulation.c` are those under `src/src/`.

## The system's parts

| Part | State | Operations | What must be right |
|---|---|---|---|
| Calendar (`simulation.c`, `checkpoint.c`) | `year`, `month`, `day`, `tick` | `days_in_month`, `advance_date`, `checkpoint_date_valid`, head of `alife_world_step` | the date is the start date plus the days of the tick; every reachable date can be saved and loaded; the calendar ends cleanly |
| Population array | `organisms[]`, `count`, `next_id`, birth and death totals | `append_organism`, `remove_at`, `alife_enforce_capacity` | each living organism is in the array once; no loop skips one or visits one twice; capacity holds; the oldest goes first |
| Lifecycle | `state`, `back_on_tick`, `last_awake_tick`, transition counters | `transition_at`, `process_off_timers`, `execute_lifecycle`, `alife_transition_request` | only the documented edges; off ends at its timer, not before and not later; counters stay consistent when they saturate |
| Fool's Day and dormancy | `foolsday_roll_year` | `process_foolsday`, `process_dormancy_timeouts` | nobody awake survives April 1; one roll for a sleeper in a year, and the saved roll year tells of it; nobody outlives the dormancy limit |
| Courtship and birth | `courtship_partner_id`, `courtship_progress_ticks`, four counters | `alife_try_birth`, `process_courtships`, `complete_birth`, `cancel_courtship`, `process_reproduction` | links are reciprocal; every courtship is counted once; success is never above the attempts |
| Communication | `sent_message_this_tick`, inboxes | `execute_organism`, `deliver_communication` | exactly those who ran awake in this tick are heard, by exactly the awake; no flag is left over from an earlier tick |
| Reward, ageing | `age`, `biological_age`, `reward` | accounting loop, `alife_reward_calculate` | chronological age is elapsed time, in every state |
| Checkpoint (`checkpoint.c`) | a file and its `.tmp` | `alife_world_save`, `alife_world_load` | what save accepts load accepts; a crash or a failed save never damages the checkpoint |
| Genes (`simulation.c`) | two seed genomes, one for each organism | `initialize_genome`, `seed_sleep_rhythm`, `seed_population`, `mutate_related_rhythm_gene`, `complete_birth` | the seeds differ and the world counts in how much; they and their children are valid |
| Layout and memory (`simulation.c`) | three parallel arrays, two scratch arrays, the log, two seed buffers, a file | `alife_layout_create`, `alife_reserve`, `alife_setup_world`, `alife_world_destroy`, `abandon_world` | no block is lost or freed twice, whatever fails; rows stay beside their organisms |
| Off duration, RNG (`simulation.c`, `rng.c`) | words of 64 bits | `off_duration_from_output`, `alife_rng_bounded` | nothing wraps; both limits are reached; no result is likelier |
| Neural execution | floats | `execute_organism` | (not modelled beyond the decisions it makes) |
| Event log (`log.c`) | a buffered stream | `open_event_log`, `alife_log_*` | records come after what they report; what has left the buffer stays; a segment tells the population |
| Command line (`main.c`) | exit status | `run_command` | a resumed experiment goes on as if never interrupted; the last state is saved |
| Configuration (`config.c`) | the caller's `AlifeConfig`, a local one, the bits of the keys seen | `alife_config_defaults`, `alife_config_load`, `alife_config_validate` | a load is all or nothing, does not depend on the order of the lines, and lets only usable values through |

The parts interact by direct calls on the one `AlifeWorld`; there are no
callbacks or messages. The public API of `simulation.h` can be called by a host
other than `main.c`, between steps; the tests do so, and so does the model.

## Modules

| Module | What it is |
|---|---|
| `Calendar` | the date operators as pure definitions, and a reference day count written from the Gregorian rules |
| `WorldClock` | abstract specification of time: what `alife_world_step` and `alife_world_run` promise of tick and date |
| `Lifecycle` | abstract specification of one organism's life: the state diagram and the off timer |
| `Courtship` | abstract specification of courtship: a matching of the living |
| `Substrate` | the detailed model of `alife_world_step`, everything it calls, `alife_world_run`, the public API, and the guards of save and load |
| `SubstrateProperties` | the properties of `Substrate` and its refinement mappings |
| `SubstrateHistory` | `Substrate` with two history variables, and the properties that need them |
| `EventLog` | the log as a stream: records, how many have left the buffer, what a dead process leaves |
| `Durable` | abstract specification of checkpoints: a store replaced in one step |
| `Experiment` | `run` and `resume`, the run loop, save with temporary file and rename, load, crashes; uses `EventLog` |
| `MCExperiment` | instances of `Experiment` |
| `Register` | abstract specification of a configuration: a register that a load replaces whole or leaves alone |
| `Config` | the keys, the reading of one value, the validation |
| `ConfigLoad` | the loader, line by line |
| `Layout`, `Heredity`, `OffDuration` | pure definitions: the slot of an organism, genes and floats, arithmetic in words |
| `Startup` | `run_command` from its arguments to the world and to its end: loader, setup, log, seeds or checkpoint, the arrays, memory |
| `StartupProperties` | the properties of `Startup` and its refinement mapping |
| `MCStartup` | instances of `Startup` |
| `MCCalendar`, `MCSubstrate`, `MCHistory` | instances of `WorldClock`, `Substrate` and `SubstrateHistory` for TLC |
| `CalendarProofs`, `WorldClockProofs` | theorems of the calendar and the clock |
| `SubstrateProofs` | theorems of `Substrate`: its types, its population array |
| `CourtshipProofs` | that courtship links are reciprocal |
| `TickProofs` | what the phases of a tick guarantee, and the three abstract specifications |
| `ExperimentProofs` | theorems of `Experiment`: checkpoints, resumes, the log |
| `StartupProofs`, `NumericProofs` | theorems of `Startup` and of the arithmetic |

### How Substrate corresponds to the code

`org[id]` is the `AlifeOrganism` with that id (`Nobody` when there is none),
`slots` the order of `world->organisms`, `tally` and `moves` the counters,
`firstNew` the local `first_new_id`. `pc` is the phase inside a step and `idx`
the loop variable of the phase's loop (from 1). An action is one iteration of a
loop that changes something, so that the state between two iterations is
visible; iterations that change nothing are skipped by `NextHit`, which goes to
the next slot the scan acts on. The phases, in the code's order:

    idle -> timers -> foolsday -> dormancy -> execute -> deliver
         -> courtship (<-> birthEvict) -> pairing -> evict -> account
         -> periodic -> idle | failed          (idle -> done | failed)

- `RemoveAt` is `remove_at`: cancel the courtship, count the death, move the
  last organism into the hole. It is an operator on the organisms and counters
  that the caller has already changed, because several callers change the
  organism first (the roll of Fool's Day, the run of a network, waking up).
- `TransitionIn`/`TransitionTally`/`Counted` are `transition_at`.
- `Settle` is the second half of the execution loop: the state is validated
  again and an invalid organism is removed *without* advancing the index.
- `CourtshipEnds` is the successful end of a courtship with `complete_birth`;
  when an offspring comes of it the nested `alife_enforce_capacity` runs as the
  phase `birthEvict` inside the courtship loop.
- `SaveAccepts` and `LoadAccepts` list what each side asks of the world. In
  `LoadAccepts` that is all the loader asks of the world's counters and of each
  organism: also what no other part of the program reads again, the date of
  birth, the parents and the generation, the mutations, and the weight changes
  against the executions. These are carried by every organism (`origin`,
  `executions`, `changes`) and written where the code writes them (`Seed`,
  `Descent`, `Updated`). Outside of `LoadAccepts` are: magic, version, byte
  order, float size, truncated and trailing data (`whole` in `Experiment`);
  the fingerprint and with it the layout's counts (`Loadable` there);
  allocation and reading that fail (`Startup`); the checks that every float is
  finite and within its bound (`sound` here); the words of the generator and
  the flag `stopped`, which nothing in the program sets. That a genome has no
  more mutations than genes is the range of the constant `Mutations`; the code
  counts at most one for each gene (`complete_birth`), and the count for the
  seeds follows from `Heredity`.

`SubstrateHistory` adds two variables that no step reads. `ranAwake` is, for
each id, the last tick in which the execution loop ran it awake; `rolls`, how
often `process_foolsday` has drawn for it in the current year, kept after its
death. `SpecH` is `Spec` with them. Only with a history can one say that a flag
or a roll year is *right*: that `sent_message_this_tick` is of this tick and not
left over, and that `last_foolsday_roll_year` of the living says who has been
rolled for, which is what a checkpoint carries over.

### How Experiment corresponds to the code

A command is a process: `Run` and `Resume` are the beginning of `run_command`,
`Step` and `RunEnds` are `alife_world_run`, the actions from `OpenTemporary` to
`LogCheckpoint` are `alife_world_save` cut where a crash would show a different
disk, and `Destroy` is the end of `run_command`, which both success and failure
reach. `Crash` may happen between any two of them: memory and the stdio buffer
are lost, the files stay. The scheduled save and the final save of `main.c`
share the actions; `final` tells which one is under way.

The world is a record of what `alife_world_step` reads of its configuration
(`rules`, of the code's `world->config`), the tick, the generator's position, the
living, the next id and the totals. `Evolve` is `alife_world_step` as a function
of that record (a run is deterministic), with births and deaths that depend on
rules and generator through the constants `Born` and `Dies`; `History[rules]` is
the sequence of worlds that it makes, and `Unsavable` the ticks whose world save
refuses. A checkpoint does not hold the configuration but its fingerprint (`of`):
`Restored` takes the rules from the configuration of the command, as
`alife_setup_world` does, so that it is the fingerprint alone that keeps a world
from going on under other rules. The fingerprint is taken to be one of the whole
configuration; that it is a hash, and could collide, is left out.

The log is the sequence of all records with two marks: how many have left the
buffer, and whether the next one has left in part. A write may leave any part of
what it adds behind the mark, since the buffer of 64 KiB runs full wherever it
does. Records of transitions, courtships, attempts and plasticity are left out:
they are written in the same way as births and deaths. Deaths of a tick follow
its births, as displacements do; among themselves they are in the order of ids
(`Ascending`), on which no property depends. Not modelled: logging level `error` (no log),
two processes at a time (the documentation excludes sharing paths), and the loss
of the machine rather than of the process (the temporary file is not synchronised before the rename).

### How Startup corresponds to the code

`Startup` follows one `run_command` with everything before and around the tick.
`pc` is where it is:

    idle | refused | loaded -> reading -> read -> loaded | refused
    loaded -> exited | setup (run) | open (resume) -> setup -> log
    log -> seed -> shape -> mutate -> rhythm -> flip -> inspect -> append -> running
    log -> restore -> rows -> running -> exited

- **The loader.** `dest` is the caller's `*config`, `loaded` the local of
  `alife_config_load`, `seen` its bits. `SkipLine`, `Assign` and `RefuseLine` are
  the iterations of its loop, `EndOfFile` and `ReadFails` the ways out of it,
  `Accept` and `Reject` the validation. Another load may follow a load, as in the
  tests. `Config` reads a value as the source does: a text that is digits, digits
  after a minus sign, a number with more to it, quoted, or a word. Numbers that
  are doubles are counted in millionths. `Valid` lists the conditions of
  `alife_config_validate` by subject.
- **Memory.** `heap` is what has been allocated (or opened), `ptr` what each
  pointer holds. `SetUp` and `SetUpFails`, `OpenLog` and `OpenLogFails`,
  `SeedsFail`, `Abandon`, `Destroy` release what the code releases at each of
  these places. `Reserve` is `alife_reserve`: four rows doubled until they are
  enough, guarded against products that do not fit `size_t`, the three arrays
  replaced together or not at all.
- **Rows.** `ids` and `owners` are the organism array and the data array.
  `Birth`, `Remove`, `RestoreArrays` and `RestoreRows` are all the ways in which
  they change. What `RowsFollow` really tests is the removal, which moves a row of
  each; growth copies both arrays and a reload reads both in one order, so that the
  pairing holds there by the form of the code. Which organism is born or dies when is the subject of `Substrate`.
- **Seeds.** `Shape`, `MutateGenes`, `MutateRhythm`, `Flip` and `Inspect` are
  the parts of `seed_population` in order. Three genes stand for all: an
  ordinary weight and two of the eight rhythm genes. The clamp to
  `max_abs_weight` is made with doubles and the result rounded to `float`;
  `ToFloat` rounds to a grid that is exact for small numbers and coarse above,
  as the mantissa makes it.
- `OffDurationFrom` and `Threshold` compute in words that wrap (`Word`), so that
  their properties speak about the sums and products that the code makes.

The operators under a comment `Fault: ...` are not part of the model: each is
the form that the definition after it would have after a plausible mistake, and
is used to confirm that the properties notice it.

Abstractions, each with its reason:

- A network's output is a choice (`Behaviours`): consent, rest, ask for sleep,
  doze, wake, ask for off. Every combination that the code's thresholds allow
  is a behaviour; floating point is not computed.
- A network update may leave state that `alife_organism_state_valid` rejects
  (`"unsound"`), at any time.
- An offspring may fail to appear (`"barren"`: allocation, invalid genome).
- `process_reproduction` draws candidates and pairs by lot; any set of disjoint
  couples of eligible single organisms may come out of it (`Pair`, `PairingDone`).
  A drawn pair that is refused changes only the attempts, which `HostTryBirth`
  explores; the pairs drawn by the loop itself are always eligible.
- The duration of off is any value between the limits; the mapping from a
  network output is `OffDuration`.
- The check in `transition_at` that the tick plus the duration does not
  overflow is left out: the duration has been clamped to `off_max_duration_ticks`
  and the tick is below `tick_count`.
- Organism sizes are equal (a fixed topology), so the byte capacity is a number
  of organisms, `Cap`.

## What the runs check

| Run | Instance | Properties |
|---|---|---|
| `calendar` | 2 ticks a day, 820 ticks from 8 start dates | `DateAlwaysValid`, `DateFollowsTick` |
| `foolsday` | 5 ids, capacity 3, four days around April 1, with the history | `TypeOK`, `ArrayHoldsTheLiving`, `PopulationBalances`, `EachRunsOnce`, `FoolsDayCulls`, `OneRollPerYear`, `DormancyBounded`, `OnlyAwakeCommunicate`, `SavedIsLoadable`, `KeepsTime` |
| `courtship` | 6 ids, capacity 4, courtships of two ticks, the last two days of the calendar | `NoCoupleSkipped`, `CapacityHolds`, `AgeIsElapsed`, `EvictsInBirthOrder`, `LinksReciprocal`, `CourtshipsBalance`, `WinsWereAttempted`, `KeepsCourtship` |
| `host` | two API calls around April 1, fair | `SavedIsLoadable`, `KeepsLifecycle`, `RunTerminates` |
| `experiment` | 3 commands, 2 configurations, 2 paths | `TypeOK`, `CheckpointIsWhole`, `ResumeIsExact`, `RecordedIsCommitted`, `FinalStateSaved`, `SegmentTellsPopulation`, `DeathEndsSegment`, `LogOnlyGrows`, `LaunchEnds`, `KeepsDurable` |
| `startup` | files of up to four lines, two commands, words of 14 and 28 bits, five ids | `TypeOK`, `ValidIsUsable`, `HeapIsHeld`, `RowsFollow`, `SeedsSound`, `KeepsRegister`, `LoadIsDeclarative` |
| `death_final` | violation | `DeathIsFinal` |
| `own_line` | violation | `RecordsOnOwnLine` |
| `save_refused` | violation | `ScheduledSaveSucceeds` |
| `newborn_age` | violation | `NewbornStartsAtZero` |
| `dormancy_early` | violation | `DormancyNotEarly` |
| `rounded_bound` | violation | `SeedsAreValid` |

### The bounds, and why they are enough

- `MaxId` caps the ids that can be given out. With 6 ids and a capacity of 4 two
  couples court at once, a birth displaces a third organism or one of the
  courting, and the array gets out of birth order, which is what the eviction
  and courtship loops could trip over. When the ids are used up a courtship
  that completes is barren.
- `TickCount` and `TicksPerDay`: the `foolsday` run starts on March 30 with two
  ticks a day, so there are births before April 1, two ticks of April 1, and a
  day after it. The off durations 1..3 end before, on and after April 1. The
  dormancy limit of two days is reached by organisms asleep from the first day.
- `Duration = 2` in `courtship`: a courtship is seen under way, and is broken off
  in between by sleep, by displacement, and by a partner that withdraws its
  consent while staying awake (the behaviour `rest`). Nine ticks at four a day
  end with the calendar, so that the failing step is a part of the run.
- `GenomeCount = 1` and `Mutations` are what a birth may be recorded with: the
  bound itself in all runs, and nothing as well in `host`. `Learning` says whether a run of a
  network may count as a significant change; `foolsday` lets every one do so, where
  the changes come closest to the executions.
- `CounterMax` stands for `UINT64_MAX`; it is small enough for the transition
  counters to saturate.
- `HostCalls` caps the API calls between ticks. Two calls reach every pair of
  operations, for example a spoiled genome and a transition.
- `CheckpointInterval = 3` lets a checkpoint fall into each phase of an off
  period.
- `experiment`: three commands are a run, a resume that crashes, and a resume of
  that, or a run over the remains of another. The configurations differ in
  rules, path, interval and tick count, and with the override of the path two different
  ones write to one path. Births and deaths fall before, between and after the
  checkpoints; one tick count is on the schedule of checkpoints and one is not;
  one of the scheduled saves is refused.
- `startup`: four lines over all calls reach a key twice, a valid pair of values
  in either order, a file that fails after several good lines, and a second load
  after a first. The values sit at the limits of their ranges: the sums of
  `maturity_age` with the ramp, and of `tick_count` with the off duration, that
  are the largest that fit and one more. Words have 14 and 28 bits because TLC
  counts with 32; `U64Max = U32Max * (U32Max + 2)` keeps their proportion, and 14
  bits are the fewest that hold the defaults. Nothing but the widths is smaller
  than in the program, and the theorems hold for every width. Five ids make the
  arrays grow from four rows to eight, after removals as well.
- The grid of floats has a step of 32 millionths above 4096. The `float` of the
  program has 24 bits of mantissa, which no configuration in millionths can be
  too coarse for below 16.7; what matters is that some bounds are floats and some
  are not, and that small steps are exact. `SeedsSound` asks for a change in the
  rhythm from a magnitude of 20000 millionths on only because smaller ones make
  steps below one millionth, which the model cannot tell from none.
- The start dates of `calendar` run over 1900 (no leap day), 2000 and 2004 (leap
  day), 2100, a common year, year 1, and 9999-12-31, where the step fails.

Deadlock is checked in every run but `calendar`: a clock that has halted has no
next state. `Substrate` stutters explicitly when the run is over (`Terminated`).

### Fairness

`FairSpec` adds `WF_vars(Step)`: the program is one thread in one loop without
blocking calls, so it takes a step whenever one is enabled. Nothing is assumed
of the choices (which behaviour, which pair), nor of the host, whose calls the
run `host` explores as well. `RunTerminates` then says that none of the loops
that do not advance after a removal runs for ever. (`Pair` can be taken only
while there are single eligible organisms.)

In `Experiment` the same holds of `Process`, the steps of a command; neither the
user nor crashes are fair. `LaunchEnds` says that a command ends whatever fails.

### Refinement

`KeepsLifecycle`, `KeepsCourtship` and `KeepsTime` are the specifications of
`Lifecycle`, `Courtship` and `WorldClock` under the mappings at the end of
`SubstrateProperties`. The mappings are: an organism's life is its state, or
`dead` or `unborn` by its id; a couple is a set of two linked ids; a clock is
ticking in the phases before `++world->tick`. `KeepsDurable` maps the files of
`Experiment` to the worlds they hold, and a process to its world. `KeepsRegister`
maps the caller's configuration and the progress of a load to `Register`, whose
value changes only at the successful end of a load, or when the command line
edits it outside of one.

## What does not agree with the documentation

- **A scheduled checkpoint may end the run** (`save_refused`). `periodic_work`
  runs after `++world->tick`. `alife_world_save` asks
  `alife_organism_state_valid` of every organism (`checkpoint.c:150`), which
  demands `back_on_tick > world->tick` of one that is off; an organism that is
  due in the tick about to begin fails this, although the beginning of the next
  step would return it to sleep. The save is refused, the step fails and the run
  with it. `README.md:256-257` describes the tick as ending with a scheduled
  checkpoint.
- **A newborn ages in the tick of its birth** (`newborn_age`). `first_new_id` is
  read at `simulation.c:1602`, after `process_courtships`, which is where births
  happen, so the test `id < first_new_id` of the accounting excludes nobody.
  `docs/architecture.md:334`: "A newborn starts with age zero and first executes
  on the next tick."
- **Dormancy is a tick early** (`dormancy_early`). `last_awake_tick` is updated
  at accounting and only for the organisms awake by then. One that runs awake in
  tick t and falls asleep in it is timed from t - 1, and removed when it has
  been dormant for the limit and not longer. `docs/architecture.md:263-264`:
  "Remaining asleep or off longer than `max_without_awake_days` causes
  `dormancy_timeout`."

- **A death is not final over a resume** (`death_final`). `alife_world_destroy`
  writes a death record with cause `shutdown` for everybody left, also when the
  world has just been saved; a resume appends to the same log, and the same
  organisms go on, with a second death at the end. After a crash the deaths
  between the checkpoint and the crash are repeated too.
  `docs/log-format.md:146`: "A death is the final event for that organism ID."
  `DeathEndsSegment` is what does hold.
- **A resume can write on a broken line** (`own_line`). The stream hands over
  its buffer in the middle of a record; a crash leaves the file without a
  newline at its end, and the `run_start` of the resumed run lands on that line.
  `docs/log-format.md:3-5` promises one object per line and the recovery of all
  complete records, and line 153 that "every flushed line is a complete record".
- **A seed may be refused** (`rounded_bound`). Genes are clamped to
  `max_abs_weight` with doubles and then rounded to `float` (`simulation.c:218`);
  when the bound is not a `float` itself, the largest gene is rounded beyond it,
  and `alife_genome_validate` refuses the seed. The program then ends, with a
  configuration that its validation has accepted: `max_abs_weight=0.123` or `0.1`
  reports "Genome parameter 336 is not finite or exceeds its bound.", while
  `docs/architecture.md:98-99` promises two valid genomes. A bound that is rounded
  down (0.7) or is a float (the default of 4) does no harm. `SeedsSound` is what
  holds.

More observations have no run of their own. `docs/log-format.md` says that
`run_end` records a normal completion or controlled shutdown, but `Destroy` writes it
for a failed command as well. And a refused scheduled save is not a matter of luck:
the run is deterministic, so every resume from the checkpoint before it arrives at
the same refusal.

- With `mutation_magnitude=0` no step of `mutate_related_rhythm_gene` changes
  anything; the seeds then differ by one gene turned over, of the rhythm or not.
- `checkpoint_path` and `event_log_path` must differ as names; a log named like
  the checkpoint with `.tmp` behind it is truncated by the first save.
- The buffer of a line has room for its newline too: a line of exactly 1023
  characters is reported as exceeding 1023.

One asymmetry is not reached by the program itself: load demands
`tick <= tick_count` and save does not, so a host that steps a world beyond
`tick_count` could save a checkpoint that cannot be loaded. `alife_world_run`
stops there, and the model with it.

## What is proved

Every property of every passing run is a theorem, except the two that speak of
liveness. The proofs hold for every value of the constants that satisfies the
named assumptions:

- `BoundsAssumption`, `ConfigAssumption` in `Substrate` and the three assumptions
  of `WorldClock` say what `alife_config_validate` and `alife_world_init` enforce,
  and that `MaxId` is at least 2;
- in `Experiment`, `BoundAssumption` and `ConfigsAssumption` say what is a
  configuration; `RandomAssumption`, that births are numbers and the dying are ids;
  `HistoryAssumption` defines what an uninterrupted run is; `NoneAssumption`, that
  no file is not a file;
- `WidthAssumption`, `LoaderAssumption`, `FloatAssumption` and `StartupAssumption`
  under `Startup`.

TLC evaluates each of them in the runs.

- **Calendar.** `NextDateValid`: `advance_date` leads from valid dates to valid
  dates. `NextDateIsNextDay`: it adds one to the Gregorian day count of
  `DayNumber`, which does not use the code's leap rule; `LeapCounted` is the
  lemma that ties the two together.
- **WorldClock.** `ClockTypeCorrect` and `DatesStayValid` follow from the
  inductive invariant `ClockInv`, which adds to the two that a tick under way
  counts among the run's (`ticking => tick < TickCount`): without it the end of
  a tick could pass `TickCount`. `DateNeverDrifts` adds `DateFollowsTick`, and
  needs the arithmetic of `DaysOfNextTick`: the quotient of the tick by the
  ticks of a day grows exactly when the code turns the date.
- **Substrate, types.** `TypeCorrect`. `TypeOK` is inductive; the date's validity
  is a part of it because `advance_date` keeps the type of a date only when the
  date was valid. The proof has one lemma for each operator that changes the
  world and one step for each action.
- **Substrate, population.** `ArrayIsTheLiving` and `PopulationIsBalanced`, from
  `PopulationInv`. Each action is shown to be one of three kinds: it keeps the
  living and the counters (`Keeps`), it removes one slot (`Removes`), or it is
  the end of a courtship, which may append the next id. `SwapDeleteElements` is
  the fact about the array: moving the last element into the hole loses only
  the element that was there and doubles none. The two invariants are proved
  together since a birth is only safe when the next id is not living.
- **Substrate, courtship.** `LinksStayReciprocal`, from `PopulationInv` and
  `LinksIn(org)`. The argument is that an organism is only changed after its
  courtship is cancelled on both sides (`CancelLinks`), and an organism without
  a link has nobody pointing at it (`ReplaceUnlinked`). The population invariant
  is needed for the newborn, whose id nobody may point to.
- **Substrate, one organism.** Most of what a tick guarantees does not depend on
  which operation takes the step but on what any step may make of one organism.
  `Evolves` says that: it survives, with one edge of the state diagram at most, a
  roll only in the phase of Fool's Day, one attempt more or one success for a
  courtship lost; or it is removed, and in the phase of Fool's Day only if it was
  awake or had no roll; or it is the newborn. `StepsEvolve` shows it of all
  steps but `Deliver` and `Account`, action by action. `OrganismInv` then holds
  `Sane` for each organism, with the facts that the loader asks for:
  - `AgesAreElapsed`: no step but `Account` changes an age or the tick, and it
    changes both;
  - `WinsStayAttempted`, inductive because it counts the success that a courtship
    under way may still bring;
  - `DisplacementKeepsOrder` needs `InBirthOrder` (a lower id is not born later)
    besides the ages: the oldest by age, lowest id first, is then the lowest id.
- **Substrate, with the history.** `OneRollAYear` and `OnlyAwakeAreHeard` are
  theorems of `SpecH`, over all that has happened.
  - `OneRollAYear`, from `RollInv`: for the living the history is one roll exactly
    when the roll year is this year; nobody unborn has had one. A step can
    therefore neither reset the roll year of somebody who has had its roll nor
    draw for it again, before its death or after, and a new year finds everybody
    with an older one.
  - `OnlyAwakeAreHeard`, from `VoiceInv`. In the execution loop those who have been
    handled have a message exactly if they ran awake in this tick and have stayed
    so, and the others have not run in it yet (`LoopVoices`). It needs `RunInv`, that
    behind the loop variable are exactly those who have been handled, and
    `VoiceSane`, that nobody dormant has a flag, since `clear_public_outputs` is part
    of every way of falling asleep: whoever wakes up starts without one.
    `SendersSpoke` follows when the loop is over, for everybody (`Past` keeps the
    ids that ran in this tick apart from those that ran in an earlier one), and
    `HearsTheSpeakers` at the delivery, in both directions: all others who spoke
    are in the inbox of whoever is awake, and nobody else is. After the delivery it
    must survive courtships and displacement, with no newborn heard or hearing;
    `NoneNew` says that up to then nobody was born in this tick.
- **Substrate, the scans.** `FoolsDayHolds` and `DormancyIsBounded`. A scan
  guarantees something of those it has been past, the `Front` of its loop variable.
  Because a removal puts the last organism into the hole, what has to be shown is
  that the front only loses the one removed (`FrontDelete`) and that those whom
  `NextHit` passes over need no treatment (`Treats`, `TreatsFront`). After the
  scan it must survive the rest of the tick: nobody wakes on April 1
  (`FoolInv`), and nobody falls asleep who has not just been awake (`DormantInv`).
  The same argument for the timers gives `OffInv`, that nobody is off who is due,
  which the refinement of `Lifecycle` needs.
- **Substrate, the loops.** `ExecutionIsFair`: those who have run and live are
  exactly the front of the loop (`RunInv`), also when `Settle` removes without
  advancing. `CapacityIsKept`. `EachCoupleIsMet` is the subtle one: the eviction
  after a birth may fill a hole in front of the courtship loop with the last
  organism, which the loop would then never meet. No couple is lost because the
  last slot is the newborn's as long as the array is over its capacity
  (`CoupleInv`), and the newborn leads no couple; with the capacity kept, one
  eviction ends it.
- **Substrate, the counters.** `CourtshipsAreBalanced`: the courtships started
  are those that failed, that were completed, and that are under way, the last being
  the cardinality of a set of couples. Each step is shown to part one couple, to
  begin one, or to leave all alone (`StepsCourt`), and the three cases change the
  cardinality by one or not at all.
- **Substrate, refinements.** `TimeIsKept`, `LifecycleIsKept` and `CourtshipIsKept`:
  initial states map to initial states, and each step to a step of the abstract
  specification or to a stutter. That one step never changes the life of two
  organisms, and breaks off one couple at most, comes from `StepsCourt`; that off
  ends at its timer and not later, from `LifeInv`; that a death takes its couple
  along, from the reciprocal links (`DeathCourts`).
- **Substrate, save and load.** `SavedWorldsLoad` draws on nearly all of the above:
  what the loader asks and the saver does not (a timer within its range, birth
  before now on a valid date, older parents and a generation that fits them,
  mutations and weight changes within their limits, a roll not in the future,
  successes within the attempts, the capacity, and as many couples as are counted)
  is an invariant of the program (`Sane` of each organism: `OriginSane`, `RunsSane`
  and the rest).
  `CouplesCounted` shows that the loader, counting slots, and the program, counting
  couples, count the same, by a bijection.

- **Experiment, checkpoints.** `CheckpointsStayWhole`, `ResumesAreExact` and
  `LastStateIsSaved`, from `ExperimentInv`. `CourseInv` says that the process
  and every checkpoint are on the course of `History`, and that the temporary
  file is the whole world when it is about to be renamed. `LastSaveInv` follows
  a command that has not failed: a checkpoint has just been written when the
  record of it is, and a loop that ends on the schedule has been through it.
  Resuming needs that a world consists of exactly the fields that are restored or
  come from a configuration with the same fingerprint (`RestoredIsSame`). `SavesAreDurable` is the refinement of `Durable`: the rename
  is the commit, a tick is an advance, and whatever else happens to files is
  invisible there (`RenameCommits`, `StoreStep`).
- **Experiment, types.** `ExperimentTypeCorrect`, from `TypeInv`, which adds that
  worlds are `Sound`: the living are below the next id, hence finitely many. It is
  the reason why the records of a loop are a list at all (`AscendingIsTheList`:
  the rank of an id in a finite set is a bijection, so no recursion is needed).
- **Experiment, the log.** `LogsOnlyGrow`: what a command does to the log is to add
  records behind it (`Adds`), what a crash does is to cut it at the mark,
  or one partial line behind it (`LostIsPrefix`). `RecordsAreCommitted`: a checkpoint that is recorded is there,
  and no older than the record says. This is inductive only with a clause on the
  process (`InPlace`): one that writes to the path of a record is never at an
  earlier tick than the record, or its next save would take the checkpoint back.
  It holds because a run truncates the log before its first save, and a resume
  begins from the checkpoint of the path itself. `DeathsEndSegments` and
  `SegmentsTellPopulation` come together, from `SegmentInv`: the segment under way
  says who is alive (`Tells`), and no segment says more of somebody after a death
  (`Closed`). The induction needs that whoever has died has an id below the next
  one, which is why no later birth can name a dead id.

- **Startup.** Every property of the run `startup` is proved, for files of any
  lines, words of any width, any grid of floats and any number of organisms.
  - `LoadsReplaceWhole` is a refinement: each step of `Startup` is a step of
    `Register` or leaves it alone. It needs no invariant.
  - `LoadsAreDeclarative` needs `LoadInv`: the local configuration is what the
    assignments so far declare, and no two of them are of one key (`KeysApart`,
    `OneReading`), so that their order cannot matter.
  - `ConfigInv` adds to the types that a configuration is valid from the end of
    the load to the end of the command. `ValidStaysUsable` follows from it by
    arithmetic alone: `WordsSuffice` (no later sum or product wraps), `LayoutFits`
    (the two formulas for the number of genes agree as polynomials, and the eight
    positions of the rhythm are in increasing order) and `OffDurationFaithful`.
  - `HeapStaysHeld` and `RowsStayTogether` come from `MemoryInv` and `RowsInv`,
    proved side by side. `HeapIsHeld` alone is not inductive: that the release at
    each place reaches everything needs `PhaseInv`, which says what each phase has
    not acquired yet, down to the file that is open on the way to a resume only.
    `RowsInv` says which id comes next while the seeds are appended.
    `ReserveHolds` (room for what is asked) and `WithoutHolds` (the last row in the
    place of another loses that one and doubles none) are the facts about arrays.
  - `SeedsStaySound`, from `SeedInv`. `RoundedWithin` is the reason for its
    condition on the bound: rounding is monotone and leaves the bound where it
    is. `RhythmMoves` shows that the bias always moves when no other gene of the
    rhythm has, `OneMoreChanged` that the count follows.
- **Words.** `OffDurationFaithful` for all outputs, of which the run samples six,
  and `RejectionIsUniform`, which no run checks. `MappedExactly` is the lemma that
  no intermediate product wraps: the remainder times the output is at most
  `U32Max * (U32Max - 1)`, and the rounding adds less than `U32Max`.

Only model-checked: the two liveness properties, `RunTerminates` and `LaunchEnds`.
Liveness under fairness, and `ENABLED`, are out of the prover's reach. The runs
that expect a violation are refutations and have nothing to prove. No definition
is recursive but `History`, which an assumption gives by its two equations, so
that nothing here is about what a recursion computes.

## What is not modelled, and the plan

The plan of modules, runs and proofs is carried out. What a proof could still add
are statements that no run makes today, of `Heredity` for children of any two
parents rather than for the seeds, and of the arrays of `Layout` when the model
of rows is joined to the population of `Substrate`.

Left out for good, with the reason:

- floating-point arithmetic of the networks, plasticity and the effective weights:
  a network's output is a choice, and no property here could depend on its value;
- an age rate so large that the conversion of `biological_age` to 64 bits is
  undefined (`simulation.c:1530`): rates are whole numbers in the models;
- the words of the generator: `Experiment` knows its position only, `Heredity` and
  `Substrate` let any draw happen;
- doubles that are not finite in a configuration: the loader refuses them before
  they get anywhere;
- the fingerprint of a configuration as a number: in `Experiment` it is the
  configuration, so that two have the same one only when they are equal;
- pointers into the arrays across `alife_reserve`: the code looks parents up again
  by id, and an organism is its id in the models;
- formatting of log records and terminal summaries; the scripts, the analysis
  tool and the test runner.
