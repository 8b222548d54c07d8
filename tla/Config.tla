------------------------------- MODULE Config -------------------------------
(***************************************************************************)
(* The experiment parameters of AL4.20 (src/src/config.c): defaults, the   *)
(* reading of one value, and validation.                                   *)
(*                                                                         *)
(* A configuration is a function from the keys to their values.  A double  *)
(* is an integer number of millionths; the loader lets no other than a     *)
(* finite one in.  A path is its name.  A value in the file is a text:     *)
(*   form  whole: digits;  minus: digits after a minus sign;             *)
(*         fraction: a finite number that only strtod reads to its end;    *)
(*         quoted, unclosed: a text that starts with a quote, and ends     *)
(*         with it or does not;  word: any other text                      *)
(*   n     the number (millionths for a fraction)                          *)
(*   name  the characters, between the quotes where there are any          *)
(***************************************************************************)
EXTENDS Calendar

CONSTANTS
    U32Max,     \* UINT32_MAX
    U64Max,     \* UINT64_MAX
    LongNames   \* the names of 256 characters or more

\* The defaults fit.
ASSUME WidthAssumption ==
    /\ U32Max \in Nat /\ U32Max >= 16383
    /\ U64Max = U32Max * (U32Max + 2)   \* 2^64 - 1 from 2^32 - 1

One == 1000000  \* 1.0 in millionths

U32Keys ==
    {"input_size", "hidden_size", "communication_size", "initial_population",
     "calendar_start_year", "calendar_start_month", "calendar_start_day"}

U64Keys ==
    {"seed", "capacity_bytes", "maturity_age", "reproduction_ramp_ticks",
     "courtship_duration_ticks", "max_without_awake_days",
     "off_min_duration_ticks", "off_max_duration_ticks", "ticks_per_day",
     "tick_count", "summary_interval", "checkpoint_interval"}

DoubleKeys ==
    {"awake_age_rate", "sleep_age_rate", "off_age_rate",
     "reproduction_base_probability", "reproduction_max_probability",
     "mutation_probability", "mutation_magnitude", "plasticity_limit",
     "plasticity_decay", "foolsday_sleep_death_probability",
     "state_transition_threshold", "max_abs_weight"}

PathKeys == {"checkpoint_path", "event_log_path"}

\* KEY_DEFINITIONS
Keys == U32Keys \cup U64Keys \cup DoubleKeys \cup PathKeys \cup {"logging_level"}

Levels == {"error", "summary", "events"}

\* alife_config_defaults
DefaultConfig ==
    [seed |-> 1, input_size |-> 8, hidden_size |-> 24, communication_size |-> 2,
     initial_population |-> 2, capacity_bytes |-> 67108864,
     maturity_age |-> 1000, reproduction_ramp_ticks |-> 9000,
     courtship_duration_ticks |-> 20,
     awake_age_rate |-> One, sleep_age_rate |-> 600000, off_age_rate |-> 20000,
     max_without_awake_days |-> 7,
     reproduction_base_probability |-> 10000,
     reproduction_max_probability |-> 500000,
     mutation_probability |-> 10000, mutation_magnitude |-> 100000,
     plasticity_limit |-> 50000, plasticity_decay |-> 999000,
     foolsday_sleep_death_probability |-> 0,
     off_min_duration_ticks |-> 10, off_max_duration_ticks |-> 100000,
     state_transition_threshold |-> 500000,
     calendar_start_year |-> 2026, calendar_start_month |-> 1,
     calendar_start_day |-> 1, ticks_per_day |-> 1000, tick_count |-> 100000,
     summary_interval |-> 1000, checkpoint_interval |-> 10000,
     checkpoint_path |-> "alife.chk", event_log_path |-> "events.jsonl",
     logging_level |-> "summary", max_abs_weight |-> 4 * One]

(***************************************************************************)
(* One value: the set of what it is read as, empty when it is refused      *)
(***************************************************************************)
ParseU64(t) == IF t.form = "whole" /\ t.n <= U64Max THEN {t.n} ELSE {}

\* Fault: a number that needs more than 32 bits is let through.
ParseU32Unchecked(t) == ParseU64(t)

ParseU32(t) == {v \in ParseU64(t) : v <= U32Max}

ParseDouble(t) ==
    CASE t.form = "whole" -> {t.n * One}
      [] t.form = "minus" -> {-t.n * One}
      [] t.form = "fraction" -> {t.n}
      [] OTHER -> {}

\* The empty name is refused by the validation only.
ParsePath(t) == IF t.form = "unclosed" \/ t.name \in LongNames THEN {} ELSE {t.name}

ParseLevel(t) ==
    CASE t.form \in {"quoted", "unclosed"} -> {}
      [] t.name \in {"error", "0"} -> {"error"}
      [] t.name \in {"summary", "1"} -> {"summary"}
      [] t.name \in {"events", "2"} -> {"events"}
      [] OTHER -> {}

\* assign_value
Readings(key, t) ==
    CASE key \in U32Keys -> ParseU32(t)
      [] key \in U64Keys -> ParseU64(t)
      [] key \in DoubleKeys -> ParseDouble(t)
      [] key \in PathKeys -> ParsePath(t)
      [] OTHER -> ParseLevel(t)

(***************************************************************************)
(* alife_config_validate                                                   *)
(***************************************************************************)
Probability(p) == 0 <= p /\ p <= One

\* The heritable parameters of the network, as the validation counts them.
ParameterCount(c) ==
    LET h == c.hidden_size
        outputs == c.communication_size + 7
    IN h * (c.input_size + c.communication_size + 4) + h * h + h
       + outputs * h + outputs + 2 * h

SizesValid(c) ==
    /\ c.input_size \in 6..32
    /\ c.hidden_size \in 4..64
    /\ c.communication_size \in 1..8
    /\ ParameterCount(c) \in 500..2000
    /\ c.initial_population = 2
    /\ c.capacity_bytes > 0

\* The bound on the rates is UINT64_MAX / 1000000 ticks.
AgesValid(c) ==
    /\ c.maturity_age > 0 /\ c.reproduction_ramp_ticks > 0
    /\ c.courtship_duration_ticks > 0
    /\ \A k \in {"awake_age_rate", "sleep_age_rate", "off_age_rate"} :
            0 <= c[k] /\ c[k] <= U64Max
    /\ c.max_without_awake_days > 0
    /\ c.ticks_per_day # 0 =>
            c.max_without_awake_days <= U64Max \div c.ticks_per_day

\* Fault: the one that build_inputs adds is forgotten.
RampValidLoosely(c) ==
    /\ c.reproduction_ramp_ticks # U64Max
    /\ c.maturity_age <= U64Max - c.reproduction_ramp_ticks

RampValid(c) ==
    /\ c.reproduction_ramp_ticks # U64Max
    /\ c.maturity_age <= U64Max - c.reproduction_ramp_ticks - 1

\* max_abs_weight is at least 0.000001, which is one millionth.
HeredityValid(c) ==
    /\ Probability(c.reproduction_base_probability)
    /\ Probability(c.reproduction_max_probability)
    /\ c.reproduction_base_probability <= c.reproduction_max_probability
    /\ Probability(c.mutation_probability)
    /\ 1 <= c.max_abs_weight /\ c.max_abs_weight <= 1000 * One
    /\ 0 <= c.mutation_magnitude /\ c.mutation_magnitude <= c.max_abs_weight
    /\ 0 <= c.plasticity_limit /\ c.plasticity_limit <= c.max_abs_weight
    /\ Probability(c.plasticity_decay)
    /\ Probability(c.foolsday_sleep_death_probability)

StartDate(c) ==
    Date(c.calendar_start_year, c.calendar_start_month, c.calendar_start_day)

TimesValid(c) ==
    /\ c.off_min_duration_ticks > 0
    /\ c.off_max_duration_ticks >= c.off_min_duration_ticks
    /\ 0 <= c.state_transition_threshold /\ c.state_transition_threshold < One
    /\ DateValid(StartDate(c))
    /\ c.ticks_per_day > 0 /\ c.tick_count > 0
    /\ c.tick_count <= U64Max - c.off_max_duration_ticks
    /\ c.summary_interval > 0 /\ c.checkpoint_interval > 0

PathsValid(c) ==
    /\ \A k \in PathKeys : c[k] # "" /\ c[k] \notin LongNames
    /\ c.checkpoint_path # c.event_log_path
    /\ c.logging_level \in Levels

Valid(c) ==
    /\ SizesValid(c) /\ AgesValid(c) /\ RampValid(c) /\ HeredityValid(c)
    /\ TimesValid(c) /\ PathsValid(c)

=============================================================================
