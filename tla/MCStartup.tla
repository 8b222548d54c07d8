------------------------------ MODULE MCStartup ------------------------------
(***************************************************************************)
(* Instances of Startup for TLC, with words of 14 and 28 bits.             *)
(***************************************************************************)
EXTENDS StartupProperties

Whole(n) == [form |-> "whole", n |-> n, name |-> ""]
Minus(n) == [form |-> "minus", n |-> n, name |-> ""]
Fraction(n) == [form |-> "fraction", n |-> n, name |-> ""]
Called(how, name) == [form |-> how, n |-> 0, name |-> name]

Other(kind) == [kind |-> kind, key |-> "", text |-> Called("word", "")]
Assigns(key, text) == [kind |-> "assign", key |-> key, text |-> text]

TooLong == "a path of 256 characters or more"

\* Lines of every kind, values at the limits of their ranges, pairs of values
\* of which one is valid only with the other, and a key that is none.
FewLines ==
    {Other("blank"), Other("long"), Other("bare"), Other("hollow"),
     Assigns("colour", Called("word", "error")),
     Assigns("logging_level", Called("word", "error")),
     Assigns("off_max_duration_ticks", Whole(12)),
     Assigns("tick_count", Whole(U64Max - 12)),
     Assigns("maturity_age", Whole(U64Max - 9000)),
     Assigns("seed", Minus(1)),
     Assigns("calendar_start_day", Whole(U32Max + 1)),
     Assigns("input_size", Whole(32)),
     Assigns("communication_size", Whole(8)),
     Assigns("hidden_size", Whole(20)),
     Assigns("capacity_bytes", Whole(19000)),
     Assigns("mutation_magnitude", Whole(0)),
     Assigns("plasticity_limit", Whole(0)),
     Assigns("max_abs_weight", Fraction(1)),
     Assigns("checkpoint_path", Called("quoted", "events.jsonl")),
     Assigns("event_log_path", Called("quoted", "alife.chk")),
     Assigns("event_log_path", Called("unclosed", "events.jsonl"))}

\* The bound that no float is equal to.
RoughLines == {Other("blank"), Assigns("max_abs_weight", Fraction(123000))}

FewOverrides == {"alife.chk", "", TooLong}
FewDraws == {-8, 0, 7}
LongNamesHere == {TooLong}

=============================================================================
