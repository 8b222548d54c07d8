---------------------------- MODULE OffDuration -----------------------------
(***************************************************************************)
(* Arithmetic of AL4.20 in words of 64 bits: the mapping of a network      *)
(* output to the duration of an off period (off_duration_from_output in    *)
(* src/src/simulation.c) and the rejection of alife_rng_bounded            *)
(* (src/src/rng.c).                                                        *)
(***************************************************************************)
EXTENDS Config

Word(n) == n % (U64Max + 1)

Span(c) == c.off_max_duration_ticks - c.off_min_duration_ticks

\* The output, clamped to -1..1 and scaled to 0..U32Max, comes in as scaled.
Mapped(c, scaled) ==
    Word(Word((Span(c) \div U32Max) * scaled)
         + Word((Span(c) % U32Max) * scaled + U32Max \div 2) \div U32Max)

OffDurationFrom(c, scaled) ==
    Word(c.off_min_duration_ticks
         + IF Mapped(c, scaled) > Span(c) THEN Span(c) ELSE Mapped(c, scaled))

\* The first word that alife_rng_bounded does not reject.
Threshold(n) == Word(U64Max + 1 - n) % n

=============================================================================
