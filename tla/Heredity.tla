------------------------------ MODULE Heredity ------------------------------
(***************************************************************************)
(* How genes come to be (src/src/simulation.c): the shaping and mutation   *)
(* of the seeds, recombination, and the clamp to max_abs_weight, which is  *)
(* made with doubles and then rounded to float.                            *)
(*                                                                         *)
(* A gene is a number of millionths.  Those below Fine are all floats;     *)
(* above it, floats are Coarse apart.                                      *)
(***************************************************************************)
EXTENDS Config

CONSTANTS
    Fine, Coarse,   \* the floats
    Steps,          \* bound: alife_rng_symmetric draws one of s / Steps,
    Draws           \*        with s one of these of -Steps..Steps-1

ASSUME FloatAssumption ==
    /\ Fine \in Nat /\ Fine > 10 /\ Coarse \in Nat \ {0} /\ Fine % Coarse = 0
    /\ Steps \in Nat \ {0} /\ Draws \subseteq -Steps..(Steps - 1)

Magnitude(x) == IF x < 0 THEN -x ELSE x

\* The conversion (float), which rounds to the nearest.
Nearest(m) == IF m < Fine THEN m ELSE ((m + Coarse \div 2) \div Coarse) * Coarse
ToFloat(x) == IF x < 0 THEN -Nearest(-x) ELSE Nearest(x)

IsFloat(x) == ToFloat(x) = x

\* clamp_double, between -bound and bound
Clamp(x, bound) == IF x < -bound THEN -bound ELSE IF x > bound THEN bound ELSE x

\* bounded_gene, which every mutation ends with too
BoundedGene(c, x) == ToFloat(Clamp(x, c.max_abs_weight))

\* alife_genome_validate, of one gene
GeneValid(c, g) == Magnitude(g) <= c.max_abs_weight

\* alife_rng_symmetric times a scale
Scaled(s, scale) == (s * scale) \div Steps

(***************************************************************************)
(* The seeds, by genes that stand for the rest: an ordinary weight, and of *)
(* the rhythm an oscillating neuron's bias and its weight to the sleep     *)
(* output.                                                                 *)
(***************************************************************************)
Genes == {"weight", "bias", "sleep"}
RhythmGenes == {"bias", "sleep"}

\* 1 / sqrt(hidden_size), for which a quarter stands, or max_abs_weight
InitialScale(c) == IF One \div 4 > c.max_abs_weight THEN c.max_abs_weight ELSE One \div 4

\* initialize_genome and seed_sleep_rhythm.  What the bias was before adds
\* less than a millionth to it.
InitialGenome(c, s) ==
    [g \in Genes |->
        CASE g = "weight" -> ToFloat(Scaled(s, InitialScale(c)))
          [] g = "bias" -> BoundedGene(c, 10)
          [] g = "sleep" -> BoundedGene(c, 3 * One)]

\* The second seed mutates with at least this probability.
SeedMutationProbability(c) ==
    IF c.mutation_probability < 20000 THEN 20000 ELSE c.mutation_probability

Changed(from, to) == {g \in Genes : to[g] # from[g]}

\* The loop of seed_population: the genes drawn move by a part of the magnitude.
MutatedGenes(c, genome, drawn, shift) ==
    [g \in Genes |->
        IF g \in drawn THEN BoundedGene(c, genome[g] + Scaled(shift[g], c.mutation_magnitude))
        ELSE genome[g]]

\* mutate_related_rhythm_gene: a step of the bias, the other way when there is
\* no room for it; none when the magnitude is too small for a float to show.
RhythmStep(c, old, step) ==
    IF BoundedGene(c, old + step) # old THEN BoundedGene(c, old + step)
    ELSE BoundedGene(c, old - step)

\* Its size is 0.00005 to 0.0001 of the magnitude, in either direction.
RhythmSteps(c) ==
    LET sizes == {c.mutation_magnitude \div 20000, c.mutation_magnitude \div 10000}
    IN sizes \cup {-size : size \in sizes}

\* The last resort, a gene turned over, or half the bound, which is not 0.
Flipped(c, gene) == IF gene # 0 THEN -gene ELSE ToFloat((c.max_abs_weight + 1) \div 2)

(***************************************************************************)
(* complete_birth: one gene of a child.  The choice is drawn from 0..19.   *)
(***************************************************************************)
Inherited(a, b, choice) ==
    IF choice < 2 THEN (a + b) \div 2 ELSE IF choice % 2 = 0 THEN a ELSE b

ChildGene(c, a, b, choice, shift) == BoundedGene(c, Inherited(a, b, choice) + shift)

=============================================================================
