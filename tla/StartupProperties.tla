-------------------------- MODULE StartupProperties --------------------------
(***************************************************************************)
(* What the start, the memory and the configuration must guarantee, stated *)
(* about Startup.                                                          *)
(***************************************************************************)
EXTENDS Startup

LoaderPhases == {"idle", "reading", "read", "refused", "loaded"}
SeedPhases == {"shape", "mutate", "rhythm", "flip", "inspect", "append"}
Phases ==
    LoaderPhases \cup SeedPhases
    \cup {"open", "setup", "log", "restore", "rows", "seed", "running", "exited"}

\* The numbers of an AlifeConfig are within their types.
InItsTypes(c) ==
    /\ DOMAIN c = Keys
    /\ \A k \in U32Keys : c[k] \in 0..U32Max
    /\ \A k \in U64Keys : c[k] \in 0..U64Max
    /\ \A k \in DoubleKeys : c[k] \in Int

TypeOK ==
    /\ pc \in Phases /\ resume \in BOOLEAN
    /\ dest = NoConfig \/ InItsTypes(dest)
    /\ loaded = NoConfig \/ InItsTypes(loaded)
    /\ seen \subseteq Keys /\ taken \subseteq Lines /\ lines \in 0..MaxLines
    /\ heap \subseteq Blocks /\ ptr \in [Pointers -> Blocks \cup {Null}]
    /\ rows \in Nat
    /\ ids \in Seq(0..MaxId) /\ owners \in Seq(0..MaxId) /\ nextId \in 0..(MaxId + 1)
    /\ base \in [Genes -> Int] /\ related \in [Genes -> Int] /\ mutations \in Nat

(***************************************************************************)
(* The configuration                                                       *)
(***************************************************************************)
\* Where a call of alife_config_load stands, as its caller sees it.
LoadCall ==
    CASE pc = "idle" -> "none"
      [] pc \in {"reading", "read"} -> "busy"
      [] pc = "refused" -> "failed"
      [] OTHER -> "done"

Configuration ==
    INSTANCE Register WITH value <- dest, call <- LoadCall, Unset <- NoConfig, Sound <- Valid

\* A load replaces the caller's configuration by a valid one or leaves it as it
\* was, whichever line or read it fails at (alife_config_load).
KeepsRegister == Configuration!Spec

\* The sums and products that later code makes of a configuration do not wrap:
\* the ramp in build_inputs, the dormancy limit, the end of an off period.
FitsItsWords(c) ==
    /\ c.maturity_age + c.reproduction_ramp_ticks + 1 <= U64Max
    /\ c.max_without_awake_days * c.ticks_per_day <= U64Max
    /\ c.tick_count + c.off_max_duration_ticks <= U64Max

\* The two counts of the genome agree, and the genes that are taken for the
\* rhythm are eight, all of the genome.
LayoutServes(c) ==
    /\ LayoutAccepts(c) /\ GenomeCount(c) = ParameterCount(c)
    /\ RhythmPositions(c) \subseteq 0..(GenomeCount(c) - 1)
    /\ Cardinality(RhythmPositions(c)) = 8

OffSamples == {0, 1, U32Max \div 3, U32Max \div 2, U32Max - 1, U32Max}

\* Off durations stay within the two limits, reach both and grow with the output.
OffDurationServes(c) ==
    /\ OffDurationFrom(c, 0) = c.off_min_duration_ticks
    /\ OffDurationFrom(c, U32Max) = c.off_max_duration_ticks
    /\ \A i, j \in OffSamples : i <= j => OffDurationFrom(c, i) <= OffDurationFrom(c, j)

\* What alife_config_validate lets through is fit for use: setup does not meet
\* a layout it refuses, no later sum wraps, off_duration_from_output works.
ValidIsUsable ==
    pc = "loaded" => FitsItsWords(dest) /\ LayoutServes(dest) /\ OffDurationServes(dest)

(***************************************************************************)
(* Memory                                                                  *)
(***************************************************************************)
\* Whatever fails, and whenever: every block is held by the one pointer it was
\* made for, so that it is freed once, and none is left when the command ends
\* (alife_setup_world, seed_population, abandon_world, alife_world_destroy).
HeapIsHeld ==
    /\ heap = Held(Pointers)
    /\ \A p \in Pointers : ptr[p] # Null => ptr[p].of = p
    /\ pc \in LoaderPhases \cup {"exited"} => heap = {}
    /\ pc = "running" => \A p \in SeedPointers \cup {"file"} : ptr[p] = Null

\* The arrays have room for every organism, and the row of weights beside an
\* organism is its own, through growth, removal and reload (alife_reserve,
\* remove_at, alife_world_load).
RowsFollow ==
    /\ \A p \in Arrays : ptr[p] = IF rows = 0 THEN Null ELSE Block(p, rows)
    /\ Len(ids) <= rows
    /\ owners = ids
    /\ pc # "rows" =>
        /\ \A j, k \in DOMAIN ids : ids[j] = ids[k] => j = k
        /\ \A k \in DOMAIN ids : ids[k] < nextId

(***************************************************************************)
(* The seeds                                                               *)
(***************************************************************************)
ChildrenValid ==
    \A g \in Genes, choice \in {0, 2, 3}, s \in Draws :
        GeneValid(dest, ChildGene(dest, base[g], related[g], choice,
                                  Scaled(s, dest.mutation_magnitude)))

\* The mutations counted for the second seed are the genes in which it differs,
\* at least one, and one of the rhythm unless the magnitude is tiny; when the
\* bound is a float, seeds and their children are valid (seed_population,
\* complete_birth).
SeedsSound ==
    pc = "inspect" =>
        /\ mutations = Cardinality(Changed(base, related)) /\ mutations >= 1
        /\ dest.mutation_magnitude >= 20000 => Changed(base, related) \cap RhythmGenes # {}
        /\ IsFloat(dest.max_abs_weight) => SeedsValid /\ ChildrenValid

\* docs/architecture.md: the seeds are "valid genomes", for every configuration
\* that is accepted.  Refuted: the bound itself may not be a float, and a clamped
\* gene is rounded beyond it.
SeedsAreValid == pc = "inspect" => SeedsValid

=============================================================================
