---------------------------- MODULE NumericProofs ----------------------------
(***************************************************************************)
(* Proofs about the numbers: genes and floats, the seeds, what a valid     *)
(* configuration is good for, off durations, unbiased draws.               *)
(***************************************************************************)
EXTENDS StartupProofs, FiniteSetTheorems

(***************************************************************************)
(* Division                                                                *)
(***************************************************************************)
LEMMA Division ==
    ASSUME NEW n \in Nat \ {0}, NEW m \in Int
    PROVE  /\ m \div n \in Int /\ m % n \in 0..(n - 1)
           /\ m = (m \div n) * n + (m % n)
           /\ m \in Nat => m \div n \in Nat
<1> DEFINE q == m \div n
           r == m % n
<1>1. q \in Int /\ r \in 0..(n - 1) /\ m = q * n + r
  OBVIOUS
<1>2. m \in Nat => q \in Nat
  OBVIOUS
<1>3. QED BY <1>1, <1>2

LEMMA QuotientsOrdered ==
    ASSUME NEW n \in Nat \ {0}, NEW p \in Int, NEW q \in Int, p * n < q * n + n
    PROVE  p <= q
<1> SUFFICES ASSUME p >= q + 1 PROVE FALSE
  OBVIOUS
<1>1. (p - (q + 1)) * n >= 0
  OBVIOUS
<1>2. QED BY <1>1

LEMMA DivisionMonotone ==
    ASSUME NEW n \in Nat \ {0}, NEW a \in Int, NEW b \in Int, a <= b
    PROVE  a \div n <= b \div n
<1> DEFINE p == a \div n
           q == b \div n
           r == a % n
           s == b % n
<1>1. /\ p \in Int /\ q \in Int /\ r \in 0..(n - 1) /\ s \in 0..(n - 1)
      /\ a = p * n + r /\ b = q * n + s
  BY Division
<1> HIDE DEF p, q, r, s
<1>2. p * n \in Int /\ q * n \in Int
  BY <1>1
<1>3. p * n < q * n + n
  BY <1>1, <1>2
<1>4. p <= q
  BY <1>1, <1>3, QuotientsOrdered
<1>5. QED BY <1>4 DEF p, q

(***************************************************************************)
(* Floats                                                                  *)
(***************************************************************************)
LEMMA NearestHolds ==
    ASSUME NEW m \in Nat
    PROVE  /\ Nearest(m) \in Nat
           /\ m < Fine => Nearest(m) = m
           /\ m >= Fine => Nearest(m) >= Fine
<1>1. /\ Fine \in Nat /\ Coarse \in Nat \ {0} /\ Fine % Coarse = 0
  BY FloatAssumption
<1> DEFINE h == Coarse \div 2
           q == (m + h) \div Coarse
           k == Fine \div Coarse
<1>2. h \in Nat
  BY <1>1
<1>3. q \in Nat /\ k \in Nat /\ Fine = k * Coarse
  BY <1>1, <1>2, Division
<1>4. q * Coarse \in Nat
  BY <1>1, <1>3
<1>5. ASSUME m >= Fine PROVE q * Coarse >= Fine
  <2>1. k <= q
    BY <1>1, <1>2, <1>5, DivisionMonotone
  <2> HIDE DEF q, k, h
  <2>2. (q - k) * Coarse >= 0
    BY <1>1, <1>3, <2>1
  <2>3. QED BY <1>1, <1>3, <2>2
<1>6. QED BY <1>1, <1>4, <1>5 DEF Nearest

LEMMA NearestMonotone ==
    ASSUME NEW a \in Nat, NEW b \in Nat, a <= b
    PROVE  Nearest(a) <= Nearest(b)
<1>1. Fine \in Nat /\ Coarse \in Nat \ {0}
  BY FloatAssumption
<1>2. CASE b < Fine
  BY <1>1, <1>2, NearestHolds
<1>3. CASE a < Fine /\ b >= Fine
  BY <1>1, <1>3, NearestHolds
<1>4. CASE a >= Fine /\ b >= Fine
  <2> DEFINE h == Coarse \div 2
             p == (a + h) \div Coarse
             q == (b + h) \div Coarse
  <2>1. h \in Nat
    BY <1>1
  <2>2. p \in Int /\ q \in Int
    BY <1>1, <2>1
  <2>3. p <= q
    BY <1>1, <2>1, DivisionMonotone
  <2>4. Nearest(a) = p * Coarse /\ Nearest(b) = q * Coarse
    BY <1>1, <1>4 DEF Nearest
  <2> HIDE DEF p, q, h
  <2>5. (q - p) * Coarse >= 0
    BY <1>1, <2>2, <2>3
  <2>6. QED BY <1>1, <2>2, <2>4, <2>5
<1>5. QED BY <1>1, <1>2, <1>3, <1>4

LEMMA FloatTyped ==
    ASSUME NEW x \in Int
    PROVE  ToFloat(x) \in Int /\ (x >= 0 => ToFloat(x) >= 0)
BY NearestHolds DEF ToFloat

LEMMA ClampHolds ==
    ASSUME NEW x \in Int, NEW b \in Nat
    PROVE  /\ Clamp(x, b) \in Int /\ Magnitude(Clamp(x, b)) <= b
           /\ Magnitude(x) <= b => Clamp(x, b) = x
BY DEF Clamp, Magnitude

\* A value within a bound that is a float stays within it when it is rounded.
LEMMA RoundedWithin ==
    ASSUME NEW x \in Int, NEW b \in Nat, IsFloat(b), Magnitude(x) <= b
    PROVE  ToFloat(x) \in Int /\ Magnitude(ToFloat(x)) <= b
<1>1. Nearest(b) = b
  BY DEF IsFloat, ToFloat
<1>2. CASE x >= 0
  <2>1. x \in Nat /\ x <= b
    BY <1>2 DEF Magnitude
  <2>2. Nearest(x) \in Nat /\ Nearest(x) <= b
    BY <1>1, <2>1, NearestHolds, NearestMonotone
  <2>3. QED BY <1>2, <2>2 DEF ToFloat, Magnitude
<1>3. CASE x < 0
  <2>1. -x \in Nat /\ -x <= b
    BY <1>3 DEF Magnitude
  <2>2. Nearest(-x) \in Nat /\ Nearest(-x) <= b
    BY <1>1, <2>1, NearestHolds, NearestMonotone
  <2>3. QED BY <1>3, <2>2 DEF ToFloat, Magnitude
<1>4. QED BY <1>2, <1>3

(***************************************************************************)
(* Genes                                                                   *)
(***************************************************************************)
\* What a valid configuration says of the bound and of the magnitude.
Bounded(c) ==
    /\ c.max_abs_weight \in Nat \ {0}
    /\ c.mutation_magnitude \in 0..c.max_abs_weight

LEMMA GeneTyped ==
    ASSUME NEW c, Bounded(c), NEW x \in Int
    PROVE  BoundedGene(c, x) \in Int
BY ClampHolds, FloatTyped DEF Bounded, BoundedGene

LEMMA GeneWithin ==
    ASSUME NEW c, Bounded(c), IsFloat(c.max_abs_weight), NEW x \in Int
    PROVE  GeneValid(c, BoundedGene(c, x))
BY ClampHolds, RoundedWithin DEF Bounded, BoundedGene, GeneValid

LEMMA ScaledTyped ==
    ASSUME NEW s \in Draws, NEW scale \in Nat
    PROVE  Scaled(s, scale) \in Int /\ Magnitude(Scaled(s, scale)) <= scale
<1>1. s \in Int /\ Steps \in Nat \ {0} /\ -Steps <= s /\ s <= Steps
  BY FloatAssumption
<1>2. s * scale \in Int /\ -scale \in Int
  BY <1>1
<1>3. (-scale) * Steps <= s * scale /\ s * scale <= scale * Steps
  <2>1. (s + Steps) * scale >= 0 /\ (Steps - s) * scale >= 0
    BY <1>1
  <2>2. QED BY <1>1, <2>1
<1> DEFINE d == s * scale
<1>4. d \div Steps \in Int /\ d % Steps \in 0..(Steps - 1)
      /\ d = (d \div Steps) * Steps + (d % Steps)
  BY <1>1, <1>2, Division
<1> DEFINE q == d \div Steps
<1>5. q * Steps <= d /\ d < q * Steps + Steps
  BY <1>1, <1>2, <1>4
<1>6. d \in Int /\ q \in Int
  BY <1>2, <1>4
<1>6a. (-scale) * Steps <= d /\ d <= scale * Steps
  BY <1>3
<1>6b. Scaled(s, scale) = q
  BY DEF Scaled
<1> HIDE DEF d, q
<1>7. (-scale) * Steps < q * Steps + Steps
  BY <1>1, <1>2, <1>5, <1>6, <1>6a
<1>8. -scale <= q
  BY <1>1, <1>2, <1>6, <1>7, QuotientsOrdered
<1>9. q * Steps < scale * Steps + Steps
  BY <1>1, <1>5, <1>6, <1>6a
<1>10. q <= scale
  BY <1>1, <1>6, <1>9, QuotientsOrdered
<1>11. QED BY <1>6, <1>6b, <1>8, <1>10 DEF Magnitude

(***************************************************************************)
(* The seeds                                                               *)
(***************************************************************************)
Genome == [Genes -> Int]

LEMMA GenesFinite ==
    ASSUME NEW a, NEW b
    PROVE  /\ IsFiniteSet(Changed(a, b)) /\ Cardinality(Changed(a, b)) \in Nat
           /\ Cardinality(Changed(a, b)) = 0 <=> Changed(a, b) = {}
<1>1. IsFiniteSet(Genes)
  <2>1. Genes = (({} \cup {"weight"}) \cup {"bias"}) \cup {"sleep"}
    BY DEF Genes
  <2>2. QED BY <2>1, FS_EmptySet, FS_AddElement
<1>2. Changed(a, b) \in SUBSET Genes
  BY DEF Changed
<1>3. IsFiniteSet(Changed(a, b))
  BY <1>1, <1>2, FS_Subset
<1>4. QED BY <1>3, FS_CardinalityType, FS_EmptySet

LEMMA InitialTyped ==
    ASSUME Bounded(dest), NEW s \in Draws
    PROVE  /\ InitialGenome(dest, s) \in Genome
           /\ InitialGenome(dest, s).bias = BoundedGene(dest, 10)
           /\ IsFloat(dest.max_abs_weight) =>
                \A g \in Genes : GeneValid(dest, InitialGenome(dest, s)[g])
<1> DEFINE scale == InitialScale(dest)
           weight == ToFloat(Scaled(s, scale))
<1>1. scale \in Nat /\ scale <= dest.max_abs_weight
  BY DEF InitialScale, Bounded, One
<1>2. Scaled(s, scale) \in Int /\ Magnitude(Scaled(s, scale)) <= dest.max_abs_weight
  BY <1>1, ScaledTyped DEF Bounded, Magnitude
<1>3. weight \in Int
  BY <1>2, FloatTyped
<1>4. IsFloat(dest.max_abs_weight) => GeneValid(dest, weight)
  BY <1>2, RoundedWithin DEF Bounded, GeneValid
<1>5. 3 * One \in Int /\ 10 \in Int
  BY DEF One
<1>6. BoundedGene(dest, 10) \in Int /\ BoundedGene(dest, 3 * One) \in Int
  BY <1>5, GeneTyped
<1>7. IsFloat(dest.max_abs_weight) =>
        GeneValid(dest, BoundedGene(dest, 10)) /\ GeneValid(dest, BoundedGene(dest, 3 * One))
  BY <1>5, GeneWithin
<1> HIDE DEF weight
<1>8. InitialGenome(dest, s) =
        [g \in Genes |-> CASE g = "weight" -> weight
                           [] g = "bias" -> BoundedGene(dest, 10)
                           [] g = "sleep" -> BoundedGene(dest, 3 * One)]
  BY DEF InitialGenome, weight
<1>9. QED BY <1>3, <1>4, <1>6, <1>7, <1>8 DEF Genes, Genome

LEMMA MutatedTyped ==
    ASSUME Bounded(dest), related \in Genome, NEW drawn \in SUBSET Genes,
           NEW shift \in [Genes -> Draws],
           IsFloat(dest.max_abs_weight) => \A g \in Genes : GeneValid(dest, related[g]),
           NEW new, new = MutatedGenes(dest, related, drawn, shift)
    PROVE  /\ new \in Genome
           /\ IsFloat(dest.max_abs_weight) => \A g \in Genes : GeneValid(dest, new[g])
<1> DEFINE moved(g) == related[g] + Scaled(shift[g], dest.mutation_magnitude)
<1>1. \A g \in Genes : moved(g) \in Int
  <2> SUFFICES ASSUME NEW g \in Genes PROVE moved(g) \in Int
    OBVIOUS
  <2>1. shift[g] \in Draws /\ dest.mutation_magnitude \in Nat /\ related[g] \in Int
    BY DEF Bounded, Genome
  <2>2. Scaled(shift[g], dest.mutation_magnitude) \in Int
    BY <2>1, ScaledTyped
  <2>3. QED BY <2>1, <2>2
<1> HIDE DEF moved
<1>2. \A g \in Genes :
        /\ BoundedGene(dest, moved(g)) \in Int
        /\ IsFloat(dest.max_abs_weight) => GeneValid(dest, BoundedGene(dest, moved(g)))
  BY <1>1, GeneTyped, GeneWithin
<1>3. new = [g \in Genes |-> IF g \in drawn THEN BoundedGene(dest, moved(g)) ELSE related[g]]
  BY DEF MutatedGenes, moved
<1>4. QED BY <1>2, <1>3 DEF Genome

LEMMA StepTyped ==
    ASSUME Bounded(dest), NEW old \in Int, NEW step \in RhythmSteps(dest),
           NEW new, new = RhythmStep(dest, old, step)
    PROVE  /\ step \in Int /\ new \in Int
           /\ IsFloat(dest.max_abs_weight) => GeneValid(dest, new)
<1>1. step \in Int
  BY DEF RhythmSteps, Bounded
<1>2. old + step \in Int /\ old - step \in Int
  BY <1>1
<1>3. QED BY <1>1, <1>2, GeneTyped, GeneWithin DEF RhythmStep

\* When the smallest step is a millionth or more, the bias of a rhythm that
\* nothing else has changed moves, whichever direction is drawn.
LEMMA RhythmMoves ==
    ASSUME Bounded(dest), dest.mutation_magnitude >= 20000,
           NEW step \in RhythmSteps(dest)
    PROVE  RhythmStep(dest, BoundedGene(dest, 10), step) # BoundedGene(dest, 10)
<1> DEFINE b == dest.max_abs_weight
           m == dest.mutation_magnitude
<1>1. b \in Nat /\ m \in Nat /\ m <= b /\ m >= 20000
  BY DEF Bounded
<1>2. /\ m \div 20000 >= 1 /\ m \div 20000 <= m - 10
      /\ m \div 10000 >= 1 /\ m \div 10000 <= m - 10
      /\ m \div 20000 \in Nat /\ m \div 10000 \in Nat
  BY <1>1
<1>3. PICK size \in Nat : size >= 1 /\ size <= m - 10 /\ step \in {size, -size}
  BY <1>2 DEF RhythmSteps
<1>4. Fine \in Nat /\ Fine > 10
  BY FloatAssumption
<1> HIDE DEF b, m
<1>5. ToFloat(10) = 10
  BY <1>4, NearestHolds DEF ToFloat
<1>6. ASSUME NEW x \in Int, x # 10, Magnitude(x) <= b
      PROVE  BoundedGene(dest, x) # 10
  <2>1. BoundedGene(dest, x) = ToFloat(x)
    BY <1>1, <1>6, ClampHolds DEF BoundedGene, b
  <2>2. CASE x >= 0
    BY <1>4, <1>6, <2>1, <2>2, NearestHolds DEF ToFloat
  <2>3. CASE x < 0
    <3>1. -x \in Nat
      BY <2>3
    <3>2. Nearest(-x) \in Nat
      BY <3>1, NearestHolds
    <3>3. QED BY <2>1, <2>3, <3>2 DEF ToFloat
  <2>4. QED BY <2>2, <2>3
<1>7. BoundedGene(dest, 10) = 10
  <2>1. Clamp(10, b) = 10
    BY <1>1 DEF Clamp
  <2>2. QED BY <1>5, <2>1 DEF BoundedGene, b
<1>8. 10 + step \in Int /\ 10 + step # 10 /\ Magnitude(10 + step) <= b
  BY <1>1, <1>3 DEF Magnitude
<1>9. BoundedGene(dest, 10 + step) # 10
  BY <1>6, <1>8
<1>10. QED BY <1>7, <1>9 DEF RhythmStep

LEMMA FlippedHolds ==
    ASSUME Bounded(dest), NEW g \in Int
    PROVE  /\ Flipped(dest, g) \in Int /\ Flipped(dest, g) # g
           /\ IsFloat(dest.max_abs_weight) /\ GeneValid(dest, g) =>
                GeneValid(dest, Flipped(dest, g))
<1> DEFINE b == dest.max_abs_weight
           half == (b + 1) \div 2
<1>1. b \in Nat \ {0} /\ half \in Nat /\ half >= 1 /\ half <= b
  BY DEF Bounded
<1>2. CASE g # 0
  BY <1>2 DEF Flipped, GeneValid, Magnitude
<1>3. CASE g = 0
  <2>1. Flipped(dest, g) = ToFloat(half)
    BY <1>3 DEF Flipped
  <2> HIDE DEF half
  <2>2. ToFloat(half) \in Int /\ ToFloat(half) # 0
    BY <1>1, NearestHolds, FloatAssumption DEF ToFloat
  <2>3. IsFloat(b) => Magnitude(ToFloat(half)) <= b
    BY <1>1, RoundedWithin DEF Magnitude
  <2>4. QED BY <1>3, <2>1, <2>2, <2>3 DEF GeneValid
<1>4. QED BY <1>2, <1>3

\* The genes of the second seed, while the phases that make it succeed each
\* other, are counted, and in the end there is a mutation.
SeedInv ==
    /\ base \in Genome /\ related \in Genome /\ mutations \in Nat
    /\ pc \in SeedPhases \ {"shape"} =>
        /\ base.bias = BoundedGene(dest, 10)
        /\ IsFloat(dest.max_abs_weight) => SeedsValid
    /\ pc \in {"rhythm", "flip", "inspect"} => mutations = Cardinality(Changed(base, related))
    /\ pc \in {"flip", "inspect"} /\ dest.mutation_magnitude >= 20000 =>
        Changed(base, related) \cap RhythmGenes # {}
    /\ pc = "inspect" => mutations >= 1

LEMMA SeedPhasesBounded ==
    ASSUME ConfigInv, pc \in SeedPhases
    PROVE  Bounded(dest)
<1>1. Valid(dest) /\ InItsTypes(dest)
  BY DEF ConfigInv, LoadPhases, SeedPhases
<1>2. "max_abs_weight" \in DoubleKeys /\ "mutation_magnitude" \in DoubleKeys
  BY DEF DoubleKeys
<1>3. dest.max_abs_weight \in Int /\ dest.mutation_magnitude \in Int
  BY <1>1, <1>2 DEF InItsTypes
<1>4. QED BY <1>1, <1>3 DEF Valid, HeredityValid, Bounded

LEMMA NothingBorn == NoGenome \in Genome
BY DEF NoGenome, Genome

LEMMA ShapeHolds ==
    ASSUME ConfigInv, SeedInv, Shape
    PROVE  SeedInv'
<1>1. PICK s \in Draws : base' = InitialGenome(dest, s)
  BY DEF Shape
<1>2. pc = "shape" /\ pc' = "mutate" /\ related' = base' /\ dest' = dest /\ mutations' = mutations
  BY DEF Shape, Goto
<1>3. Bounded(dest)
  BY <1>2, SeedPhasesBounded DEF SeedPhases
<1>4. /\ base' \in Genome /\ base'.bias = BoundedGene(dest, 10)
      /\ IsFloat(dest.max_abs_weight) => \A g \in Genes : GeneValid(dest, base'[g])
  BY <1>1, <1>3, InitialTyped
<1>5. QED BY <1>2, <1>4 DEF SeedInv, SeedsValid, SeedPhases

LEMMA MutateGenesHolds ==
    ASSUME ConfigInv, SeedInv, MutateGenes
    PROVE  SeedInv'
<1>1. PICK drawn \in SUBSET Genes, shift \in [Genes -> Draws] :
            related' = MutatedGenes(dest, related, drawn, shift)
  BY DEF MutateGenes
<1>2. /\ pc = "mutate" /\ pc' = "rhythm" /\ base' = base /\ dest' = dest
      /\ mutations' = Cardinality(Changed(base, related'))
  BY DEF MutateGenes, Goto
<1>3. Bounded(dest)
  BY <1>2, SeedPhasesBounded DEF SeedPhases
<1>4. /\ related \in Genome
      /\ IsFloat(dest.max_abs_weight) =>
            /\ \A g \in Genes : GeneValid(dest, base[g])
            /\ \A g \in Genes : GeneValid(dest, related[g])
  BY <1>2 DEF SeedInv, SeedsValid, SeedPhases
<1>5. /\ related' \in Genome
      /\ IsFloat(dest.max_abs_weight) => \A g \in Genes : GeneValid(dest, related'[g])
  BY <1>1, <1>3, <1>4, MutatedTyped
<1>6. mutations' \in Nat
  BY <1>2, GenesFinite
<1>7. base \in Genome /\ base.bias = BoundedGene(dest, 10)
  BY <1>2 DEF SeedInv, SeedPhases
<1>8. QED BY <1>2, <1>4, <1>5, <1>6, <1>7 DEF SeedInv, SeedsValid, SeedPhases

\* One gene more in which two genomes differ.
LEMMA OneMoreChanged ==
    ASSUME NEW a \in Genome, NEW b \in Genome, NEW g \in Genes, g \notin Changed(a, b),
           NEW v \in Int, v # b[g], NEW d \in Genome,
           \A h \in Genes : d[h] = IF h = g THEN v ELSE b[h]
    PROVE  /\ Changed(a, d) = Changed(a, b) \cup {g}
           /\ Cardinality(Changed(a, d)) = Cardinality(Changed(a, b)) + 1
<1>1. b[g] = a[g]
  BY DEF Changed
<1>2. Changed(a, d) = Changed(a, b) \cup {g}
  BY <1>1 DEF Changed
<1>3. Cardinality(Changed(a, d)) = Cardinality(Changed(a, b)) + 1
  BY <1>2, GenesFinite, FS_AddElement
<1>4. QED BY <1>2, <1>3

LEMMA MutateRhythmHolds ==
    ASSUME ConfigInv, SeedInv, MutateRhythm
    PROVE  SeedInv'
<1>1. pc = "rhythm" /\ pc' = "flip" /\ base' = base /\ dest' = dest
  BY DEF MutateRhythm, Goto
<1>2. Bounded(dest)
  BY <1>1, SeedPhasesBounded DEF SeedPhases
<1>3. /\ base \in Genome /\ related \in Genome /\ mutations \in Nat
      /\ base.bias = BoundedGene(dest, 10)
      /\ mutations = Cardinality(Changed(base, related))
      /\ IsFloat(dest.max_abs_weight) => SeedsValid
  BY <1>1 DEF SeedInv, SeedPhases
<1>4. CASE Changed(base, related) \cap RhythmGenes # {}
  <2>1. UNCHANGED <<related, mutations>>
    BY <1>4 DEF MutateRhythm
  <2>2. QED BY <1>1, <1>3, <1>4, <2>1 DEF SeedInv, SeedsValid, SeedPhases
<1>5. CASE Changed(base, related) \cap RhythmGenes = {}
  <2>1. PICK step \in RhythmSteps(dest) :
            /\ related' = [related EXCEPT !.bias = RhythmStep(dest, @, step)]
            /\ mutations' = IF related'.bias = related.bias THEN mutations ELSE mutations + 1
    BY <1>5 DEF MutateRhythm
  <2>2. "bias" \in Genes \ Changed(base, related) /\ "bias" \in RhythmGenes
    BY <1>5 DEF Genes, RhythmGenes
  <2>3. related.bias \in Int /\ related.bias = base.bias
    BY <1>3, <2>2 DEF Genome, Changed
  <2> DEFINE new == RhythmStep(dest, related.bias, step)
  <2>4. /\ new \in Int
        /\ IsFloat(dest.max_abs_weight) => GeneValid(dest, new)
        /\ dest.mutation_magnitude >= 20000 => new # related.bias
    BY <1>2, <1>3, <2>3, StepTyped, RhythmMoves
  <2>5. related' = [related EXCEPT !["bias"] = new]
    BY <2>1
  <2> HIDE DEF new
  <2>6. related' \in Genome /\ \A g \in Genes : related'[g] = IF g = "bias" THEN new ELSE related[g]
    BY <1>3, <2>2, <2>4, <2>5 DEF Genome
  <2>7. IsFloat(dest.max_abs_weight) => SeedsValid'
    BY <1>1, <1>3, <2>4, <2>6 DEF SeedsValid
  <2>8. CASE new = related.bias
    <3>1. related' = related /\ mutations' = mutations
      BY <1>3, <2>1, <2>2, <2>5, <2>6, <2>8 DEF Genome
    <3>2. QED BY <1>1, <1>3, <2>4, <2>7, <2>8, <3>1 DEF SeedInv, SeedPhases
  <2>9. CASE new # related.bias
    <3>1. /\ Changed(base, related') = Changed(base, related) \cup {"bias"}
          /\ Cardinality(Changed(base, related')) = Cardinality(Changed(base, related)) + 1
      BY <1>3, <2>2, <2>4, <2>6, <2>9, OneMoreChanged
    <3>2. mutations' = mutations + 1
      BY <2>1, <2>2, <2>6, <2>9
    <3>3. Changed(base, related') \cap RhythmGenes # {}
      BY <2>2, <3>1
    <3>4. QED BY <1>1, <1>3, <2>6, <2>7, <3>1, <3>2, <3>3 DEF SeedInv, SeedPhases
  <2>10. QED BY <2>8, <2>9
<1>6. QED BY <1>4, <1>5

LEMMA FlipHolds ==
    ASSUME ConfigInv, SeedInv, Flip
    PROVE  SeedInv'
<1>1. pc = "flip" /\ pc' = "inspect" /\ base' = base /\ dest' = dest
  BY DEF Flip, Goto
<1>2. Bounded(dest)
  BY <1>1, SeedPhasesBounded DEF SeedPhases
<1>3. /\ base \in Genome /\ related \in Genome /\ mutations \in Nat
      /\ base.bias = BoundedGene(dest, 10)
      /\ mutations = Cardinality(Changed(base, related))
      /\ IsFloat(dest.max_abs_weight) => SeedsValid
      /\ dest.mutation_magnitude >= 20000 => Changed(base, related) \cap RhythmGenes # {}
  BY <1>1 DEF SeedInv, SeedPhases
<1>4. CASE mutations # 0
  <2>1. UNCHANGED <<related, mutations>>
    BY <1>4 DEF Flip
  <2>2. QED BY <1>1, <1>3, <1>4, <2>1 DEF SeedInv, SeedsValid, SeedPhases
<1>5. CASE mutations = 0
  <2>1. PICK g \in Genes : related' = [related EXCEPT ![g] = Flipped(dest, @)]
    BY <1>5 DEF Flip
  <2>2. mutations' = 1
    BY <1>5 DEF Flip
  <2>3. Changed(base, related) = {}
    <3>1. Cardinality(Changed(base, related)) = 0
      BY <1>3, <1>5
    <3>2. QED BY <3>1, GenesFinite
  <2> DEFINE new == Flipped(dest, related[g])
  <2>4. /\ new \in Int /\ new # related[g]
        /\ IsFloat(dest.max_abs_weight) => GeneValid(dest, new)
    BY <1>2, <1>3, FlippedHolds DEF Genome, SeedsValid
  <2>5. related' = [related EXCEPT ![g] = new]
    BY <2>1
  <2> HIDE DEF new
  <2>6. /\ related' \in Genome
        /\ \A h \in Genes : related'[h] = IF h = g THEN new ELSE related[h]
    BY <1>3, <2>4, <2>5 DEF Genome
  <2>7. Cardinality(Changed(base, related')) = 1
    <3>1. g \notin Changed(base, related)
      BY <2>3
    <3>2. base \in Genome /\ related \in Genome /\ new \in Int /\ new # related[g]
      BY <1>3, <2>4
    <3>3. Cardinality(Changed(base, related')) = Cardinality(Changed(base, related)) + 1
      BY <2>6, <3>1, <3>2, OneMoreChanged
    <3>4. Cardinality(Changed(base, related)) = 0
      BY <1>3, <1>5
    <3>5. QED BY <3>3, <3>4
  <2>8. IsFloat(dest.max_abs_weight) => SeedsValid'
    BY <1>1, <1>3, <2>4, <2>6 DEF SeedsValid
  <2>9. QED BY <1>1, <1>3, <2>2, <2>3, <2>6, <2>7, <2>8 DEF SeedInv, SeedPhases
<1>6. QED BY <1>4, <1>5

LEMMA SeedInvHolds == Spec => []SeedInv
<1>1. Init => SeedInv
  BY NothingBorn DEF Init, LoaderInit, SeedInv, SeedPhases
<1>2. ASSUME ConfigInv, SeedInv, [Next]_vars
      PROVE  SeedInv'
  <2>1. ASSUME UNCHANGED seeds, pc' \notin SeedPhases \ {"shape"} PROVE SeedInv'
    BY <1>2, <2>1 DEF SeedInv, seeds, SeedPhases
  <2>2. ASSUME base' = NoGenome, related' = NoGenome, mutations' = 0,
               pc' \notin SeedPhases
        PROVE  SeedInv'
    BY <2>2, NothingBorn DEF SeedInv, SeedPhases
  <2>3. CASE Loading
    <3>1. UNCHANGED seeds
      BY <2>3 DEF Loading
    <3>2. pc' \in LoaderPhases
      BY <2>3 DEF Loading, Load, Open, Returned, SkipLine, Assign, RefuseLine, ReadLine,
         EndOfFile, ReadFails, Accept, Reject, Return, LoaderPhases
    <3>3. QED BY <2>1, <3>1, <3>2 DEF LoaderPhases, SeedPhases
  <2>4. CASE SetupSteps
    BY <2>1, <2>4 DEF SetupSteps, Command, OpenCheckpoint, SetUp, SetUpFails, OpenLog,
       OpenLogFails, Goto, AfterLog, SeedPhases
  <2>5. CASE AllocateSeeds
    BY <2>1, <2>5 DEF AllocateSeeds, Goto, SeedPhases
  <2>6. CASE Shape \/ MutateGenes \/ MutateRhythm \/ Flip
    BY <1>2, <2>6, ShapeHolds, MutateGenesHolds, MutateRhythmHolds, FlipHolds
  <2>7. CASE Inspect \/ AppendSeed
    <3>1. UNCHANGED <<seeds, dest>> /\ pc \in {"inspect", "append"} /\ pc' = "append"
      BY <2>7 DEF Inspect, AppendSeed, Goto
    <3>2. QED BY <1>2, <3>1 DEF SeedInv, seeds, SeedsValid, SeedPhases
  <2>8. CASE SeedsFail \/ SeedsDone \/ Abandon \/ Destroy
    BY <2>2, <2>8 DEF SeedsFail, SeedsDone, Abandon, Destroy, Dismantle, Goto, SeedPhases
  <2>9. CASE RestoreArrays \/ RestoreRows \/ Birth \/ Remove
    BY <2>1, <2>9 DEF RestoreArrays, RestoreRows, Birth, Remove, Goto, SeedPhases
  <2>10. CASE UNCHANGED vars
    BY <1>2, <2>10 DEF vars, loader, seeds, SeedInv, SeedsValid
  <2>11. QED
    BY <1>2, <2>3, <2>4, <2>5, <2>6, <2>7, <2>8, <2>9, <2>10
       DEF Next, SeedSteps, RowSteps, Ended
<1>3. QED BY <1>1, <1>2, ConfigInvHolds, PTL DEF Spec

\* The two seeds differ, as the world says they do, in the rhythm too, and
\* where the bound is a float both are valid and so is every child of theirs
\* (seed_population, mutate_related_rhythm_gene, complete_birth).
THEOREM SeedsStaySound == Spec => []SeedsSound
<1>1. ConfigInv /\ SeedInv => SeedsSound
  <2> SUFFICES ASSUME ConfigInv, SeedInv, pc = "inspect"
               PROVE  /\ mutations = Cardinality(Changed(base, related)) /\ mutations >= 1
                      /\ dest.mutation_magnitude >= 20000 =>
                            Changed(base, related) \cap RhythmGenes # {}
                      /\ IsFloat(dest.max_abs_weight) => SeedsValid /\ ChildrenValid
    BY DEF SeedsSound
  <2>1. Bounded(dest)
    BY SeedPhasesBounded DEF SeedPhases
  <2>2. ASSUME IsFloat(dest.max_abs_weight) PROVE ChildrenValid
    <3> SUFFICES ASSUME NEW g \in Genes, NEW choice \in {0, 2, 3}, NEW s \in Draws
                 PROVE  GeneValid(dest, ChildGene(dest, base[g], related[g], choice,
                                                  Scaled(s, dest.mutation_magnitude)))
      BY DEF ChildrenValid
    <3>1. base[g] \in Int /\ related[g] \in Int
      BY DEF SeedInv, Genome
    <3>2. Inherited(base[g], related[g], choice) \in Int
      BY <3>1 DEF Inherited
    <3>3. Scaled(s, dest.mutation_magnitude) \in Int
      BY <2>1, ScaledTyped DEF Bounded
    <3>4. QED BY <2>1, <2>2, <3>2, <3>3, GeneWithin DEF ChildGene
  <2>3. QED BY <2>2 DEF SeedInv, SeedPhases
<1>2. QED BY <1>1, ConfigInvHolds, SeedInvHolds, PTL

(***************************************************************************)
(* Words of 64 bits                                                        *)
(***************************************************************************)
LEMMA Widths == U32Max \in Nat /\ U32Max >= 16383 /\ U64Max \in Nat /\ U64Max = U32Max * (U32Max + 2)
BY WidthAssumption

LEMMA WordFits ==
    ASSUME NEW n \in 0..U64Max
    PROVE  Word(n) = n
<1>1. U64Max + 1 \in Nat \ {0} /\ n \in Nat /\ n < U64Max + 1
  BY Widths
<1>2. QED BY <1>1 DEF Word

LEMMA DivisionUnique ==
    ASSUME NEW n \in Nat \ {0}, NEW q \in Int, NEW r \in 0..(n - 1), NEW m \in Int, m = q * n + r
    PROVE  m \div n = q /\ m % n = r
<1> DEFINE p == m \div n
           s == m % n
<1>1. p \in Int /\ s \in 0..(n - 1) /\ m = p * n + s
  BY Division
<1> HIDE DEF p, s
<1>2. p * n \in Int /\ q * n \in Int
  BY <1>1
<1>3. p * n < q * n + n /\ q * n < p * n + n
  BY <1>1, <1>2
<1>4. p <= q /\ q <= p
  BY <1>1, <1>3, QuotientsOrdered
<1>5. p = q
  BY <1>1, <1>4
<1>6. s = r
  BY <1>1, <1>2, <1>5
<1>7. QED BY <1>5, <1>6 DEF p, s

LEMMA QuotientOf ==
    ASSUME NEW n \in Nat \ {0}, NEW q \in Int, NEW r \in 0..(n - 1)
    PROVE  (q * n + r) \div n = q
<1> DEFINE m == q * n + r
<1>1. m \in Int /\ m = q * n + r
  OBVIOUS
<1> HIDE DEF m
<1>2. m \div n = q
  BY <1>1, DivisionUnique
<1>3. QED BY <1>2 DEF m

\* The words that alife_rng_bounded accepts fall into the classes of the
\* remainder in equal numbers, whatever the bound: no result is likelier.
THEOREM RejectionIsUniform ==
    ASSUME NEW n \in 1..U64Max
    PROVE  Threshold(n) \in 0..(n - 1) /\ (U64Max + 1 - Threshold(n)) % n = 0
<1> DEFINE m == U64Max + 1 - n
           q == m \div n
           t == m % n
<1>1. n \in Nat \ {0} /\ m \in 0..U64Max /\ m \in Int
  BY Widths
<1>2. q \in Int /\ t \in 0..(n - 1) /\ m = q * n + t
  BY <1>1, Division
<1>3. Threshold(n) = t
  BY <1>1, WordFits DEF Threshold
<1> HIDE DEF q, t
<1>4. U64Max + 1 - t = (q + 1) * n + 0
  BY <1>1, <1>2, Widths
<1>5. q + 1 \in Int /\ 0 \in 0..(n - 1) /\ U64Max + 1 - t \in Int
  BY <1>1, <1>2, Widths
<1>6. (U64Max + 1 - t) % n = 0
  BY <1>1, <1>4, <1>5, DivisionUnique
<1>7. QED BY <1>2, <1>3, <1>6

(***************************************************************************)
(* Off durations                                                           *)
(***************************************************************************)
OffLimits(c) ==
    /\ c.off_min_duration_ticks \in 0..U64Max /\ c.off_max_duration_ticks \in 0..U64Max
    /\ c.off_min_duration_ticks <= c.off_max_duration_ticks

\* Nothing wraps: what is computed is the rounded share of the span.
LEMMA MappedExactly ==
    ASSUME NEW c, OffLimits(c), NEW s \in 0..U32Max
    PROVE  LET q == Span(c) \div U32Max
               r == Span(c) % U32Max
               share == (r * s + U32Max \div 2) \div U32Max
           IN /\ q \in Nat /\ r \in 0..(U32Max - 1) /\ Span(c) = q * U32Max + r
              /\ share \in Nat /\ share <= r
              /\ Mapped(c, s) = q * s + share
              /\ Mapped(c, s) <= Span(c)
<1> DEFINE U == U32Max
           h == U \div 2
           q == Span(c) \div U
           r == Span(c) % U
           p == r * s + h
           share == p \div U
<1>1. U \in Nat \ {0} /\ s \in Nat /\ s <= U /\ U64Max \in Nat /\ U64Max = U * (U + 2)
  BY Widths
<1>2. Span(c) \in 0..U64Max
  BY <1>1 DEF Span, OffLimits
<1>3. q \in Nat /\ r \in 0..(U - 1) /\ Span(c) = q * U + r
  <2>1. U \in Nat \ {0} /\ Span(c) \in Int /\ Span(c) \in Nat
    BY <1>1, <1>2
  <2>2. QED BY <2>1, Division, Zenon
<1>4. h \in Nat /\ h <= U - 1
  BY Widths
<1>5. r * s \in Nat /\ r * s <= r * U
  <2> HIDE DEF r, h, U
  <2>1. r * (U - s) >= 0
    BY <1>1, <1>3
  <2>2. QED BY <1>1, <1>3, <2>1
<1>6. p \in Nat /\ p <= r * U + (U - 1)
  <2> HIDE DEF r, h, U
  <2>1. r * U \in Int
    BY <1>1, <1>3
  <2>2. QED BY <1>1, <1>4, <1>5, <2>1
<1>7. p <= U64Max
  <2> HIDE DEF p, r, h, U
  <2>1. (U - 1 - r) * U >= 0
    BY <1>1, <1>3
  <2>2. r * U <= (U - 1) * U
    BY <1>1, <1>3, <2>1
  <2>3. (U - 1) * U + (U - 1) <= U * (U + 2)
    BY <1>1
  <2>4. r * U \in Int /\ (U - 1) * U \in Int /\ U * (U + 2) \in Int
    BY <1>1, <1>3
  <2>5. QED BY <1>1, <1>6, <2>2, <2>3, <2>4
<1>8. share \in Nat /\ share <= r
  <2>1. share \in Nat /\ p % U \in 0..(U - 1) /\ p = share * U + (p % U)
    <3> HIDE DEF p
    <3>1. U \in Nat \ {0} /\ p \in Int /\ p \in Nat
      BY <1>1, <1>6
    <3>2. QED BY <3>1, Division, Zenon
  <2> HIDE DEF p, r, h, U, share
  <2>2. share * U \in Int /\ r * U \in Int
    BY <1>1, <1>3, <2>1
  <2>3. share * U < r * U + U
    BY <1>1, <1>6, <2>1, <2>2
  <2>4. QED BY <1>1, <1>3, <2>1, <2>3, QuotientsOrdered
<1>9. q * s \in Nat /\ q * s + share <= Span(c)
  <2> HIDE DEF p, q, r, h, U, share
  <2>1. q * s \in Nat /\ q * U \in Int
    BY <1>1, <1>3
  <2>2. q * (U - s) >= 0
    BY <1>1, <1>3
  <2>3. q * s <= q * U
    BY <1>1, <1>3, <2>2
  <2>4. QED BY <1>3, <1>8, <2>1, <2>3
<1>10. Mapped(c, s) = q * s + share
  <2>1. Mapped(c, s) = Word(Word(q * s) + Word(p) \div U)
    BY DEF Mapped
  <2> HIDE DEF p, q, r, h, share
  <2>2. Word(p) = p
    BY <1>6, <1>7, WordFits
  <2>3. q * s <= Span(c)
    BY <1>2, <1>8, <1>9
  <2>4. Word(q * s) = q * s
    BY <1>1, <1>2, <1>9, <2>3, WordFits
  <2>5. Word(q * s + share) = q * s + share
    BY <1>1, <1>2, <1>8, <1>9, WordFits
  <2>6. QED BY <2>1, <2>2, <2>4, <2>5 DEF share
<1>11. QED BY <1>3, <1>8, <1>9, <1>10

\* The duration is between the limits, reaches both and never falls as the
\* output grows, for every output and every limits that are in order
\* (off_duration_from_output).
THEOREM OffDurationFaithful ==
    ASSUME NEW c, OffLimits(c)
    PROVE  /\ \A s \in 0..U32Max :
                OffDurationFrom(c, s) \in c.off_min_duration_ticks..c.off_max_duration_ticks
           /\ OffDurationFrom(c, 0) = c.off_min_duration_ticks
           /\ OffDurationFrom(c, U32Max) = c.off_max_duration_ticks
           /\ \A i, j \in 0..U32Max : i <= j => OffDurationFrom(c, i) <= OffDurationFrom(c, j)
<1> DEFINE U == U32Max
           h == U \div 2
           q == Span(c) \div U
           r == Span(c) % U
           share(s) == (r * s + h) \div U
           low == c.off_min_duration_ticks
           high == c.off_max_duration_ticks
<1>1. U \in Nat \ {0} /\ low \in 0..U64Max /\ high \in 0..U64Max /\ low <= high
      /\ Span(c) = high - low /\ U64Max \in Nat
  BY Widths DEF OffLimits, Span
<1>2. q \in Nat /\ r \in Nat /\ Span(c) = q * U + r
  BY <1>1, MappedExactly
<1>3. h \in Nat /\ h <= U - 1
  BY Widths
<1>4. ASSUME NEW s \in 0..U
      PROVE  /\ share(s) \in Nat /\ q * s \in Nat
             /\ OffDurationFrom(c, s) = low + (q * s + share(s))
             /\ OffDurationFrom(c, s) \in low..high
  <2>1. /\ share(s) \in Nat /\ Mapped(c, s) = q * s + share(s)
        /\ Mapped(c, s) <= Span(c)
    BY MappedExactly
  <2> HIDE DEF share, q, r, h
  <2>2. q * s \in Nat
    BY <1>1, <1>2
  <2>3. Mapped(c, s) \in Nat
    BY <2>1, <2>2
  <2>4. OffDurationFrom(c, s) = Word(low + Mapped(c, s))
    BY <1>1, <2>1, <2>3 DEF OffDurationFrom
  <2>5. low + Mapped(c, s) \in 0..U64Max
    BY <1>1, <2>1, <2>3
  <2>6. OffDurationFrom(c, s) = low + Mapped(c, s)
    BY <2>4, <2>5, WordFits
  <2>7. QED BY <1>1, <2>1, <2>2, <2>3, <2>6
<1>5. share(0) = 0 /\ q * 0 = 0
  <2> HIDE DEF q, r, h, U
  <2>1. (0 * U + h) \div U = 0
    BY <1>1, <1>3, QuotientOf
  <2>2. r * 0 + h = 0 * U + h /\ q * 0 = 0
    BY <1>1, <1>2, <1>3
  <2>3. QED BY <2>1, <2>2
<1>6. share(U) = r
  <2> HIDE DEF q, r, h, U
  <2>1. r \in Int /\ h \in 0..(U - 1)
    BY <1>1, <1>2, <1>3
  <2>2. QED BY <1>1, <2>1, QuotientOf
<1>7. ASSUME NEW i \in 0..U, NEW j \in 0..U, i <= j
      PROVE  q * i <= q * j /\ share(i) <= share(j)
  <2> HIDE DEF q, r, h, U
  <2>1. q * (j - i) >= 0 /\ r * (j - i) >= 0
    BY <1>1, <1>2, <1>7
  <2>2. q * i <= q * j /\ r * i <= r * j
    BY <1>1, <1>2, <1>7, <2>1
  <2>3. r * i + h \in Int /\ r * j + h \in Int /\ r * i + h <= r * j + h
    BY <1>1, <1>2, <1>3, <2>2
  <2>4. QED BY <1>1, <2>2, <2>3, DivisionMonotone
<1> HIDE DEF share, q, r, h
<1>8. \A s \in 0..U : OffDurationFrom(c, s) \in low..high
  BY <1>4
<1>9. OffDurationFrom(c, 0) = low
  BY <1>1, <1>4, <1>5
<1>10. OffDurationFrom(c, U) = high
  <2>1. OffDurationFrom(c, U) = low + (q * U + r)
    BY <1>1, <1>4, <1>6
  <2>2. QED BY <1>1, <1>2, <2>1
<1>11. ASSUME NEW i \in 0..U, NEW j \in 0..U, i <= j
       PROVE  OffDurationFrom(c, i) <= OffDurationFrom(c, j)
  <2>1. q * i <= q * j /\ share(i) <= share(j)
    BY <1>7, <1>11
  <2>2. QED BY <1>1, <1>4, <2>1
<1>12. QED BY <1>8, <1>9, <1>10, <1>11

(***************************************************************************)
(* What a valid configuration is good for                                  *)
(***************************************************************************)
LEMMA ValidTyped ==
    ASSUME NEW c, InItsTypes(c)
    PROVE  /\ \A k \in {"input_size", "hidden_size", "communication_size"} : c[k] \in Nat
           /\ \A k \in {"maturity_age", "reproduction_ramp_ticks", "max_without_awake_days",
                        "off_min_duration_ticks", "off_max_duration_ticks",
                        "ticks_per_day", "tick_count"} : c[k] \in 0..U64Max
BY Widths DEF InItsTypes, U32Keys, U64Keys

LEMMA WordsSuffice ==
    ASSUME NEW c, InItsTypes(c), Valid(c)
    PROVE  FitsItsWords(c)
<1>1. /\ c.maturity_age \in 0..U64Max /\ c.reproduction_ramp_ticks \in 0..U64Max
      /\ c.max_without_awake_days \in 0..U64Max /\ c.ticks_per_day \in 0..U64Max
      /\ c.tick_count \in 0..U64Max /\ c.off_max_duration_ticks \in 0..U64Max
  BY ValidTyped
<1>2. c.maturity_age + c.reproduction_ramp_ticks + 1 <= U64Max
  BY <1>1, Widths DEF Valid, RampValid
<1>3. c.tick_count + c.off_max_duration_ticks <= U64Max
  BY <1>1, Widths DEF Valid, TimesValid
<1>4. c.max_without_awake_days * c.ticks_per_day <= U64Max
  <2> DEFINE t == c.ticks_per_day
             d == c.max_without_awake_days
             q == U64Max \div t
  <2>1. t \in Nat \ {0} /\ d \in Nat /\ d <= q /\ U64Max \in Nat
    BY <1>1, Widths DEF Valid, TimesValid, AgesValid
  <2>2. q \in Int /\ U64Max % t \in 0..(t - 1) /\ U64Max = q * t + (U64Max % t)
    <3> HIDE DEF t
    <3>1. QED BY <2>1, Division
  <2> HIDE DEF t, d, q
  <2>3. q * t <= U64Max
    BY <2>1, <2>2
  <2>4. (q - d) * t >= 0
    BY <2>1, <2>2
  <2>5. d * t <= U64Max
    BY <2>1, <2>2, <2>3, <2>4
  <2>6. QED BY <2>5 DEF d, t
<1>5. QED BY <1>2, <1>3, <1>4 DEF FitsItsWords

LEMMA EightApart ==
    ASSUME NEW p1 \in Int, NEW p2 \in Int, NEW p3 \in Int, NEW p4 \in Int,
           NEW p5 \in Int, NEW p6 \in Int, NEW p7 \in Int, NEW p8 \in Int,
           p1 < p2, p2 < p3, p3 < p4, p4 < p5, p5 < p6, p6 < p7, p7 < p8,
           NEW S, \A x : x \in S <=> x \in {p1, p2, p3, p4, p5, p6, p7, p8}
    PROVE  Cardinality(S) = 8
<1>1. IsFiniteSet({p1}) /\ Cardinality({p1}) = 1
  BY FS_Singleton
<1>2. IsFiniteSet({p1} \cup {p2}) /\ Cardinality({p1} \cup {p2}) = 2
  BY <1>1, FS_AddElement
<1>3. /\ IsFiniteSet({p1} \cup {p2} \cup {p3})
      /\ Cardinality({p1} \cup {p2} \cup {p3}) = 3
  BY <1>2, FS_AddElement
<1>4. /\ IsFiniteSet({p1} \cup {p2} \cup {p3} \cup {p4})
      /\ Cardinality({p1} \cup {p2} \cup {p3} \cup {p4}) = 4
  BY <1>3, FS_AddElement
<1>5. /\ IsFiniteSet({p1} \cup {p2} \cup {p3} \cup {p4} \cup {p5})
      /\ Cardinality({p1} \cup {p2} \cup {p3} \cup {p4} \cup {p5}) = 5
  BY <1>4, FS_AddElement
<1>6. /\ IsFiniteSet({p1} \cup {p2} \cup {p3} \cup {p4} \cup {p5} \cup {p6})
      /\ Cardinality({p1} \cup {p2} \cup {p3} \cup {p4} \cup {p5} \cup {p6}) = 6
  BY <1>5, FS_AddElement
<1>7. /\ IsFiniteSet({p1} \cup {p2} \cup {p3} \cup {p4} \cup {p5} \cup {p6} \cup {p7})
      /\ Cardinality({p1} \cup {p2} \cup {p3} \cup {p4} \cup {p5} \cup {p6} \cup {p7}) = 7
  BY <1>6, FS_AddElement
<1>8. Cardinality({p1} \cup {p2} \cup {p3} \cup {p4} \cup {p5} \cup {p6} \cup {p7} \cup {p8}) = 8
  BY <1>7, FS_AddElement
<1>9. S =
        {p1} \cup {p2} \cup {p3} \cup {p4} \cup {p5} \cup {p6} \cup {p7} \cup {p8}
  OBVIOUS
<1>10. QED BY <1>8, <1>9

\* The regions of the slot that carry the rhythm follow one another.
LEMMA LayoutFits ==
    ASSUME NEW c, InItsTypes(c), Valid(c)
    PROVE  LayoutServes(c)
<1> DEFINE h == c.hidden_size
           k == c.communication_size
           n == c.input_size
           outs == k + 7
           ins == n + k + 4
<1>1. h \in 4..64 /\ k \in 1..8 /\ n \in 6..32 /\ ParameterCount(c) \in 500..2000
  BY ValidTyped DEF Valid, SizesValid
<1>2. Inputs(c) = ins /\ Outputs(c) = outs /\ ins \in Nat /\ outs \in Nat /\ h \in Nat
  BY <1>1 DEF Inputs, Outputs
<1> HIDE DEF h, k, n
<1> DEFINE hi == h * ins
           hh == h * h
           oh == outs * h
<1>3. hi \in Nat /\ hh \in Nat /\ oh \in Nat /\ hh >= 4 * h
  <2>1. (h - 4) * h >= 0
    BY <1>1
  <2>2. QED BY <1>1, <1>2, <2>1
<1>4. (k + 2) * h + h <= oh /\ (k + 2) * h \in Nat /\ (k + 3) * h = (k + 2) * h + h
  BY <1>1
<1>5. ParameterCount(c) = hi + hh + h + oh + outs + 2 * h
  BY DEF ParameterCount, h, k, n
<1> HIDE DEF hi, hh, oh, ins, outs
<1>6. /\ RecurrentWeights(c) = hi /\ HiddenBiases(c) = hi + hh
      /\ OutputWeights(c) = hi + hh + h
      /\ GenomeCount(c) = hi + hh + h + oh + outs + h + h
  BY <1>2 DEF RecurrentWeights, HiddenBiases, OutputWeights, OutputBiases, PlasticRates,
     GenomeCount, hi, hh, oh, h
<1>7. SleepWeight(c) = hi + hh + h + (k + 2) * h /\ WakeWeight(c) = SleepWeight(c) + h
  BY <1>1, <1>2, <1>3, <1>4, <1>6 DEF SleepWeight, WakeWeight, h, k
<1>8. GenomeCount(c) = ParameterCount(c)
  BY <1>2, <1>3, <1>5, <1>6
<1>9. LayoutAccepts(c)
  BY <1>1, <1>2, <1>8 DEF LayoutAccepts, h, k, n, ins
<1> DEFINE s == SleepWeight(c)
<1>10. RhythmPositions(c) =
         {hi, hi + 1, hi + h, hi + h + 1, hi + hh, hi + hh + 1, s, s + h}
  BY <1>6, <1>7 DEF RhythmPositions, h
<1>11. s \in Nat /\ s > hi + hh + 1 /\ s + h < GenomeCount(c)
  BY <1>1, <1>2, <1>3, <1>4, <1>6, <1>7 DEF outs
<1> HIDE DEF s
<1>12. h >= 4 /\ hh > h + 1
  BY <1>1, <1>3
<1>13. Cardinality(RhythmPositions(c)) = 8
  <2> DEFINE p2 == hi + 1
             p3 == hi + h
             p4 == hi + h + 1
             p5 == hi + hh
             p6 == hi + hh + 1
             p8 == s + h
  <2>1. /\ hi \in Int /\ p2 \in Int /\ p3 \in Int /\ p4 \in Int
        /\ p5 \in Int /\ p6 \in Int /\ s \in Int /\ p8 \in Int
        /\ hi < p2 /\ p2 < p3 /\ p3 < p4 /\ p4 < p5 /\ p5 < p6 /\ p6 < s /\ s < p8
    BY <1>2, <1>3, <1>11, <1>12
  <2>2. \A x : x \in RhythmPositions(c) <=> x \in {hi, p2, p3, p4, p5, p6, s, p8}
    BY <1>10
  <2> HIDE DEF p2, p3, p4, p5, p6, p8
  <2>3. QED BY <2>1, <2>2, EightApart
<1>14. RhythmPositions(c) \subseteq 0..(GenomeCount(c) - 1)
  <2>1. GenomeCount(c) \in Nat
    BY <1>2, <1>3, <1>6
  <2>2. QED BY <1>2, <1>3, <1>10, <1>11, <1>12, <2>1
<1>15. QED BY <1>8, <1>9, <1>13, <1>14 DEF LayoutServes

\* Every configuration that alife_config_validate lets through is usable: its
\* sums fit, the layout is accepted and is that of its genes, off durations work.
THEOREM ValidStaysUsable == Spec => []ValidIsUsable
<1>1. ConfigInv => ValidIsUsable
  <2> SUFFICES ASSUME ConfigInv, pc = "loaded"
               PROVE  FitsItsWords(dest) /\ LayoutServes(dest) /\ OffDurationServes(dest)
    BY DEF ValidIsUsable
  <2>1. InItsTypes(dest) /\ Valid(dest)
    BY DEF ConfigInv, LoadPhases
  <2>2. OffLimits(dest)
    BY <2>1, ValidTyped DEF OffLimits, Valid, TimesValid
  <2>3. OffSamples \subseteq 0..U32Max
    BY Widths DEF OffSamples
  <2>4. OffDurationServes(dest)
    BY <2>2, <2>3, OffDurationFaithful DEF OffDurationServes
  <2>5. QED BY <2>1, <2>4, WordsSuffice, LayoutFits
<1>2. QED BY <1>1, ConfigInvHolds, PTL

\* Every variable of the start keeps its type.
THEOREM StartTypeCorrect == Spec => []TypeOK
<1>1. ConfigInv /\ MemoryInv /\ RowsInv /\ SeedInv => TypeOK
  <2> SUFFICES ASSUME ConfigInv, MemoryInv, RowsInv, SeedInv PROVE TypeOK
    OBVIOUS
  <2>1. heap \subseteq Blocks /\ ptr \in [Pointers -> Blocks \cup {Null}] /\ rows \in Nat
    BY DEF MemoryInv, HeapSound, Held, ArraysMatch
  <2>2. base \in [Genes -> Int] /\ related \in [Genes -> Int] /\ mutations \in Nat
    BY DEF SeedInv, Genome
  <2>3. QED BY <2>1, <2>2, Zenon DEF TypeOK, ConfigInv, RowsInv
<1>2. QED BY <1>1, ConfigInvHolds, MemoryInvHolds, SeedInvHolds, PTL

=============================================================================
