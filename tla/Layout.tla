------------------------------- MODULE Layout -------------------------------
(***************************************************************************)
(* The neural-state slot of an organism (src/src/simulation.c): where      *)
(* alife_layout_create puts each region, and which genes of it carry the   *)
(* sleep rhythm.  Positions count floats from the start of a slot.         *)
(***************************************************************************)
EXTENDS Config, FiniteSets

Inputs(c) == c.input_size + c.communication_size + 1 + 3
Outputs(c) == c.communication_size + 7

\* The cursor as it passes the regions of the genome: input weights, recurrent
\* weights, hidden biases, output weights, output biases, plastic rates and
\* plastic decays; ...
RecurrentWeights(c) == c.hidden_size * Inputs(c)
HiddenBiases(c) == RecurrentWeights(c) + c.hidden_size * c.hidden_size
OutputWeights(c) == HiddenBiases(c) + c.hidden_size
OutputBiases(c) == OutputWeights(c) + Outputs(c) * c.hidden_size
PlasticRates(c) == OutputBiases(c) + Outputs(c)
GenomeCount(c) == PlasticRates(c) + c.hidden_size + c.hidden_size

\* ... then the plastic state, the hidden state, the inbox and the outbox.
SlotFloats(c) ==
    GenomeCount(c) + c.hidden_size * c.hidden_size + c.hidden_size
    + c.communication_size + c.communication_size

\* alife_layout_create
LayoutAccepts(c) ==
    /\ c.hidden_size <= 64 /\ Inputs(c) <= 44 /\ c.communication_size <= 8
    /\ GenomeCount(c) \in 500..2000

\* The regions of the genome that is_sleep_rhythm_gene looks into, with the
\* position it computes; x and y are the hidden neurons 0 and 1.
SleepWeight(c) == OutputWeights(c) + (c.communication_size + 2) * c.hidden_size
WakeWeight(c) == OutputWeights(c) + (c.communication_size + 3) * c.hidden_size

RhythmPositions(c) ==
    {RecurrentWeights(c), RecurrentWeights(c) + 1,
     RecurrentWeights(c) + c.hidden_size, RecurrentWeights(c) + c.hidden_size + 1,
     HiddenBiases(c), HiddenBiases(c) + 1, SleepWeight(c), WakeWeight(c)}

=============================================================================
