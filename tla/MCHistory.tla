----------------------------- MODULE MCHistory ------------------------------
(***************************************************************************)
(* Instances of SubstrateHistory for TLC.                                  *)
(***************************************************************************)
EXTENDS MCSubstrate, SubstrateHistory

\* docs/architecture.md:263-264: "Remaining asleep or off longer than
\* max_without_awake_days causes dormancy_timeout."  An organism that falls
\* asleep in a tick is timed from the tick before it, since last_awake_tick
\* is kept by the accounting.
DormancyNotEarly ==
    [][(pc = "dormancy") =>
        \A o \in Living : ~Lives(o)' => tick - ranAwake[o] > DormancyLimit]_vars

=============================================================================
