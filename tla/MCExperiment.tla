---------------------------- MODULE MCExperiment ----------------------------
(***************************************************************************)
(* Instances of Experiment for TLC: two configurations that differ in what *)
(* the fingerprint has to tell apart, and a population with births and     *)
(* deaths before, between and after the checkpoints.                       *)
(***************************************************************************)
EXTENDS Experiment

MCRules == {"settled", "restless"}

MCConfigs ==
    {[rules |-> "settled", ticks |-> 5, interval |-> 3, summary |-> 2, path |-> "P"],
     [rules |-> "restless", ticks |-> 4, interval |-> 2, summary |-> 3, path |-> "Q"]}

OneConfig ==
    {[rules |-> "settled", ticks |-> 4, interval |-> 2, summary |-> 3, path |-> "P"]}

Nobody == [n \in 0..LastTick |-> {}]

MCBorn == [r \in MCRules |-> [n \in 0..LastTick |->
    IF n \in (IF r = "settled" THEN {1, 3} ELSE {0, 3}) THEN 1 ELSE 0]]

MCDies == [r \in MCRules |->
    IF r = "settled" THEN [Nobody EXCEPT ![1] = {1}, ![3] = {2}]
                     ELSE [Nobody EXCEPT ![0] = {2}, ![2] = {3}]]

MCCourse[r \in MCRules] ==
    LET World[t \in 0..LastTick] == IF t = 0 THEN Seeds(r) ELSE Evolve(World[t - 1])
    IN  World

=============================================================================
