----------------------------- MODULE Courtship ------------------------------
(***************************************************************************)
(* What the substrate promises of courtship: an organism is in one couple  *)
(* at most, a couple ends once, in success or in failure, both sides at    *)
(* the same time, and only a completed courtship brings an offspring.      *)
(***************************************************************************)
EXTENDS Naturals, FiniteSets

CONSTANTS Ids

VARIABLES alive,    \* the living
          couples,  \* the couples courting, two-element sets of the living
          failed, completed, offspring  \* how many couples ended how

courtVars == <<alive, couples, failed, completed, offspring>>

Courting(o) == \E c \in couples : o \in c

\* Two single organisms start to court.
Begin(a, b) ==
    /\ a # b /\ {a, b} \subseteq alive
    /\ ~Courting(a) /\ ~Courting(b)
    /\ couples' = couples \cup {{a, b}}
    /\ UNCHANGED <<alive, failed, completed, offspring>>

\* A couple separates: sleep, withdrawn consent, ineligibility.
Separate(c) ==
    /\ c \in couples
    /\ couples' = couples \ {c}
    /\ failed' = failed + 1
    /\ UNCHANGED <<alive, completed, offspring>>

\* A courtship lasts to its end; the offspring may be refused.
Succeed(c) ==
    /\ c \in couples
    /\ couples' = couples \ {c}
    /\ completed' = completed + 1
    /\ \/ UNCHANGED <<alive, offspring>>
       \/ \E o \in Ids \ alive : alive' = alive \cup {o} /\ offspring' = offspring + 1
    /\ UNCHANGED failed

\* A death takes the organism's couple with it.
Die(o) ==
    /\ o \in alive
    /\ alive' = alive \ {o}
    /\ couples' = {c \in couples : o \notin c}
    /\ failed' = failed + (IF Courting(o) THEN 1 ELSE 0)
    /\ UNCHANGED <<completed, offspring>>

CourtInit ==
    /\ alive \in SUBSET Ids
    /\ couples = {}
    /\ failed = 0 /\ completed = 0 /\ offspring = 0

CourtNext ==
    \/ \E a, b \in Ids : Begin(a, b)
    \/ \E c \in couples : Separate(c) \/ Succeed(c)
    \/ \E o \in Ids : Die(o)

CourtSpec == CourtInit /\ [][CourtNext]_courtVars

=============================================================================
