-------------------------- MODULE SubstrateHistory --------------------------
(***************************************************************************)
(* Substrate with two history variables, and the properties that compare  *)
(* what the organisms carry with what has happened to them.                *)
(***************************************************************************)
EXTENDS SubstrateProperties

VARIABLES
    ranAwake,   \* history: the last tick in which each organism ran awake
    rolls       \* history: the rolls of process_foolsday in the current year

history == <<ranAwake, rolls>>

Never == -1

\* The execution loop is about to run o, which is awake and valid.
RunsAwake(o) ==
    /\ pc = "execute" /\ idx \in DOMAIN slots
    /\ o = slots[idx]
    /\ org[o].state = "AWAKE" /\ LoopValid(org[o])

\* process_foolsday is about to draw for o, the next that it judges.
Rolled(o) ==
    /\ pc = "foolsday"
    /\ \E j \in Judged : NextHit(j, Judged) /\ o = slots[j]
    /\ org[o].state = "ASLEEP"

InitH ==
    /\ Init
    /\ ranAwake = [o \in Ids |-> Never]
    /\ rolls = [o \in Ids |-> 0]

NextH ==
    /\ Next
    /\ ranAwake' = [o \in Ids |-> IF RunsAwake(o) THEN tick ELSE ranAwake[o]]
    /\ rolls' = [o \in Ids |-> IF date'.year # date.year THEN 0
                               ELSE IF Rolled(o) THEN rolls[o] + 1 ELSE rolls[o]]

SpecH == InitH /\ [][NextH]_<<vars, history>>

(***************************************************************************)
(* Fool's Day                                                              *)
(***************************************************************************)
\* Nobody, dead or alive, has been rolled for twice in a year, whatever it
\* did between the ticks of April 1 (sleep, switch off, return, wake up);
\* and the roll year that the living carry, which a checkpoint saves, says
\* whether they have had the roll of this year.
OneRollPerYear ==
    \A o \in Ids :
        /\ rolls[o] <= 1
        /\ Lives(o) => (rolls[o] = 1 <=> org[o].roll = date.year)

(***************************************************************************)
(* Communication                                                           *)
(***************************************************************************)
\* The phases in which the inboxes of the tick have been delivered.
Delivered == {"courtship", "birthEvict", "pairing", "evict", "account"}

Spoke(o) == ranAwake[o] = tick /\ org[o].state = "AWAKE"

\* Born in the courtships of the tick, after the delivery.
NewThisTick(o) == o > 2 /\ org[o].birth = tick

\* When the execution loop is over, those with a message are exactly those
\* who ran awake in this tick and did not fall asleep: no flag is left over
\* from an earlier tick, on one who has just woken for instance.
SendersSpoke ==
    pc \in Delivered \cup {"deliver"} =>
        \A o \in Living : org[o].sent <=> Spoke(o)

\* An inbox averages all of them but its owner, if it is awake, and nobody
\* else: not the dormant, not those who were born in this tick.
HearsTheSpeakers ==
    pc \in Delivered =>
        \A o \in Living :
            /\ \A x \in org[o].inbox : ranAwake[x] = tick
            /\ \A x \in Living :
                x \in org[o].inbox <=>
                    /\ Spoke(x) /\ x # o
                    /\ org[o].state = "AWAKE" /\ ~NewThisTick(o)

\* What an organism reads when it runs next are messages of the last tick.
NoStaleMessage ==
    \A o \in Living : \A x \in org[o].inbox :
        ranAwake[x] >= tick - 1 /\ x # o /\ org[o].state = "AWAKE"

\* Only those who run awake speak, they are heard by the awake, in the tick
\* that follows, and nobody else is.
OnlyAwakeCommunicate == SendersSpoke /\ HearsTheSpeakers /\ NoStaleMessage

=============================================================================
