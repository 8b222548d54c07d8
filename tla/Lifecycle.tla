----------------------------- MODULE Lifecycle ------------------------------
(***************************************************************************)
(* What the substrate promises of one organism's life: the lifecycle       *)
(* diagram of AWAKE, ASLEEP and OFF with its single off timer.             *)
(***************************************************************************)
EXTENDS Naturals

CONSTANTS Ids

VARIABLES life,     \* life[o]: "unborn", a lifecycle state, or "dead"
          alarm,    \* alarm[o]: the tick at which o is switched on again
          now       \* ticks completed

lifeVars == <<life, alarm, now>>

Change(o, from, to) ==
    /\ life[o] = from
    /\ life' = [life EXCEPT ![o] = to]
    /\ UNCHANGED now

IsBorn(o) == Change(o, "unborn", "AWAKE") /\ UNCHANGED alarm
FallsAsleep(o) == Change(o, "AWAKE", "ASLEEP") /\ UNCHANGED alarm
Wakes(o) == Change(o, "ASLEEP", "AWAKE") /\ UNCHANGED alarm

SwitchesOff(o) ==
    /\ Change(o, "ASLEEP", "OFF")
    /\ alarm'[o] > now
    /\ alarm' = [alarm EXCEPT ![o] = alarm'[o]]

\* Off ends in sleep and not before the alarm.
Returns(o) ==
    /\ Change(o, "OFF", "ASLEEP")
    /\ now >= alarm[o]
    /\ alarm' = [alarm EXCEPT ![o] = 0]

Dies(o) ==
    /\ life[o] \in {"AWAKE", "ASLEEP", "OFF"}
    /\ life' = [life EXCEPT ![o] = "dead"]
    /\ alarm' = [alarm EXCEPT ![o] = 0]
    /\ UNCHANGED now

\* A tick does not end while an alarm that is due has not been answered.
TickPasses ==
    /\ \A o \in Ids : life[o] = "OFF" => alarm[o] > now
    /\ now' = now + 1
    /\ UNCHANGED <<life, alarm>>

LifeInit ==
    /\ life \in [Ids -> {"unborn", "AWAKE"}]
    /\ alarm = [o \in Ids |-> 0]
    /\ now = 0

LifeNext ==
    \/ TickPasses
    \/ \E o \in Ids : \/ IsBorn(o) \/ FallsAsleep(o) \/ Wakes(o)
                      \/ SwitchesOff(o) \/ Returns(o) \/ Dies(o)

LifeSpec == LifeInit /\ [][LifeNext]_lifeVars

=============================================================================
