------------------------------ MODULE Durable -------------------------------
(***************************************************************************)
(* What checkpoints promise: a world in memory, and per path a world that  *)
(* is on disk. Saving replaces the one on disk in a single step, losing    *)
(* the process never touches it, and a new process starts from a world of  *)
(* seeds or from exactly what some path holds.                             *)
(***************************************************************************)
CONSTANTS Paths, None, Evolve(_),
          Fresh  \* the worlds of seeds

VARIABLES live,  \* the world in memory, None without a process
          kept   \* the world each path holds, None when there is none

durableVars == <<live, kept>>

Begin == /\ live = None
         /\ \/ live' \in Fresh
            \/ \E p \in Paths : kept[p] # None /\ live' = kept[p]
         /\ UNCHANGED kept

Advance == live # None /\ live' = Evolve(live) /\ UNCHANGED kept

Commit(p) == /\ live # None
             /\ kept' = [kept EXCEPT ![p] = live]
             /\ UNCHANGED live

Lose == live # None /\ live' = None /\ UNCHANGED kept

DurableInit == live = None /\ kept = [p \in Paths |-> None]

DurableNext == Begin \/ Advance \/ Lose \/ \E p \in Paths : Commit(p)

DurableSpec == DurableInit /\ [][DurableNext]_durableVars

=============================================================================
