------------------------------ MODULE Register -------------------------------
(***************************************************************************)
(* Abstract specification: a register that is replaced whole or left as it *)
(* is.  include/alife/config.h promises this of alife_config_load ("loads, *)
(* validates, and atomically replaces a configuration").                   *)
(***************************************************************************)
CONSTANTS
    Unset,      \* what the register holds before anything was put into it
    Sound(_)    \* what may be put into it

VARIABLES value, call

Calls == {"none", "busy", "done", "failed"}

Init == value = Unset /\ call = "none"

Begin == call # "busy" /\ call' = "busy" /\ UNCHANGED value

Replace == call = "busy" /\ call' = "done" /\ Sound(value')

Refuse == call = "busy" /\ call' = "failed" /\ UNCHANGED value

\* Between calls its owner may change what is in it, as run_command does with
\* the path of the checkpoint.
Edit == call = "done" /\ UNCHANGED call

Next == Begin \/ Replace \/ Refuse \/ Edit

Spec == Init /\ [][Next]_<<value, call>>

=============================================================================
