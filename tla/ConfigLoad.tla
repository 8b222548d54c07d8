----------------------------- MODULE ConfigLoad ------------------------------
(***************************************************************************)
(* alife_config_load (src/src/config.c): a file is read line by line into  *)
(* a local configuration, which replaces the caller's after its validation.*)
(*                                                                         *)
(* A line is blank (or a comment), long (over 1023 characters), bare (no   *)
(* =), hollow (no key or no value) or assigns the text l.text to l.key,    *)
(* which may be no key at all.                                             *)
(***************************************************************************)
EXTENDS Config, FiniteSets

CONSTANTS
    Lines,      \* bound: the lines a file is made of
    MaxLines,   \* bound: lines read in all calls
    NoConfig    \* what an uninitialised configuration holds

ASSUME LoaderAssumption ==
    /\ MaxLines \in Nat
    /\ \A l \in Lines : l.kind = "assign" => l.text.n \in Nat

VARIABLES
    pc,         \* where the program is
    dest,       \* *config, the caller's configuration
    loaded,     \* the local configuration, NoConfig outside of a call
    seen,       \* the bits of the keys assigned so far
    taken,      \* history: the assignments of the file, as a set
    lines       \* history: lines read, for the bound MaxLines

loader == <<pc, dest, loaded, seen, taken, lines>>

LoaderInit ==
    /\ pc = "idle" /\ dest = NoConfig /\ loaded = NoConfig
    /\ seen = {} /\ taken = {} /\ lines = 0

Returned == {"idle", "loaded", "refused"}

\* The locals of a call that has returned are gone.
Return(how) ==
    /\ pc' = how
    /\ loaded' = NoConfig /\ seen' = {} /\ taken' = {}

\* Fault: the file is read over the caller's configuration.
OpenOverDest ==
    /\ pc \in Returned /\ lines < MaxLines
    /\ pc' = "reading"
    /\ loaded' = IF dest = NoConfig THEN DefaultConfig ELSE dest
    /\ UNCHANGED <<dest, seen, taken, lines>>

\* Another call may follow a call, whatever came of it.
Open ==
    /\ pc \in Returned /\ lines < MaxLines
    /\ pc' = "reading"
    /\ loaded' = DefaultConfig
    /\ UNCHANGED <<dest, seen, taken, lines>>

ReadLine(l) ==
    /\ pc = "reading" /\ lines < MaxLines
    /\ lines' = lines + 1

SkipLine ==
    /\ \E l \in Lines : ReadLine(l) /\ l.kind = "blank"
    /\ UNCHANGED <<pc, dest, loaded, seen, taken>>

\* The values the line gives its key; empty when the line is an error.
Assigned(l) ==
    IF l.kind = "assign" /\ l.key \in Keys \ seen
    THEN Readings(l.key, l.text) ELSE {}

\* Fault: values go straight into the caller's configuration.
AssignInPlace ==
    /\ \E l \in Lines : \E v \in Assigned(l) :
        /\ ReadLine(l)
        /\ loaded' = [loaded EXCEPT ![l.key] = v]
        /\ dest' = IF dest = NoConfig THEN dest ELSE [dest EXCEPT ![l.key] = v]
        /\ seen' = seen \cup {l.key}
        /\ taken' = taken \cup {l}
    /\ UNCHANGED pc

Assign ==
    /\ \E l \in Lines : \E v \in Assigned(l) :
        /\ ReadLine(l)
        /\ loaded' = [loaded EXCEPT ![l.key] = v]
        /\ seen' = seen \cup {l.key}
        /\ taken' = taken \cup {l}
    /\ UNCHANGED <<pc, dest>>

\* The line is too long, no assignment, of no known key, of a key that was
\* assigned before, or of a value that cannot be read.
RefuseLine ==
    /\ \E l \in Lines : ReadLine(l) /\ l.kind # "blank" /\ Assigned(l) = {}
    /\ Return("refused")
    /\ UNCHANGED dest

EndOfFile ==
    /\ pc = "reading"
    /\ pc' = "read"
    /\ UNCHANGED <<dest, loaded, seen, taken, lines>>

\* fopen, a read or fclose fails.
ReadFails ==
    /\ pc = "reading"
    /\ Return("refused")
    /\ UNCHANGED <<dest, lines>>

Accept ==
    /\ pc = "read" /\ Valid(loaded)
    /\ dest' = loaded
    /\ Return("loaded")
    /\ UNCHANGED lines

Reject ==
    /\ pc = "read" /\ ~Valid(loaded)
    /\ Return("refused")
    /\ UNCHANGED <<dest, lines>>

Load ==
    \/ Open \/ SkipLine \/ Assign \/ RefuseLine \/ EndOfFile \/ ReadFails
    \/ Accept \/ Reject

(***************************************************************************)
(* What the caller relies on                                               *)
(***************************************************************************)
\* What a set of assignments makes of a key, in whatever order they come.
Declared(k, assignments) ==
    UNION {Readings(k, l.text) : l \in {a \in assignments : a.key = k}}

\* The configuration that a load hands over is the defaults with the values
\* of its file in them and nothing else: nothing of an earlier load, no key
\* twice, and the same whatever the order of the lines (config.c:685-804).
LoadIsDeclarative ==
    [][pc = "read" /\ pc' = "loaded" =>
        \A k \in Keys :
            {dest'[k]} = IF \E l \in taken : l.key = k
                         THEN Declared(k, taken) ELSE {DefaultConfig[k]}]_loader

=============================================================================
