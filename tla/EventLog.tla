------------------------------ MODULE EventLog ------------------------------
(***************************************************************************)
(* The JSON Lines event log: what log.c writes through a fully buffered    *)
(* stream (setvbuf with 64 KiB) and what of it survives the process.       *)
(*                                                                         *)
(* lines   every record written, in the order of the file                  *)
(* safe    how many of them the stream has handed over completely          *)
(* cut     the stream ran full in the middle of record safe + 1, the       *)
(*         beginning of which is in the file                               *)
(* broken  the records whose end was lost with a process                   *)
(***************************************************************************)
EXTENDS Naturals, Sequences

Kinds == {"run_start", "birth", "death", "summary", "checkpoint", "run_end"}

NoLog == [lines |-> <<>>, safe |-> 0, cut |-> FALSE, broken |-> {}]

\* open_event_log: "w" drops what was there, "a" goes on at its end.
OpenLog(log, mode) == IF mode = "w" THEN NoLog ELSE log

\* fprintf of some records: they stay in the buffer, or the buffer runs full
\* and is handed over up to some byte of one of them.
Fprintf(log, records) ==
    LET all == log.lines \o records
    IN  {[log EXCEPT !.lines = all]}
            \cup [lines : {all}, safe : Len(log.lines) .. Len(all) - 1,
                  cut : BOOLEAN, broken : {log.broken}]

\* Fault: the flush forgets that a record had been cut.
FlushedStillCut(log, records) ==
    [log EXCEPT !.lines = @ \o records, !.safe = Len(log.lines \o records)]

\* fprintf of some records followed by fflush.
Flushed(log, records) ==
    [log EXCEPT !.lines = @ \o records,
                !.safe = Len(log.lines \o records), !.cut = FALSE]

\* The process is gone, and its buffer with it.
Lost(log) ==
    LET n == IF log.cut THEN log.safe + 1 ELSE log.safe
    IN  [lines |-> SubSeq(log.lines, 1, n), safe |-> n, cut |-> FALSE,
         broken |-> IF log.cut THEN log.broken \cup {n} ELSE log.broken]

\* What no crash can take back.
SafeLines(log) == SubSeq(log.lines, 1, log.safe)

\* A record stands on a line of its own unless the one before it was broken.
OwnLine(log, i) == i \notin log.broken /\ (i > 1 => i - 1 \notin log.broken)

=============================================================================
