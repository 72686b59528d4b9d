------------------------------ MODULE TraceLog ------------------------------
(* What a trace promises its users: a log of cycles that grows by one      *)
(* record at a time, that an orderly end keeps and any other end cuts to a *)
(* prefix, and a reader that moves forward over the log and shows, at each *)
(* position, the record the writer put there.                              *)
EXTENDS Integers, Sequences, SequencesExt

VARIABLES
    log,        \* the records, oldest first
    state,      \* "run" while it grows, then "closed"
    at,         \* records before the reader, or Away
    shown       \* <<>> or the record the reader shows

vars == <<log, state, at, shown>>

Away == -1

ShownAt(n) == IF n \in 0 .. Len(log) - 1 THEN <<log[n + 1]>> ELSE <<>>

Init ==
    /\ log = <<>>
    /\ state = "run"
    /\ at = Away
    /\ shown = <<>>

Record ==
    /\ state = "run"
    /\ Len(log') = Len(log) + 1
    /\ IsPrefix(log, log')
    /\ UNCHANGED <<state, at, shown>>

Close == state = "run" /\ state' = "closed" /\ UNCHANGED <<log, at, shown>>

Crash ==
    /\ state = "run"
    /\ state' = "closed"
    /\ IsPrefix(log', log)
    /\ UNCHANGED <<at, shown>>

(* A reader arrives, at the first record or behind an initial skip.        *)
Open ==
    /\ state = "closed" /\ at = Away
    /\ at' \in 0 .. Len(log)
    /\ shown' = ShownAt(at')
    /\ UNCHANGED <<log, state>>

(* It moves forward, never past the end, and may then go away.             *)
Move ==
    /\ at # Away /\ at < Len(log)
    /\ at' \in at .. Len(log)
    /\ shown' = ShownAt(at')
    /\ UNCHANGED <<log, state>>

Leave ==
    /\ at # Away
    /\ at' = Away
    /\ shown' = <<>>
    /\ UNCHANGED <<log, state>>

Next == Record \/ Close \/ Crash \/ Open \/ Move \/ Leave

Spec == Init /\ [][Next]_vars
=============================================================================
