----------------------------- MODULE TelemetryLog -----------------------------
(***************************************************************************)
(* What AVC::TelemetryBuffer promises (the comments of                     *)
(* src/src/Management/TelemetryBuffer.hpp): the last Capacity telemetry    *)
(* records in the order in which they were added, and reads that see them. *)
(***************************************************************************)
EXTENDS Integers, Sequences

CONSTANTS
    Telemetry,      \* telemetry records
    Capacity,
    MaxIndex        \* bound: indices asked for

VARIABLES
    log,            \* the records kept, oldest first
    reply           \* the values the last read returned, <<>> for std::nullopt

Init ==
    /\ log = <<>>
    /\ reply = <<>>

\* Overwrites the oldest data if the buffer is full.
Add(t) ==
    /\ log' = IF Len(log) < Capacity THEN Append(log, t) ELSE Append(Tail(log), t)
    /\ UNCHANGED reply

ReadLatest ==
    /\ reply' = IF log = <<>> THEN <<>> ELSE <<log[Len(log)]>>
    /\ UNCHANGED log

\* Index 0 is the oldest, index size() - 1 the newest.
ReadAt(index) ==
    /\ reply' = IF index < Len(log) THEN <<log[index + 1]>> ELSE <<>>
    /\ UNCHANGED log

ReadAll ==
    /\ reply' = log
    /\ UNCHANGED log

ReadSize ==
    /\ reply' = <<Len(log)>>
    /\ UNCHANGED log

Next ==
    \/ \E t \in Telemetry : Add(t)
    \/ ReadLatest \/ ReadAll \/ ReadSize
    \/ \E index \in 0 .. MaxIndex : ReadAt(index)

Spec == Init /\ [][Next]_<<log, reply>>
=============================================================================
