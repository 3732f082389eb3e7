---------------------------- MODULE TelemetryBuffer ----------------------------
(***************************************************************************)
(* The ring buffer of received telemetry, AVC::TelemetryBuffer             *)
(* (src/src/Management/TelemetryBuffer.{hpp,cpp}).  Every operation runs   *)
(* under mutex_ from its first to its last line, so each is one action,    *)
(* whichever thread calls it.                                              *)
(***************************************************************************)
EXTENDS Integers, Sequences

CONSTANTS
    Telemetry,      \* telemetry records
    Blank,          \* a default-constructed record
    Capacity,       \* maxCapacity
    MaxIndex        \* bound: indices asked for

\* A buffer of capacity 0 divides by zero in every operation that uses it.
ASSUME CapacityAssumption == Capacity \in Nat \ {0}
ASSUME IndexAssumption == MaxIndex \in Nat

VARIABLES
    buffer,
    head,           \* the next write position
    count,
    reply           \* the values the last read returned, <<>> for std::nullopt

vars == <<buffer, head, count, reply>>

Slot == 0 .. Capacity - 1

Init ==
    /\ buffer = [i \in Slot |-> Blank]
    /\ head = 0
    /\ count = 0
    /\ reply = <<>>

\* Mutant: the count keeps growing once the buffer has been filled.
AddTelemetryCountsOn(t) ==
    /\ buffer' = [buffer EXCEPT ![head] = t]
    /\ head' = (head + 1) % Capacity
    /\ count' = IF count <= Capacity THEN count + 1 ELSE count
    /\ UNCHANGED reply

AddTelemetry(t) ==
    /\ buffer' = [buffer EXCEPT ![head] = t]
    /\ head' = (head + 1) % Capacity
    /\ count' = IF count < Capacity THEN count + 1 ELSE count
    /\ UNCHANGED reply

GetLatestTelemetry ==
    /\ reply' = IF count = 0 THEN <<>>
                             ELSE <<buffer[(head + Capacity - 1) % Capacity]>>
    /\ UNCHANGED <<buffer, head, count>>

\* Mutant: the position is not counted back from the next write position.
OldestPlusFromHead(i) == (head + i) % Capacity

\* Where the record of index i is kept.
OldestPlus(i) == (head + Capacity - count + i) % Capacity

GetTelemetryAt(index) ==
    /\ reply' = IF index >= count THEN <<>> ELSE <<buffer[OldestPlus(index)]>>
    /\ UNCHANGED <<buffer, head, count>>

GetAllTelemetry ==
    /\ reply' = [i \in 1 .. count |-> buffer[OldestPlus(i - 1)]]
    /\ UNCHANGED <<buffer, head, count>>

Size ==
    /\ reply' = <<count>>
    /\ UNCHANGED <<buffer, head, count>>

Next ==
    \/ \E t \in Telemetry : AddTelemetry(t)
    \/ GetLatestTelemetry \/ GetAllTelemetry \/ Size
    \/ \E index \in 0 .. MaxIndex : GetTelemetryAt(index)

Spec == Init /\ [][Next]_vars

-----------------------------------------------------------------------------

TypeOK ==
    /\ buffer \in [Slot -> Telemetry \cup {Blank}]
    /\ head \in Slot
    /\ count \in 0 .. Capacity

\* The slot of the i-th oldest record: the count slots that end before head.
Position(i) == IF i <= count - head THEN Capacity + head - count + i - 1
                                    ELSE head - count + i - 1

\* The records kept, oldest first.
Contents == [i \in 1 .. count |-> buffer[Position(i)]]

Log == INSTANCE TelemetryLog WITH log <- Contents

\* The ring buffer is the bounded log of its header: it keeps the last Capacity
\* records in order, drops the oldest, and every read returns what the log holds,
\* before and after the positions wrap around.
ImplementsLog == Log!Spec
=============================================================================
