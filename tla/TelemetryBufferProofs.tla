------------------------- MODULE TelemetryBufferProofs -------------------------
(***************************************************************************)
(* The ring buffer implements the bounded log, for every capacity and      *)
(* every set of records.                                                   *)
(***************************************************************************)
EXTENDS TelemetryBuffer, SequenceTheorems, TLAPS

\* Positions are taken modulo the capacity after at most one turn.
LEMMA WrapOnce ==
    \A a \in 0 .. 2 * Capacity - 1 :
        a % Capacity = IF a < Capacity THEN a ELSE a - Capacity
  <1> SUFFICES ASSUME NEW a \in 0 .. 2 * Capacity - 1
               PROVE  a % Capacity = IF a < Capacity THEN a ELSE a - Capacity
    OBVIOUS
  <1>1. CASE a < Capacity
    BY <1>1, CapacityAssumption
  <1>2. CASE a >= Capacity
    BY <1>2, CapacityAssumption
  <1> QED BY <1>1, <1>2, CapacityAssumption

LEMMA TypeInit == Init => TypeOK
  BY CapacityAssumption DEF Init, TypeOK, Slot

LEMMA NextHead ==
    ASSUME TypeOK
    PROVE  (head + 1) % Capacity = IF head = Capacity - 1 THEN 0 ELSE head + 1
  <1> DEFINE a == head + 1
  <1>1. a \in 0 .. 2 * Capacity - 1
    BY CapacityAssumption DEF TypeOK, Slot
  <1> HIDE DEF a
  <1>2. a % Capacity = IF a < Capacity THEN a ELSE a - Capacity
    BY <1>1, WrapOnce
  <1> QED BY <1>2, CapacityAssumption DEF TypeOK, Slot, a

LEMMA TypeNext == TypeOK /\ [Next]_vars => TypeOK'
  <1> SUFFICES ASSUME TypeOK, [Next]_vars PROVE TypeOK'
    OBVIOUS
  <1> USE CapacityAssumption DEF TypeOK
  <1>1. ASSUME NEW t \in Telemetry, AddTelemetry(t) PROVE TypeOK'
    <2>1. head' \in Slot
      BY <1>1, NextHead DEF AddTelemetry, Slot
    <2> QED BY <1>1, <2>1 DEF AddTelemetry, Slot
  <1>2. CASE GetLatestTelemetry \/ GetAllTelemetry \/ Size \/ UNCHANGED vars
    BY <1>2 DEF GetLatestTelemetry, GetAllTelemetry, Size, vars
  <1>3. ASSUME NEW index \in 0 .. MaxIndex, GetTelemetryAt(index) PROVE TypeOK'
    BY <1>3 DEF GetTelemetryAt
  <1> QED BY <1>1, <1>2, <1>3 DEF Next

\* head and count stay in range: no write and no read leaves the vector.
THEOREM TypeCorrect == Spec => []TypeOK
  BY TypeInit, TypeNext, PTL DEF Spec

-----------------------------------------------------------------------------
(* The slots of the records, and how an addition moves them.               *)

LEMMA PositionInSlot ==
    ASSUME TypeOK, NEW i \in 1 .. count
    PROVE  Position(i) \in Slot
  BY CapacityAssumption DEF TypeOK, Slot, Position

LEMMA ContentsType ==
    ASSUME TypeOK
    PROVE  Contents \in Seq(Telemetry \cup {Blank}) /\ Len(Contents) = count
  <1>1. \A i \in 1 .. count : buffer[Position(i)] \in Telemetry \cup {Blank}
    BY PositionInSlot DEF TypeOK
  <1> QED BY <1>1, CapacityAssumption DEF Contents, TypeOK

\* The code's index arithmetic finds the i-th oldest record.
LEMMA CodeFindsPosition ==
    ASSUME TypeOK, NEW i \in 0 .. count - 1
    PROVE  OldestPlus(i) = Position(i + 1)
  <1> DEFINE a == head + Capacity - count + i
  <1>1. a \in 0 .. 2 * Capacity - 1
    BY CapacityAssumption DEF TypeOK, Slot
  <1>2. OldestPlus(i) = a % Capacity
    BY DEF OldestPlus
  <1> HIDE DEF a
  <1>3. a % Capacity = IF a < Capacity THEN a ELSE a - Capacity
    BY <1>1, WrapOnce
  <1> QED BY <1>2, <1>3, CapacityAssumption DEF TypeOK, Slot, Position, a

LEMMA LatestPosition ==
    ASSUME TypeOK, count # 0
    PROVE  (head + Capacity - 1) % Capacity = Position(count)
  <1> DEFINE a == head + Capacity - 1
  <1>1. a \in 0 .. 2 * Capacity - 1
    BY CapacityAssumption DEF TypeOK, Slot
  <1> HIDE DEF a
  <1>2. a % Capacity = IF a < Capacity THEN a ELSE a - Capacity
    BY <1>1, WrapOnce
  <1> QED BY <1>2, CapacityAssumption DEF TypeOK, Slot, Position, a

\* Appending, seen position by position.
LEMMA AppendByIndex ==
    ASSUME NEW S, NEW s \in Seq(S), NEW n \in Nat, Len(s) = n - 1, NEW x \in S
    PROVE  Append(s, x) = [i \in 1 .. n |-> IF i = n THEN x ELSE s[i]]
  <1>1. Append(s, x) \in Seq(S) /\ Len(Append(s, x)) = n
    OBVIOUS
  <1>2. \A i \in 1 .. n : Append(s, x)[i] = IF i = n THEN x ELSE s[i]
    OBVIOUS
  <1>3. Append(s, x) \in [1 .. n -> S]
    BY <1>1, LenProperties
  <1> QED BY <1>2, <1>3, Zenon

LEMMA AddBelowCapacity ==
    ASSUME TypeOK, NEW t \in Telemetry, AddTelemetry(t), count < Capacity
    PROVE  Contents' = Append(Contents, t)
  <1> USE CapacityAssumption DEF TypeOK, Slot
  <1>1. head' = (IF head = Capacity - 1 THEN 0 ELSE head + 1) /\ count' = count + 1
    BY NextHead DEF AddTelemetry
  <1>2. ASSUME NEW i \in 1 .. count
        PROVE  Position(i)' = Position(i) /\ Position(i) # head /\ Position(i) \in Slot
    <2>1. Position(i)' = Position(i)
      BY <1>1 DEF Position
    <2>2. Position(i) # head /\ Position(i) \in Slot
      BY DEF Position
    <2> QED BY <2>1, <2>2
  <1>3. ASSUME NEW i \in {count + 1} PROVE Position(i)' = head
    BY <1>1 DEF Position
  <1>4. Contents' = [i \in 1 .. count + 1 |-> buffer'[Position(i)']]
    BY <1>1 DEF Contents
  <1>5. \A i \in 1 .. count : Contents'[i] = Contents[i]
    BY <1>1, <1>2, <1>4 DEF AddTelemetry, Contents
  <1>6. Contents'[count + 1] = t
    BY <1>3, <1>4 DEF AddTelemetry
  <1>7. Contents \in Seq(Telemetry \cup {Blank}) /\ Len(Contents) = count
    BY ContentsType
  <1>8. Contents' = [i \in 1 .. count + 1 |-> IF i = count + 1 THEN t ELSE Contents[i]]
    BY <1>4, <1>5, <1>6
  <1>9. Append(Contents, t)
            = [i \in 1 .. count + 1 |-> IF i = count + 1 THEN t ELSE Contents[i]]
    BY <1>7, AppendByIndex
  <1> QED BY <1>8, <1>9

LEMMA AddAtCapacity ==
    ASSUME TypeOK, NEW t \in Telemetry, AddTelemetry(t), count = Capacity
    PROVE  Contents' = Append(Tail(Contents), t)
  <1> USE CapacityAssumption DEF TypeOK, Slot
  <1>1. head' = (IF head = Capacity - 1 THEN 0 ELSE head + 1) /\ count' = count
    BY NextHead DEF AddTelemetry
  <1>2. ASSUME NEW i \in 1 .. count - 1
        PROVE  /\ Position(i)' = Position(i + 1)
               /\ Position(i + 1) # head
               /\ Position(i + 1) \in Slot
    BY <1>1 DEF Position
  <1>3. Position(count)' = head
    BY <1>1 DEF Position
  <1>4. Contents' = [i \in 1 .. count |-> buffer'[Position(i)']]
    BY <1>1 DEF Contents
  <1>5. \A i \in 1 .. count - 1 : Contents'[i] = Contents[i + 1]
    BY <1>1, <1>2, <1>4 DEF AddTelemetry, Contents
  <1>6. Contents'[count] = t
    BY <1>3, <1>4 DEF AddTelemetry
  <1>7. Contents \in Seq(Telemetry \cup {Blank}) /\ Len(Contents) = count
    BY ContentsType
  <1>8. Contents' = [i \in 1 .. count |-> IF i = count THEN t ELSE Contents[i + 1]]
    BY <1>4, <1>5, <1>6
  <1>9. /\ Tail(Contents) \in Seq(Telemetry \cup {Blank})
        /\ Len(Tail(Contents)) = count - 1
        /\ \A i \in 1 .. count - 1 : Tail(Contents)[i] = Contents[i + 1]
    BY <1>7
  <1>10. Append(Tail(Contents), t)
             = [i \in 1 .. count |-> IF i = count THEN t ELSE Tail(Contents)[i]]
    BY <1>9, AppendByIndex
  <1> HIDE DEF Contents
  <1> QED BY <1>8, <1>9, <1>10

-----------------------------------------------------------------------------
(* The refinement.                                                         *)

LEMMA LogInit == Init => Log!Init
  BY DEF Init, Log!Init, Contents

LEMMA ReadsLeaveContents ==
    ASSUME UNCHANGED <<buffer, head, count>> PROVE Contents' = Contents
  BY DEF Contents, Position

LEMMA LogNext == TypeOK /\ [Next]_vars => [Log!Next]_<<Contents, reply>>
  <1> SUFFICES ASSUME TypeOK, [Next]_vars PROVE [Log!Next]_<<Contents, reply>>
    OBVIOUS
  <1>0. Contents \in Seq(Telemetry \cup {Blank}) /\ Len(Contents) = count
    BY ContentsType
  <1>1. ASSUME NEW t \in Telemetry, AddTelemetry(t) PROVE Log!Next
    <2>1. CASE count < Capacity
      BY <1>0, <1>1, <2>1, AddBelowCapacity DEF Log!Next, Log!Add, AddTelemetry
    <2>2. CASE count = Capacity
      <3>1. Contents' = Append(Tail(Contents), t)
        BY <1>1, <2>2, AddAtCapacity
      <3>2. ~ (Len(Contents) < Capacity) /\ UNCHANGED reply
        BY <1>0, <1>1, <2>2, CapacityAssumption DEF AddTelemetry
      <3> QED BY <3>1, <3>2 DEF Log!Next, Log!Add
    <2> QED BY <2>1, <2>2, CapacityAssumption DEF TypeOK
  <1>2. CASE GetLatestTelemetry
    <2>1. Contents' = Contents
      BY <1>2, ReadsLeaveContents DEF GetLatestTelemetry
    <2>2. count # 0 => buffer[(head + Capacity - 1) % Capacity] = Contents[count]
      BY LatestPosition DEF TypeOK, Contents
    <2>3. reply' = IF Contents = <<>> THEN <<>> ELSE <<Contents[Len(Contents)]>>
      BY <1>0, <1>2, <2>2 DEF GetLatestTelemetry
    <2> QED BY <2>1, <2>3 DEF Log!Next, Log!ReadLatest
  <1>3. CASE GetAllTelemetry
    <2>1. Contents' = Contents
      BY <1>3, ReadsLeaveContents DEF GetAllTelemetry
    <2>2. \A i \in 1 .. count : OldestPlus(i - 1) = Position(i)
      BY CodeFindsPosition DEF TypeOK
    <2>3. reply' = Contents
      BY <1>3, <2>2 DEF GetAllTelemetry, Contents
    <2> QED BY <2>1, <2>3 DEF Log!Next, Log!ReadAll
  <1>4. CASE Size
    BY <1>0, <1>4, ReadsLeaveContents DEF Size, Log!Next, Log!ReadSize
  <1>5. ASSUME NEW index \in 0 .. MaxIndex, GetTelemetryAt(index) PROVE Log!Next
    <2>1. Contents' = Contents
      BY <1>5, ReadsLeaveContents DEF GetTelemetryAt
    <2>2. index < count => buffer[OldestPlus(index)] = Contents[index + 1]
      BY CodeFindsPosition, IndexAssumption DEF TypeOK, Contents
    <2>3. reply' = IF index < Len(Contents) THEN <<Contents[index + 1]>> ELSE <<>>
      BY <1>0, <1>5, <2>2, IndexAssumption DEF GetTelemetryAt, TypeOK
    <2> QED BY <2>1, <2>3 DEF Log!Next, Log!ReadAt
  <1>6. CASE UNCHANGED vars
    BY <1>6, ReadsLeaveContents DEF vars
  <1> QED BY <1>1, <1>2, <1>3, <1>4, <1>5, <1>6 DEF Next

\* Adding and reading the ring buffer is adding to and reading the log of the
\* last Capacity records.
THEOREM Refinement == Spec => ImplementsLog
  BY LogInit, LogNext, TypeInit, TypeNext, PTL DEF Spec, ImplementsLog, Log!Spec
=============================================================================
