------------------------------ MODULE ScalpelProofs ------------------------------
(***************************************************************************)
(* Proofs about the codec of SCALPEL for payloads of every length and      *)
(* content.  The recursive functions that Scalpel is written with are      *)
(* shown to exist, and what they compute is found by induction: both rest  *)
(* on the least element that every set of natural numbers has.             *)
(***************************************************************************)
EXTENDS Scalpel, SequenceTheorems, WellFoundedInduction, TLAPS

LEMMA Least ==
    ASSUME NEW S \in SUBSET Nat, S # {}
    PROVE  \E m \in S : \A n \in S : m <= n
  <1> DEFINE R == OpToRel(<, Nat)
  <1>1. PICK x \in S : \A y \in S : ~ (<<y, x>> \in R)
    <2>1. IsWellFoundedOn(R, Nat)
      BY NatLessThanWellFounded
    <2> HIDE DEF R
    <2> QED BY <2>1, WFMin
  <1>2. \A a, b \in Nat : <<b, a>> \in R <=> b < a
    BY DEF OpToRel
  <1> HIDE DEF R
  <1>3. ASSUME NEW y \in S PROVE x <= y
    <2>1. x \in Nat /\ y \in Nat
      OBVIOUS
    <2>2. ~ (y < x)
      BY <1>1, <1>2, <2>1
    <2> QED BY <2>1, <2>2
  <1> QED BY <1>3

LEMMA Upward ==
    ASSUME NEW n \in Nat, NEW G, 0 \in G, \A i \in 0 .. n - 1 : i \in G => i + 1 \in G
    PROVE  \A i \in 0 .. n : i \in G
  <1> SUFFICES ASSUME NEW k \in 0 .. n, k \notin G PROVE FALSE
    OBVIOUS
  <1> DEFINE S == {i \in 0 .. n : i \notin G}
  <1>1. PICK m \in S : \A i \in S : m <= i
    <2>1. S \in SUBSET Nat /\ S # {}
      OBVIOUS
    <2> HIDE DEF S
    <2> QED BY <2>1, Least
  <1>2. m - 1 \in 0 .. n - 1 /\ m - 1 \notin S
    BY <1>1
  <1> QED BY <1>1, <1>2

LEMMA Downward ==
    ASSUME NEW n \in Nat, NEW G,
           \A i \in 1 .. n : (\A j \in i + 1 .. n : j \in G) => i \in G
    PROVE  \A i \in 1 .. n : i \in G
  <1> SUFFICES ASSUME NEW k \in 1 .. n, k \notin G PROVE FALSE
    OBVIOUS
  <1> DEFINE S == {i \in 0 .. n - 1 : n - i \notin G}
  <1>1. PICK m \in S : \A i \in S : m <= i
    <2>1. S # {}
      <3>1. n - k \in 0 .. n - 1 /\ n - (n - k) = k
        OBVIOUS
      <3>2. n - k \in S
        BY <3>1
      <3> QED BY <3>2
    <2>2. S \in SUBSET Nat
      OBVIOUS
    <2> HIDE DEF S
    <2> QED BY <2>1, <2>2, Least
  <1>2. ASSUME NEW j \in n - m + 1 .. n PROVE j \in G
    <2>1. n - j \in 0 .. n - 1 /\ n - j < m /\ n - (n - j) = j
      BY <1>1
    <2> QED BY <1>1, <2>1
  <1> QED BY <1>1, <1>2

\* A function that is defined from the left, each value from the one before it.
StepsIn(step, n, T) == step \in [1 .. n -> [T -> T]]

FromLeft(g, n, b, step) == g[0] = b /\ \A i \in 1 .. n : g[i] = step[i][g[i - 1]]

LEMMA LeftExists ==
    ASSUME NEW n \in Nat, NEW T, NEW b \in T, NEW step, StepsIn(step, n, T)
    PROVE  \E g \in [0 .. n -> T] : FromLeft(g, n, b, step)
  <1> DEFINE G == {m \in 0 .. n : \E g \in [0 .. n -> T] : FromLeft(g, m, b, step)}
  <1>1. 0 \in G
    <2>1. FromLeft([i \in 0 .. n |-> b], 0, b, step) /\ [i \in 0 .. n |-> b] \in [0 .. n -> T]
      BY DEF FromLeft
    <2> QED BY <2>1
  <1>2. ASSUME NEW m \in 0 .. n - 1, m \in G PROVE m + 1 \in G
    <2>1. PICK g \in [0 .. n -> T] : FromLeft(g, m, b, step)
      BY <1>2
    <2> DEFINE h == [g EXCEPT ![m + 1] = step[m + 1][g[m]]]
    <2>2. h \in [0 .. n -> T]
      BY DEF StepsIn
    <2>3. FromLeft(h, m + 1, b, step)
      BY <2>1 DEF FromLeft
    <2> HIDE DEF h
    <2> QED BY <2>2, <2>3
  <1>3. \A m \in 0 .. n : m \in G
    <2> HIDE DEF G
    <2> QED BY <1>1, <1>2, Upward
  <1> QED BY <1>3

LEMMA LeftStaysIn ==
    ASSUME NEW n \in Nat, NEW T, NEW g, g[0] \in T,
           \A i \in 1 .. n : g[i - 1] \in T => g[i] \in T
    PROVE  \A i \in 0 .. n : g[i] \in T
  <1> DEFINE G == {i \in 0 .. n : g[i] \in T}
  <1>1. 0 \in G
    OBVIOUS
  <1>2. ASSUME NEW i \in 0 .. n - 1, i \in G PROVE i + 1 \in G
    <2>1. i + 1 \in 1 .. n /\ (i + 1) - 1 = i
      OBVIOUS
    <2> QED BY <1>2, <2>1
  <1>3. \A i \in 0 .. n : i \in G
    <2> HIDE DEF G
    <2> QED BY <1>1, <1>2, Upward
  <1> QED BY <1>3

\* A function that is defined from the right, and not always from the next position.
FromRight(g, n, b, step, next) ==
    \A i \in Nat \ {0} : g[i] = IF i > n THEN b ELSE step[i][g[next[i]]]

Further(next, n) == next \in [1 .. n -> Nat] /\ \A i \in 1 .. n : next[i] > i

LEMMA RightExists ==
    ASSUME NEW n \in Nat, NEW T, NEW b \in T, NEW step, StepsIn(step, n, T),
           NEW next, Further(next, n)
    PROVE  \E g \in [Nat \ {0} -> T] : FromRight(g, n, b, step, next)
  <1> USE DEF StepsIn, Further
  <1> DEFINE Solves(g, m) ==
                 \A i \in Nat \ {0} : i > n - m => g[i] = IF i > n THEN b ELSE step[i][g[next[i]]]
             G == {m \in 0 .. n : \E g \in [Nat \ {0} -> T] : Solves(g, m)}
  <1>1. 0 \in G
    <2>1. Solves([i \in Nat \ {0} |-> b], 0) /\ [i \in Nat \ {0} |-> b] \in [Nat \ {0} -> T]
      OBVIOUS
    <2> HIDE DEF Solves
    <2> QED BY <2>1
  <1>2. ASSUME NEW m \in 0 .. n - 1, m \in G PROVE m + 1 \in G
    <2>1. PICK g \in [Nat \ {0} -> T] : Solves(g, m)
      BY <1>2
    <2>2. PICK k \in 1 .. n : k = n - m
      OBVIOUS
    <2>3. next[k] \in Nat \ {0} /\ next[k] # k
      OBVIOUS
    <2> DEFINE h == [g EXCEPT ![k] = step[k][g[next[k]]]]
    <2>4. h \in [Nat \ {0} -> T]
      BY <2>3
    <2>5. Solves(h, m + 1)
      <3> SUFFICES ASSUME NEW i \in Nat \ {0}, i > n - (m + 1)
                   PROVE  h[i] = IF i > n THEN b ELSE step[i][h[next[i]]]
        OBVIOUS
      <3>1. CASE i = k
        BY <2>3, <3>1
      <3>2. CASE i > n
        BY <2>1, <2>2, <3>2
      <3>3. CASE i \in 1 .. n /\ i > k
        <4>1. next[i] \in Nat \ {0} /\ next[i] # k
          BY <3>3
        <4>2. g[i] = step[i][g[next[i]]]
          BY <2>1, <2>2, <3>3
        <4> QED BY <3>3, <4>1, <4>2
      <3> QED BY <2>2, <3>1, <3>2, <3>3
    <2> HIDE DEF h, Solves
    <2> QED BY <2>4, <2>5
  <1>3. \A m \in 0 .. n : m \in G
    <2> HIDE DEF G
    <2> QED BY <1>1, <1>2, Upward
  <1>4. PICK g \in [Nat \ {0} -> T] : Solves(g, n)
    <2> HIDE DEF Solves
    <2> QED BY <1>3
  <1> QED BY <1>4 DEF FromRight

-----------------------------------------------------------------------------
(* Checksums.                                                              *)

LEMMA XorByte == \A a, b \in Byte : Xor[a][b] \in Byte
  <1> SUFFICES ASSUME NEW a \in Byte, NEW b \in Byte PROVE Xor[a][b] \in Byte
    OBVIOUS
  <1> DEFINE Bit(w) == w * ((a \div w + b \div w) % 2)
  <1>1. Xor[a][b] = Bit(1) + Bit(2) + Bit(4) + Bit(8) + Bit(16) + Bit(32) + Bit(64) + Bit(128)
    BY DEF Xor
  <1>2. \A w \in Weight : Bit(w) \in {0, w}
    BY DEF Byte, Weight
  <1> HIDE DEF Bit
  <1> QED BY <1>1, <1>2 DEF Byte, Weight

LEMMA TableByte == CRCTable \in [Byte -> Byte]
  <1>1. \A crc \in Byte : ShiftCRC(crc) \in Byte
    <2> SUFFICES ASSUME NEW crc \in Byte PROVE ShiftCRC(crc) \in Byte
      OBVIOUS
    <2>1. (2 * crc) % 256 \in Byte /\ 7 \in Byte
      BY DEF Byte
    <2> QED BY <2>1, XorByte DEF ShiftCRC
  <1>2. \A crc \in Byte : FourRounds(crc) \in Byte
    BY <1>1 DEF FourRounds
  <1> QED BY <1>2 DEF CRCTable

LEMMA CRC8Steps ==
    ASSUME NEW data \in Seq(Byte)
    PROVE  \E F \in [0 .. Len(data) -> Byte] :
               /\ F[0] = 0
               /\ \A i \in 1 .. Len(data) : F[i] = CRCTable[Xor[F[i - 1]][data[i]]]
               /\ CalculateCRC8(data) = F[Len(data)]
  <1> DEFINE n == Len(data)
             step == [i \in 1 .. n |-> [crc \in Byte |-> CRCTable[Xor[crc][data[i]]]]]
             F == CHOOSE crc : crc = [i \in 0 .. n |->
                                 IF i = 0 THEN 0 ELSE CRCTable[Xor[crc[i - 1]][data[i]]]]
  <1>1. /\ n \in Nat /\ 0 \in Byte
        /\ \A i \in 1 .. n : data[i] \in Byte /\ i - 1 \in 0 .. n /\ i \in 0 .. n /\ i # 0
    <2>1. 0 \in Byte
      BY DEF Byte
    <2> QED BY <2>1
  <1>2. \A i \in 1 .. n, crc \in Byte : CRCTable[Xor[crc][data[i]]] \in Byte
    BY <1>1, XorByte, TableByte
  <1>3. PICK g \in [0 .. n -> Byte] : FromLeft(g, n, 0, step)
    <2>1. StepsIn(step, n, Byte)
      BY <1>2 DEF StepsIn
    <2> HIDE DEF n, step
    <2> QED BY <1>1, <2>1, LeftExists
  <1>4. g = [i \in 0 .. n |-> IF i = 0 THEN 0 ELSE CRCTable[Xor[g[i - 1]][data[i]]]]
    <2>1. \A i \in 1 .. n : g[i] = CRCTable[Xor[g[i - 1]][data[i]]]
      <3>1. \A i \in 1 .. n : g[i - 1] \in Byte /\ g[i] = step[i][g[i - 1]]
        BY <1>1, <1>3 DEF FromLeft
      <3> QED BY <3>1
    <2> QED BY <1>3, <2>1 DEF FromLeft
  <1>5. F = [i \in 0 .. n |-> IF i = 0 THEN 0 ELSE CRCTable[Xor[F[i - 1]][data[i]]]]
    BY <1>4, Zenon
  <1>6. CalculateCRC8(data) = F[n]
    BY DEF CalculateCRC8
  <1> HIDE DEF F
  <1>7. F[0] = 0 /\ \A i \in 1 .. n : F[i] = CRCTable[Xor[F[i - 1]][data[i]]]
    <2> HIDE DEF n
    <2>1. 0 \in 0 .. n
      BY <1>1
    <2> QED BY <1>1, <1>5, <2>1
  <1>8. \A i \in 0 .. n : F[i] \in Byte
    <2>1. F[0] \in Byte /\ \A i \in 1 .. n : F[i - 1] \in Byte => F[i] \in Byte
      BY <1>1, <1>2, <1>7
    <2> HIDE DEF n
    <2> QED BY <1>1, <2>1, LeftStaysIn
  <1>9. F \in [0 .. n -> Byte]
    BY <1>5, <1>8
  <1> QED BY <1>6, <1>7, <1>9

LEMMA CRC8Byte ==
    ASSUME NEW data \in Seq(Byte)
    PROVE  CalculateCRC8(data) \in Byte
  BY CRC8Steps

LEMMA OnesRange == \A byte \in Byte : Ones(byte) \in 0 .. 8
  <1> SUFFICES ASSUME NEW byte \in Byte PROVE Ones(byte) \in 0 .. 8
    OBVIOUS
  <1> DEFINE Bit(w) == (byte \div w) % 2
  <1>1. \A w \in Weight : Bit(w) \in 0 .. 1
    BY DEF Byte, Weight
  <1>2. Ones(byte) = Bit(1) + Bit(2) + Bit(4) + Bit(8) + Bit(16) + Bit(32) + Bit(64) + Bit(128)
    BY DEF Ones
  <1> HIDE DEF Bit
  <1> QED BY <1>1, <1>2 DEF Weight

LEMMA ChecksumSteps ==
    ASSUME NEW data \in Seq(Byte)
    PROVE  \E F \in [0 .. Len(data) -> Byte] :
               /\ F[0] = 0
               /\ \A i \in 1 .. Len(data) : F[i] = (F[i - 1] + Ones(data[i])) % 256
               /\ Calculate2BitChecksum(data) = F[Len(data)] % 4
  <1> DEFINE n == Len(data)
             step == [i \in 1 .. n |-> [total \in Byte |-> (total + Ones(data[i])) % 256]]
             F == CHOOSE total : total = [i \in 0 .. n |->
                                 IF i = 0 THEN 0 ELSE (total[i - 1] + Ones(data[i])) % 256]
  <1>1. /\ n \in Nat /\ 0 \in Byte
        /\ \A i \in 1 .. n : data[i] \in Byte /\ i - 1 \in 0 .. n /\ i \in 0 .. n /\ i # 0
    <2>1. 0 \in Byte
      BY DEF Byte
    <2> QED BY <2>1
  <1>2. \A i \in 1 .. n, total \in Byte : (total + Ones(data[i])) % 256 \in Byte
    <2>1. \A i \in 1 .. n : Ones(data[i]) \in 0 .. 8
      BY <1>1, OnesRange
    <2>2. \A total \in Byte, ones \in 0 .. 8 : (total + ones) % 256 \in Byte
      BY DEF Byte
    <2> QED BY <2>1, <2>2
  <1>3. PICK g \in [0 .. n -> Byte] : FromLeft(g, n, 0, step)
    <2>1. StepsIn(step, n, Byte)
      BY <1>2 DEF StepsIn
    <2> HIDE DEF n, step
    <2> QED BY <1>1, <2>1, LeftExists
  <1>4. g = [i \in 0 .. n |-> IF i = 0 THEN 0 ELSE (g[i - 1] + Ones(data[i])) % 256]
    <2>1. \A i \in 1 .. n : g[i] = (g[i - 1] + Ones(data[i])) % 256
      <3>1. \A i \in 1 .. n : g[i - 1] \in Byte /\ g[i] = step[i][g[i - 1]]
        BY <1>1, <1>3 DEF FromLeft
      <3> QED BY <3>1
    <2> QED BY <1>3, <2>1 DEF FromLeft
  <1>5. F = [i \in 0 .. n |-> IF i = 0 THEN 0 ELSE (F[i - 1] + Ones(data[i])) % 256]
    BY <1>4, ZenonT(30)
  <1>6. Calculate2BitChecksum(data) = F[n] % 4
    BY DEF Calculate2BitChecksum
  <1> HIDE DEF F
  <1>7. F[0] = 0 /\ \A i \in 1 .. n : F[i] = (F[i - 1] + Ones(data[i])) % 256
    <2> HIDE DEF n
    <2>1. 0 \in 0 .. n
      BY <1>1
    <2> QED BY <1>1, <1>5, <2>1
  <1>8. \A i \in 0 .. n : F[i] \in Byte
    <2>1. F[0] \in Byte /\ \A i \in 1 .. n : F[i - 1] \in Byte => F[i] \in Byte
      BY <1>1, <1>2, <1>7
    <2> HIDE DEF n
    <2> QED BY <1>1, <2>1, LeftStaysIn
  <1>9. F \in [0 .. n -> Byte]
    BY <1>5, <1>8
  <1> QED BY <1>6, <1>7, <1>9

LEMMA ChecksumRange ==
    ASSUME NEW data \in Seq(Byte)
    PROVE  Calculate2BitChecksum(data) \in 0 .. 3
  <1>1. PICK total \in Byte : Calculate2BitChecksum(data) = total % 4
    <2>1. PICK F \in [0 .. Len(data) -> Byte] : Calculate2BitChecksum(data) = F[Len(data)] % 4
      BY ChecksumSteps
    <2>2. Len(data) \in 0 .. Len(data)
      OBVIOUS
    <2> QED BY <2>1, <2>2
  <1> QED BY <1>1 DEF Byte

\* A tag and what was tagged are found in the byte again.
LEMMA TaggedParts ==
    ASSUME NEW value \in 0 .. 63, NEW checksum \in 0 .. 3
    PROVE  /\ Tagged(value, checksum) \in Byte
           /\ Tagged(value, checksum) \div 4 = value
           /\ Tagged(value, checksum) % 4 = checksum
  BY DEF Tagged, Byte

-----------------------------------------------------------------------------
(* COBS::encode.  Position k of the encoded bytes holds a code when it is  *)
(* the first one or stands for a START_BYTE, and else byte k - 1 of the    *)
(* input: the encoding moves nothing but replaces the START_BYTEs.         *)

State == [encoded : Seq(Nat), run : Seq(Nat), index : Nat]

LEMMA BlockIndex ==
    ASSUME NEW run \in Seq(Nat)
    PROVE  /\ Block(run) \in Seq(Nat)
           /\ Len(Block(run)) = Len(run) + 1
           /\ Block(run)[1] = Len(run) + 1
           /\ \A j \in 1 .. Len(run) : Block(run)[j + 1] = run[j]
  <1>1. <<Len(run) + 1>> \in Seq(Nat) /\ Len(<<Len(run) + 1>>) = 1
    OBVIOUS
  <1> QED BY <1>1, ConcatProperties DEF Block

LEMMA PutState ==
    ASSUME NEW s \in State, NEW byte \in Nat
    PROVE  Put(s, byte) \in State
  <1>1. Append(s.run, byte) \in Seq(Nat) /\ s.encoded \in Seq(Nat) /\ s.run \in Seq(Nat)
    BY DEF State
  <1>2. \A run \in Seq(Nat) : s.encoded \o Block(run) \in Seq(Nat)
    BY <1>1, BlockIndex, ConcatProperties
  <1> DEFINE t == [s EXCEPT !.run = Append(@, byte)]
  <1>3. t \in State
    BY <1>1 DEF State
  <1>4. (s.index + 1) % 256 \in Nat /\ s.index \in Nat
    BY DEF State
  <1>5. Close(s, (s.index + 1) % 256) \in State
    BY <1>1, <1>2, <1>4, EmptySeq DEF State, Close
  <1>6. Close(t, t.index) \in State
    <2> HIDE DEF t
    <2>1. t.run \in Seq(Nat) /\ t.encoded \in Seq(Nat) /\ t.index \in Nat
      BY <1>3 DEF State
    <2>2. t.encoded \o Block(t.run) \in Seq(Nat)
      BY <2>1, BlockIndex, ConcatProperties
    <2> QED BY <2>1, <2>2, EmptySeq DEF State, Close
  <1>7. Put(s, byte) \in {Close(s, (s.index + 1) % 256), Close(t, t.index), t}
    BY DEF Put
  <1> QED BY <1>3, <1>5, <1>6, <1>7

LEMMA EncodeSteps ==
    ASSUME NEW input \in Seq(Byte)
    PROVE  \E F \in [0 .. Len(input) -> State] :
               /\ F[0] = Opened
               /\ \A i \in 1 .. Len(input) : F[i] = Put(F[i - 1], input[i])
               /\ EncodeBlocks(input) = Close(F[Len(input)], F[Len(input)].index)
  <1> DEFINE n == Len(input)
             step == [i \in 1 .. n |-> [s \in State |-> Put(s, input[i])]]
             F == CHOOSE after : after = [i \in 0 .. n |->
                                     IF i = 0 THEN Opened ELSE Put(after[i - 1], input[i])]
  <1>1. /\ n \in Nat /\ Opened \in State
        /\ \A i \in 1 .. n : input[i] \in Nat /\ i - 1 \in 0 .. n /\ i \in 0 .. n /\ i # 0
    <2>1. Opened \in State
      BY EmptySeq DEF Opened, State
    <2>2. \A i \in 1 .. n : input[i] \in Byte
      OBVIOUS
    <2>3. \A byte \in Byte : byte \in Nat
      BY DEF Byte
    <2> QED BY <2>1, <2>2, <2>3
  <1>2. \A i \in 1 .. n, s \in State : Put(s, input[i]) \in State
    BY <1>1, PutState
  <1>3. PICK g \in [0 .. n -> State] : FromLeft(g, n, Opened, step)
    <2>1. StepsIn(step, n, State)
      BY <1>2 DEF StepsIn
    <2> HIDE DEF n, step
    <2> QED BY <1>1, <2>1, LeftExists
  <1>4. g = [i \in 0 .. n |-> IF i = 0 THEN Opened ELSE Put(g[i - 1], input[i])]
    <2>1. \A i \in 1 .. n : g[i] = Put(g[i - 1], input[i])
      <3>1. \A i \in 1 .. n : g[i - 1] \in State /\ g[i] = step[i][g[i - 1]]
        BY <1>1, <1>3 DEF FromLeft
      <3> QED BY <3>1
    <2> QED BY <1>3, <2>1 DEF FromLeft
  <1>5. F = [i \in 0 .. n |-> IF i = 0 THEN Opened ELSE Put(F[i - 1], input[i])]
    BY <1>4, Zenon
  <1>6. EncodeBlocks(input) = Close(F[n], F[n].index)
    BY DEF EncodeBlocks
  <1> HIDE DEF F
  <1>7. F[0] = Opened /\ \A i \in 1 .. n : F[i] = Put(F[i - 1], input[i])
    <2> HIDE DEF n
    <2>1. 0 \in 0 .. n
      BY <1>1
    <2> QED BY <1>1, <1>5, <2>1
  <1>8. \A i \in 0 .. n : F[i] \in State
    <2>1. F[0] \in State /\ \A i \in 1 .. n : F[i - 1] \in State => F[i] \in State
      BY <1>1, <1>2, <1>7
    <2> HIDE DEF n
    <2> QED BY <1>1, <2>1, LeftStaysIn
  <1>9. F \in [0 .. n -> State]
    BY <1>5, <1>8
  <1> QED BY <1>6, <1>7, <1>9

Mark(input, k) == k = 1 \/ input[k - 1] = START_BYTE

\* The block that begins at k ends before next.
Spans(input, encoded, k, next) ==
    /\ encoded[k] = next - k
    /\ encoded[k] < START_BYTE
    /\ \A j \in k + 1 .. next - 1 : ~ Mark(input, j)

\* The first e of the encoded bytes are closed blocks; count is the number of
\* START_BYTEs among the first bytes of the input.
Stuffed(input, encoded, count, e) ==
    \A k \in 1 .. e :
        IF Mark(input, k)
        THEN \E next \in k + 1 .. e + 1 :
                /\ Spans(input, encoded, k, next)
                /\ Mark(input, next)
                /\ count[next - 1] = count[k - 1] + 1
        ELSE encoded[k] = input[k - 1]

\* What holds of the state s after i bytes.
Encoding(input, count, s, i) ==
    LET e == Len(s.encoded)
    IN /\ e <= i
       /\ Len(s.run) = i - e
       /\ Mark(input, e + 1)
       /\ \A j \in 1 .. i - e : s.run[j] = input[e + j] /\ input[e + j] # START_BYTE
       /\ count[i] = s.index
       /\ count[i] = count[e]
       /\ count[i] <= i
       /\ Stuffed(input, s.encoded, count, e)

\* The longest input for which no code reaches START_BYTE, nor the length of a full block.
Longest == START_BYTE - 2

IsJoined(all, S, s, m, t, n) ==
    /\ all \in Seq(S)
    /\ Len(all) = m + n
    /\ \A k \in 1 .. m : all[k] = s[k]
    /\ \A k \in 1 .. n : all[m + k] = t[k]

LEMMA Joined ==
    ASSUME NEW S, NEW s \in Seq(S), NEW t \in Seq(S),
           NEW m \in Nat, m = Len(s), NEW n \in Nat, n = Len(t)
    PROVE  IsJoined(s \o t, S, s, m, t, n)
  <1>1. /\ s \o t \in Seq(S)
        /\ Len(s \o t) = m + n
        /\ \A i \in 1 .. m + n : (s \o t)[i] = IF i <= m THEN s[i] ELSE t[i - m]
    BY ConcatProperties
  <1>2. ASSUME NEW k \in 1 .. m PROVE (s \o t)[k] = s[k]
    <2>1. k \in 1 .. m + n /\ k <= m
      OBVIOUS
    <2> QED BY <1>1, <2>1
  <1>3. ASSUME NEW k \in 1 .. n PROVE (s \o t)[m + k] = t[k]
    <2>1. m + k \in 1 .. m + n /\ ~ (m + k <= m) /\ (m + k) - m = k
      OBVIOUS
    <2> QED BY <1>1, <2>1
  <1> QED BY <1>1, <1>2, <1>3 DEF IsJoined

\* A block is put behind others.
IsBehind(all, encoded, run, m, n) ==
    /\ all \in Seq(Nat)
    /\ Len(all) = m + 1 + n
    /\ \A k \in 1 .. m : all[k] = encoded[k]
    /\ all[m + 1] = n + 1
    /\ \A j \in 1 .. n : all[m + 1 + j] = run[j]
LEMMA BlockBehind ==
    ASSUME NEW encoded \in Seq(Nat), NEW run \in Seq(Nat),
           NEW m \in Nat, m = Len(encoded), NEW n \in Nat, n = Len(run)
    PROVE  IsBehind(encoded \o Block(run), encoded, run, m, n)
  <1>1. /\ Block(run) \in Seq(Nat) /\ Len(Block(run)) = Len(run) + 1
        /\ Block(run)[1] = Len(run) + 1
        /\ \A j \in 1 .. Len(run) : Block(run)[j + 1] = run[j]
    BY BlockIndex
  <1>4. /\ encoded \o Block(run) \in Seq(Nat)
        /\ Len(encoded \o Block(run)) = m + (n + 1)
        /\ \A k \in 1 .. m : (encoded \o Block(run))[k] = encoded[k]
        /\ \A k \in 1 .. n + 1 : (encoded \o Block(run))[m + k] = Block(run)[k]
    <2>1. PICK t \in Seq(Nat) : t = Block(run)
      BY <1>1
    <2>2. PICK l \in Nat : l = n + 1
      OBVIOUS
    <2>3. l = Len(t)
      BY <1>1, <2>1, <2>2
    <2>4. /\ encoded \o t \in Seq(Nat)
          /\ Len(encoded \o t) = m + l
          /\ \A k \in 1 .. m : (encoded \o t)[k] = encoded[k]
          /\ \A k \in 1 .. l : (encoded \o t)[m + k] = t[k]
      BY <2>3, Joined DEF IsJoined
    <2> QED BY <2>1, <2>2, <2>4
  <1>5. (encoded \o Block(run))[m + 1] = n + 1
    <2>1. 1 \in 1 .. n + 1
      OBVIOUS
    <2> QED BY <1>1, <1>4, <2>1
  <1>6. ASSUME NEW j \in 1 .. n PROVE (encoded \o Block(run))[m + 1 + j] = run[j]
    <2>1. j + 1 \in 1 .. n + 1 /\ m + (j + 1) = m + 1 + j
      OBVIOUS
    <2> QED BY <1>1, <1>4, <2>1
  <1>7. m + (n + 1) = m + 1 + n
    OBVIOUS
  <1> QED BY <1>4, <1>5, <1>6, <1>7 DEF IsBehind

\* The open block holds the run of the bytes e + 1 .. i, none of which is START_BYTE.
OpenRun(input, all, run, e, l, i) ==
    /\ l = i - e
    /\ all[e + 1] = l + 1
    /\ \A j \in 1 .. l : all[e + 1 + j] = run[j]
    /\ \A j \in 1 .. l : run[j] = input[e + j] /\ input[e + j] # START_BYTE

LEMMA BlockClosed ==
    ASSUME NEW input, NEW all, NEW run, NEW e \in Nat, NEW i \in Nat, NEW l \in Nat,
           i <= Longest, OpenRun(input, all, run, e, l, i)
    PROVE  /\ Spans(input, all, e + 1, i + 2)
           /\ \A k \in e + 2 .. i + 1 : all[k] = input[k - 1] /\ ~ Mark(input, k)
  <1> USE DEF OpenRun
  <1>1. ASSUME NEW k \in e + 2 .. i + 1
        PROVE  all[k] = input[k - 1] /\ ~ Mark(input, k)
    <2>1. PICK j \in 1 .. l : e + 1 + j = k /\ e + j = k - 1
      <3>1. k - e - 1 \in 1 .. l /\ e + 1 + (k - e - 1) = k /\ e + (k - e - 1) = k - 1
        OBVIOUS
      <3> QED BY <3>1
    <2>2. k # 1
      OBVIOUS
    <2> QED BY <2>1, <2>2 DEF Mark
  <1>2. l + 1 = (i + 2) - (e + 1) /\ l + 1 < START_BYTE /\ (e + 1) + 1 = e + 2 /\ (i + 2) - 1 = i + 1
    BY DEF Longest, START_BYTE
  <1>3. \A j \in (e + 1) + 1 .. (i + 2) - 1 : ~ Mark(input, j)
    BY <1>1, <1>2
  <1>4. Spans(input, all, e + 1, i + 2)
    BY <1>2, <1>3 DEF Spans
  <1> QED BY <1>1, <1>4

\* The blocks that are closed stay what they were when the open one is closed behind them.
LEMMA StuffedOn ==
    ASSUME NEW input, NEW encoded, NEW all, NEW count,
           NEW e \in Nat, NEW i \in Nat, e <= i,
           Stuffed(input, encoded, count, e),
           \A k \in 1 .. e : all[k] = encoded[k],
           Mark(input, e + 1), Spans(input, all, e + 1, i + 2),
           \A k \in e + 2 .. i + 1 : all[k] = input[k - 1] /\ ~ Mark(input, k),
           Mark(input, i + 2), count[i + 1] = count[e] + 1
    PROVE  Stuffed(input, all, count, i + 1)
  <1> DEFINE Fits(k, last) ==
                 IF Mark(input, k)
                 THEN \E next \in k + 1 .. last + 1 :
                         /\ Spans(input, all, k, next)
                         /\ Mark(input, next)
                         /\ count[next - 1] = count[k - 1] + 1
                 ELSE all[k] = input[k - 1]
  <1> SUFFICES ASSUME NEW k \in 1 .. i + 1 PROVE Fits(k, i + 1)
    BY DEF Stuffed
  <1>1. CASE k \in 1 .. e
    <2>1. all[k] = encoded[k]
      BY <1>1
    <2>2. CASE Mark(input, k)
      <3>1. PICK next \in k + 1 .. e + 1 :
                Spans(input, encoded, k, next) /\ Mark(input, next) /\ count[next - 1] = count[k - 1] + 1
        BY <1>1, <2>2 DEF Stuffed
      <3>2. Spans(input, all, k, next)
        BY <2>1, <3>1 DEF Spans
      <3>3. next \in k + 1 .. (i + 1) + 1
        OBVIOUS
      <3> QED BY <2>2, <3>1, <3>2, <3>3
    <2>3. CASE ~ Mark(input, k)
      <3>1. encoded[k] = input[k - 1]
        BY <1>1, <2>3 DEF Stuffed
      <3> QED BY <2>1, <2>3, <3>1
    <2> QED BY <2>2, <2>3
  <1>2. CASE k = e + 1
    <2>1. i + 2 \in k + 1 .. (i + 1) + 1 /\ (i + 2) - 1 = i + 1 /\ k - 1 = e
      BY <1>2
    <2>2. Spans(input, all, k, i + 2) /\ count[(i + 2) - 1] = count[k - 1] + 1
      BY <1>2, <2>1
    <2> QED BY <2>1, <2>2
  <1>3. CASE k \in e + 2 .. i + 1
    <2>1. all[k] = input[k - 1] /\ ~ Mark(input, k)
      BY <1>3
    <2> QED BY <2>1
  <1> QED BY <1>1, <1>2, <1>3

\* What encode returns: encoded, of one byte more than the n bytes of the input.
Encoded(input, encoded, count, n) ==
    \A k \in 1 .. n + 1 :
        IF Mark(input, k)
        THEN \E next \in k + 1 .. n + 2 :
                /\ Spans(input, encoded, k, next)
                /\ IF next = n + 2 THEN count[n] = count[k - 1]
                   ELSE Mark(input, next) /\ count[next - 1] = count[k - 1] + 1
        ELSE encoded[k] = input[k - 1]

LEMMA StuffedLast ==
    ASSUME NEW input, NEW encoded, NEW all, NEW count,
           NEW e \in Nat, NEW n \in Nat, e <= n,
           Stuffed(input, encoded, count, e),
           \A k \in 1 .. e : all[k] = encoded[k],
           Mark(input, e + 1), Spans(input, all, e + 1, n + 2),
           \A k \in e + 2 .. n + 1 : all[k] = input[k - 1] /\ ~ Mark(input, k),
           count[n] = count[e]
    PROVE  Encoded(input, all, count, n)
  <1> DEFINE Fits(k) ==
                 IF Mark(input, k)
                 THEN \E next \in k + 1 .. n + 2 :
                         /\ Spans(input, all, k, next)
                         /\ IF next = n + 2 THEN count[n] = count[k - 1]
                            ELSE Mark(input, next) /\ count[next - 1] = count[k - 1] + 1
                 ELSE all[k] = input[k - 1]
  <1> SUFFICES ASSUME NEW k \in 1 .. n + 1 PROVE Fits(k)
    BY DEF Encoded
  <1>1. CASE k \in 1 .. e
    <2>1. all[k] = encoded[k]
      BY <1>1
    <2>2. CASE Mark(input, k)
      <3>1. PICK next \in k + 1 .. e + 1 :
                Spans(input, encoded, k, next) /\ Mark(input, next) /\ count[next - 1] = count[k - 1] + 1
        BY <1>1, <2>2 DEF Stuffed
      <3>2. Spans(input, all, k, next)
        BY <2>1, <3>1 DEF Spans
      <3>3. next \in k + 1 .. n + 2 /\ next # n + 2
        OBVIOUS
      <3> QED BY <2>2, <3>1, <3>2, <3>3
    <2>3. CASE ~ Mark(input, k)
      <3>1. encoded[k] = input[k - 1]
        BY <1>1, <2>3 DEF Stuffed
      <3> QED BY <2>1, <2>3, <3>1
    <2> QED BY <2>2, <2>3
  <1>2. CASE k = e + 1
    <2>1. n + 2 \in k + 1 .. n + 2 /\ k - 1 = e
      BY <1>2
    <2>2. Spans(input, all, k, n + 2) /\ count[n] = count[k - 1]
      BY <1>2, <2>1
    <2> QED BY <2>1, <2>2
  <1>3. CASE k \in e + 2 .. n + 1
    <2>1. all[k] = input[k - 1] /\ ~ Mark(input, k)
      BY <1>3
    <2> QED BY <2>1
  <1> QED BY <1>1, <1>2, <1>3

LEMMA OpenParts ==
    ASSUME NEW input, NEW count, NEW i \in Nat, NEW s \in State, Encoding(input, count, s, i)
    PROVE  \E e, l \in Nat, encoded, run \in Seq(Nat), index \in Nat :
               /\ s = [encoded |-> encoded, run |-> run, index |-> index]
               /\ e = Len(encoded) /\ l = Len(run) /\ e <= i /\ l = i - e
               /\ Mark(input, e + 1)
               /\ \A j \in 1 .. l : run[j] = input[e + j] /\ input[e + j] # START_BYTE
               /\ count[i] = index /\ count[i] = count[e] /\ index <= i
               /\ Stuffed(input, encoded, count, e)
  <1>1. s.encoded \in Seq(Nat) /\ s.run \in Seq(Nat) /\ s.index \in Nat
    BY DEF State
  <1>2. PICK e \in Nat : e = Len(s.encoded)
    BY <1>1
  <1>3. PICK l \in Nat : l = Len(s.run)
    BY <1>1
  <1>4. s = [encoded |-> s.encoded, run |-> s.run, index |-> s.index]
    BY DEF State
  <1>5. /\ e <= i /\ l = i - e
        /\ Mark(input, e + 1)
        /\ \A j \in 1 .. l : s.run[j] = input[e + j] /\ input[e + j] # START_BYTE
        /\ count[i] = s.index /\ count[i] = count[e] /\ s.index <= i
        /\ Stuffed(input, s.encoded, count, e)
    BY <1>2, <1>3 DEF Encoding
  <1> QED BY <1>1, <1>2, <1>3, <1>4, <1>5

LEMMA EncodingStep ==
    ASSUME NEW input, NEW count, NEW i \in Nat, NEW s \in State, NEW t
    PROVE  /\ i < Longest /\ input[i + 1] \in Nat
           /\ Encoding(input, count, s, i)
           /\ t = Put(s, input[i + 1])
           /\ count[i + 1] = t.index
           => Encoding(input, count, t, i + 1)
  <1>0. SUFFICES ASSUME i < Longest, input[i + 1] \in Nat, Encoding(input, count, s, i),
                        t = Put(s, input[i + 1]), count[i + 1] = t.index
                 PROVE  Encoding(input, count, t, i + 1)
    OBVIOUS
  <1>1. PICK e, l \in Nat, encoded, run \in Seq(Nat), index \in Nat :
               /\ s = [encoded |-> encoded, run |-> run, index |-> index]
               /\ e = Len(encoded) /\ l = Len(run) /\ e <= i /\ l = i - e
               /\ Mark(input, e + 1)
               /\ \A j \in 1 .. l : run[j] = input[e + j] /\ input[e + j] # START_BYTE
               /\ count[i] = index /\ count[i] = count[e] /\ index <= i
               /\ Stuffed(input, encoded, count, e)
    BY <1>0, OpenParts, ZenonT(40)
  <1> DEFINE byte == input[i + 1]
             all == encoded \o Block(run)
             further == Append(run, byte)
  <1>a. e = Len(encoded) /\ l = Len(run)
    BY <1>1
  <1>b. e <= i /\ l = i - e /\ index <= i /\ i < 168
    BY <1>0, <1>1 DEF Longest, START_BYTE
  <1>c. \A j \in 1 .. l : run[j] = input[e + j] /\ input[e + j] # START_BYTE
    BY <1>1
  <1>2. CASE byte = START_BYTE
    <2>1. t = [encoded |-> all, run |-> <<>>, index |-> (index + 1) % 256]
      BY <1>0, <1>1, <1>2 DEF Put, Close
    <2>2. (index + 1) % 256 = index + 1 /\ index + 1 <= i + 1
      BY <1>b
    <2>3. /\ all \in Seq(Nat) /\ Len(all) = e + 1 + l
          /\ \A k \in 1 .. e : all[k] = encoded[k]
          /\ all[e + 1] = l + 1
          /\ \A j \in 1 .. l : all[e + 1 + j] = run[j]
      <3>1. IsBehind(all, encoded, run, e, l)
        BY <1>a, BlockBehind
      <3> QED BY <3>1 DEF IsBehind
    <2>4. /\ Spans(input, all, e + 1, i + 2)
          /\ \A k \in e + 2 .. i + 1 : all[k] = input[k - 1] /\ ~ Mark(input, k)
      <3> HIDE DEF all
      <3>1. i <= Longest
        BY <1>b DEF Longest, START_BYTE
      <3>2. OpenRun(input, all, run, e, l, i)
        BY <1>b, <1>c, <2>3 DEF OpenRun
      <3> QED BY <3>1, <3>2, BlockClosed
    <2>5. Mark(input, i + 2)
      <3>1. (i + 2) - 1 = i + 1
        OBVIOUS
      <3> QED BY <1>2, <3>1 DEF Mark
    <2>6. count[i + 1] = count[e] + 1
      BY <1>0, <1>1, <2>1, <2>2
    <2>7. Stuffed(input, all, count, i + 1)
      <3> HIDE DEF all
      <3> QED BY <1>1, <2>3, <2>4, <2>5, <2>6, StuffedOn
    <2>8. Len(all) = i + 1 /\ (i + 1) - (i + 1) = 0 /\ (i + 1) + 1 = i + 2
      <3>1. e + 1 + l = i + 1
        BY <1>b
      <3> QED BY <2>3, <3>1
    <2>9. Len(<<>>) = 0
      OBVIOUS
    <2>10. t.encoded = all /\ t.run = <<>> /\ t.index = index + 1 /\ count[i + 1] = index + 1
      BY <1>0, <2>1, <2>2, SMTT(30)
    <2> HIDE DEF all
    <2> QED BY <2>2, <2>5, <2>7, <2>8, <2>9, <2>10 DEF Encoding
  <1>3. CASE byte # START_BYTE
    <2>1. /\ further \in Seq(Nat) /\ Len(further) = l + 1
          /\ \A j \in 1 .. l : further[j] = run[j]
          /\ further[l + 1] = byte
      BY <1>0, <1>a, AppendProperties
    <2>2. t = [encoded |-> encoded, run |-> further, index |-> index]
      <3>1. Len(further) + 1 # 255
        BY <1>b, <2>1
      <3> QED BY <1>0, <1>1, <1>3, <3>1 DEF Put
    <2>3. l + 1 = (i + 1) - e /\ e <= i + 1 /\ index <= i + 1
      BY <1>1
    <2>4. \A j \in 1 .. l + 1 : further[j] = input[e + j] /\ input[e + j] # START_BYTE
      <3>1. e + (l + 1) = i + 1
        BY <1>1
      <3>2. \A j \in 1 .. l + 1 : j \in 1 .. l \/ j = l + 1
        OBVIOUS
      <3> HIDE DEF further
      <3> QED BY <1>1, <1>3, <2>1, <3>1, <3>2
    <2>5. /\ t.encoded = encoded /\ t.run = further /\ t.index = index
          /\ count[i + 1] = index /\ count[i + 1] = count[e]
      BY <1>0, <1>1, <2>2
    <2> HIDE DEF further
    <2> QED BY <1>1, <1>a, <2>1, <2>3, <2>4, <2>5 DEF Encoding
  <1> QED BY <1>2, <1>3

\* What is known of r, the value of EncodeBlocks.
IsEncoding(input, n, r, count) ==
    /\ r.encoded \in Seq(Nat) /\ Len(r.encoded) = n + 1
    /\ r.index = count[n] /\ r.index \in 0 .. n
    /\ count[0] = 0 /\ \A i \in 0 .. n : count[i] \in Nat
    /\ Encoded(input, r.encoded, count, n)

LEMMA EncodingLast ==
    ASSUME NEW input, NEW count, NEW n \in Nat, NEW s \in State
    PROVE  /\ n <= Longest
           /\ Encoding(input, count, s, n)
           /\ count[0] = 0
           /\ \A i \in 0 .. n : count[i] \in Nat
           => IsEncoding(input, n, Close(s, s.index), count)
  <1>0. SUFFICES ASSUME n <= Longest, Encoding(input, count, s, n),
                        count[0] = 0, \A i \in 0 .. n : count[i] \in Nat
                 PROVE  IsEncoding(input, n, Close(s, s.index), count)
    OBVIOUS
  <1>1. PICK e, l \in Nat, encoded, run \in Seq(Nat), index \in Nat :
               /\ s = [encoded |-> encoded, run |-> run, index |-> index]
               /\ e = Len(encoded) /\ l = Len(run) /\ e <= n /\ l = n - e
               /\ Mark(input, e + 1)
               /\ \A j \in 1 .. l : run[j] = input[e + j] /\ input[e + j] # START_BYTE
               /\ count[n] = index /\ count[n] = count[e] /\ index <= n
               /\ Stuffed(input, encoded, count, e)
    BY <1>0, OpenParts
  <1> DEFINE all == encoded \o Block(run)
  <1>2. IsBehind(all, encoded, run, e, l)
    <2>1. e = Len(encoded) /\ l = Len(run)
      BY <1>1
    <2> QED BY <2>1, BlockBehind
  <1>3. /\ all \in Seq(Nat) /\ Len(all) = e + 1 + l
        /\ \A k \in 1 .. e : all[k] = encoded[k]
        /\ all[e + 1] = l + 1
        /\ \A j \in 1 .. l : all[e + 1 + j] = run[j]
    BY <1>2 DEF IsBehind
  <1>4. Close(s, s.index) = [encoded |-> all, run |-> <<>>, index |-> index]
    BY <1>1 DEF Close
  <1> HIDE DEF all
  <1>5. e <= n /\ l = n - e /\ index <= n
    BY <1>1
  <1>6. /\ Spans(input, all, e + 1, n + 2)
        /\ \A k \in e + 2 .. n + 1 : all[k] = input[k - 1] /\ ~ Mark(input, k)
    <2>1. OpenRun(input, all, run, e, l, n)
      BY <1>1, <1>3 DEF OpenRun
    <2> QED BY <1>0, <2>1, BlockClosed
  <1>7. Encoded(input, all, count, n)
    BY <1>1, <1>3, <1>6, StuffedLast
  <1>8. Len(all) = n + 1
    <2>1. e + 1 + l = n + 1
      BY <1>5
    <2> QED BY <1>3, <2>1
  <1>9. index = count[n] /\ index \in 0 .. n
    BY <1>1, <1>5
  <1> QED BY <1>0, <1>3, <1>4, <1>7, <1>8, <1>9 DEF IsEncoding

LEMMA EncodeBlocksResult ==
    ASSUME NEW input \in Seq(Byte), Len(input) <= Longest
    PROVE  \E count : IsEncoding(input, Len(input), EncodeBlocks(input), count)
  <1>1. PICK n \in Nat : n = Len(input)
    OBVIOUS
  <1>2. PICK F \in [0 .. n -> State] :
               /\ F[0] = Opened
               /\ \A i \in 1 .. n : F[i] = Put(F[i - 1], input[i])
               /\ EncodeBlocks(input) = Close(F[n], F[n].index)
    BY <1>1, EncodeSteps
  <1> DEFINE count == [i \in 0 .. n |-> F[i].index]
             G == {i \in 0 .. n : Encoding(input, count, F[i], i)}
  <1>3. 0 \in G
    <2>1. Encoding(input, count, Opened, 0)
      <3>1. /\ Len(Opened.encoded) = 0 /\ Len(Opened.run) = 0 /\ Opened.index = 0
            /\ count[0] = 0
        BY <1>2 DEF Opened
      <3>2. Mark(input, 0 + 1)
        BY DEF Mark
      <3> HIDE DEF count
      <3> QED BY <3>1, <3>2 DEF Encoding, Stuffed
    <2> QED BY <1>2, <2>1
  <1>4. ASSUME NEW i \in 0 .. n - 1, i \in G PROVE i + 1 \in G
    <2>1. i \in Nat /\ i + 1 \in 1 .. n /\ (i + 1) - 1 = i /\ i \in 0 .. n /\ i + 1 \in 0 .. n
      OBVIOUS
    <2>2. input[i + 1] \in Nat
      <3>1. \A byte \in Byte : byte \in Nat
        BY DEF Byte
      <3>2. input[i + 1] \in Byte
        BY <1>1, <2>1
      <3> QED BY <3>1, <3>2
    <2>3. F[i] \in State /\ F[i + 1] = Put(F[i], input[i + 1]) /\ count[i + 1] = F[i + 1].index
      BY <1>2, <2>1
    <2>4. Encoding(input, count, F[i], i)
      BY <1>4
    <2>5. i < Longest
      <3>1. n <= Longest
        BY <1>1
      <3> QED BY <3>1 DEF Longest, START_BYTE
    <2> HIDE DEF count
    <2>6. Encoding(input, count, F[i + 1], i + 1)
      BY <2>1, <2>2, <2>3, <2>4, <2>5, EncodingStep
    <2> QED BY <2>1, <2>6
  <1>5. \A i \in 0 .. n : i \in G
    <2> HIDE DEF G
    <2> QED BY <1>3, <1>4, Upward
  <1>6. n \in 0 .. n /\ 0 \in 0 .. n
    OBVIOUS
  <1>7. Encoding(input, count, F[n], n) /\ F[n] \in State
    BY <1>5, <1>6
  <1>8. count[0] = 0 /\ \A i \in 0 .. n : count[i] \in Nat
    <2>1. \A i \in 0 .. n : F[i].index \in Nat
      BY DEF State
    <2> QED BY <1>2, <1>6, <2>1 DEF Opened
  <1>9. IsEncoding(input, n, Close(F[n], F[n].index), count)
    <2> HIDE DEF count, G
    <2>1. n <= Longest
      BY <1>1
    <2> QED BY <1>7, <1>8, <2>1, EncodingLast
  <1> QED BY <1>1, <1>2, <1>9

LEMMA EncodedBytes ==
    ASSUME NEW input, NEW encoded, NEW count, NEW n \in Nat,
           Encoded(input, encoded, count, n), \A k \in 1 .. n : input[k] \in Byte,
           NEW k \in 1 .. n + 1
    PROVE  encoded[k] \in Byte /\ encoded[k] # START_BYTE /\ (Mark(input, k) => encoded[k] # 0)
  <1>1. CASE Mark(input, k)
    <2>1. PICK next \in k + 1 .. n + 2 : encoded[k] = next - k /\ encoded[k] < START_BYTE
      BY <1>1 DEF Encoded, Spans
    <2>2. encoded[k] \in 1 .. 169
      BY <2>1 DEF START_BYTE
    <2> QED BY <1>1, <2>2 DEF START_BYTE, Byte
  <1>2. CASE ~ Mark(input, k)
    <2>1. encoded[k] = input[k - 1] /\ k # 1 /\ input[k - 1] # START_BYTE
      BY <1>2 DEF Encoded, Mark
    <2>2. k - 1 \in 1 .. n
      BY <2>1
    <2> QED BY <1>2, <2>1, <2>2
  <1> QED BY <1>1, <1>2

-----------------------------------------------------------------------------
(* COBS::decode.                                                           *)

Part == [bytes : Seq(Byte), starts : Nat]

AtMostOne(T) == {S \in SUBSET T : \A x, y \in S : x = y}

\* What the block at i and the parts that may follow it stand for.
Before(encoded, n, i, parts) ==
    LET code == encoded[i]
        next == i + code
        mark == Restored(code, next, n)
    IN IF code = 0 \/ next > n + 1 THEN {}
       ELSE {[bytes |-> SubSeq(encoded, i + 1, next - 1) \o mark \o r.bytes,
              starts |-> Len(mark) + r.starts] : r \in parts}

IsRest(rest, encoded, n) ==
    \A i \in Nat \ {0} :
        rest[i] = IF i > n THEN {[bytes |-> <<>>, starts |-> 0]}
                  ELSE Before(encoded, n, i, rest[i + encoded[i]])

LEMMA BeforeParts ==
    ASSUME NEW encoded \in Seq(Byte), NEW n \in Nat, n = Len(encoded), NEW i \in 1 .. n,
           NEW parts \in AtMostOne(Part)
    PROVE  Before(encoded, n, i, parts) \in AtMostOne(Part)
  <1> DEFINE code == encoded[i]
             next == i + code
             mark == Restored(code, next, n)
             Whole(r) == [bytes |-> SubSeq(encoded, i + 1, next - 1) \o mark \o r.bytes,
                          starts |-> Len(mark) + r.starts]
  <1>1. mark \in Seq(Byte) /\ Len(mark) \in Nat
    <2>1. START_BYTE \in Byte
      BY DEF START_BYTE, Byte
    <2> QED BY <2>1 DEF Restored
  <1>2. code \in Nat
    <2>1. \A byte \in Byte : byte \in Nat
      BY DEF Byte
    <2>2. code \in Byte
      OBVIOUS
    <2> QED BY <2>1, <2>2
  <1> HIDE DEF mark
  <1>3. ASSUME ~ (code = 0 \/ next > n + 1), NEW r \in parts PROVE Whole(r) \in Part
    <2>1. i + 1 \in 1 .. n + 1 /\ next - 1 \in i .. n
      BY <1>2, <1>3
    <2>2. SubSeq(encoded, i + 1, next - 1) \in Seq(Byte)
      <3> HIDE DEF next
      <3> QED BY <2>1, SubSeqProperties
    <2>3. r.bytes \in Seq(Byte) /\ r.starts \in Nat
      BY DEF Part, AtMostOne
    <2>4. SubSeq(encoded, i + 1, next - 1) \o mark \o r.bytes \in Seq(Byte)
      BY <1>1, <2>2, <2>3, ConcatProperties
    <2> QED BY <1>1, <2>3, <2>4 DEF Part
  <1> HIDE DEF Whole
  <1>4. Before(encoded, n, i, parts) = IF code = 0 \/ next > n + 1 THEN {} ELSE {Whole(r) : r \in parts}
    BY DEF Before, Whole, mark
  <1> HIDE DEF code, next
  <1>5. \A r, s \in parts : r = s
    BY DEF AtMostOne
  <1> QED BY <1>3, <1>4, <1>5 DEF AtMostOne

LEMMA DecodeSteps ==
    ASSUME NEW encoded \in Seq(Byte), NEW n \in Nat, n = Len(encoded)
    PROVE  \E rest :
               /\ IsRest(rest, encoded, n)
               /\ \A i \in 1 .. n + 1 : rest[i] \in AtMostOne(Part)
               /\ \A index : COBSDecode(encoded, index) =
                      {r.bytes : r \in {s \in rest[1] : IndexMatches(s.starts, index)}}
  <1> DEFINE T == AtMostOne(Part)
             b == {[bytes |-> <<>>, starts |-> 0]}
             step == [i \in 1 .. n |-> [parts \in T |-> Before(encoded, n, i, parts)]]
             next == [i \in 1 .. n |-> IF encoded[i] = 0 THEN i + 1 ELSE i + encoded[i]]
             F == CHOOSE rest : rest = [i \in Nat \ {0} |->
                      IF i > n THEN {[bytes |-> <<>>, starts |-> 0]}
                      ELSE LET code == encoded[i]
                               next_1 == i + code
                               mark == Restored(code, next_1, n)
                           IN IF code = 0 \/ next_1 > n + 1 THEN {}
                              ELSE {[bytes |-> SubSeq(encoded, i + 1, next_1 - 1) \o mark \o r.bytes,
                                     starts |-> Len(mark) + r.starts] : r \in rest[next_1]}]
  <1>1. encoded \in Seq(Nat) /\ \A i \in 1 .. n : encoded[i] \in Nat
    <2>1. Byte \subseteq Nat
      BY DEF Byte
    <2>2. encoded \in Seq(Nat)
      BY <2>1, SeqMonotonic, Zenon
    <2> QED BY <2>2
  <1>2. PICK g \in [Nat \ {0} -> T] : FromRight(g, n, b, step, next)
    <2>1. b \in T
      BY EmptySeq DEF Part, AtMostOne
    <2>2. StepsIn(step, n, T)
      <3>1. \A i \in 1 .. n, parts \in T : Before(encoded, n, i, parts) \in T
        BY BeforeParts
      <3> QED BY <3>1 DEF StepsIn
    <2>3. Further(next, n)
      BY <1>1 DEF Further
    <2> HIDE DEF T, b, step, next
    <2> QED BY <2>1, <2>2, <2>3, RightExists
  <1>3. IsRest(g, encoded, n)
    <2> SUFFICES ASSUME NEW i \in Nat \ {0}
                 PROVE  g[i] = IF i > n THEN b ELSE Before(encoded, n, i, g[i + encoded[i]])
      BY DEF IsRest
    <2>1. CASE i > n
      BY <1>2, <2>1 DEF FromRight
    <2>2. CASE i \in 1 .. n
      <3>1. g[i] = step[i][g[next[i]]]
        <4>1. ~ (i > n)
          BY <2>2
        <4> HIDE DEF T, b, step, next
        <4> QED BY <1>2, <4>1 DEF FromRight
      <3>2. PICK j \in Nat \ {0} : j = next[i]
        <4>1. next[i] = IF encoded[i] = 0 THEN i + 1 ELSE i + encoded[i]
          BY <2>2
        <4>2. encoded[i] \in Nat
          BY <1>1, <2>2
        <4>3. (IF encoded[i] = 0 THEN i + 1 ELSE i + encoded[i]) \in Nat \ {0}
          BY <4>2
        <4> HIDE DEF next
        <4> QED BY <4>1, <4>3
      <3>3. g[j] \in T
        <4> HIDE DEF T
        <4> QED OBVIOUS
      <3>4. g[i] = Before(encoded, n, i, g[j])
        <4> HIDE DEF T, next
        <4> QED BY <2>2, <3>1, <3>2, <3>3
      <3>5. CASE encoded[i] = 0
        <4>1. \A parts : Before(encoded, n, i, parts) = {}
          BY <3>5 DEF Before
        <4>2. ~ (i > n)
          BY <2>2
        <4> QED BY <3>4, <4>1, <4>2
      <3>6. CASE encoded[i] # 0
        <4>1. j = i + encoded[i] /\ ~ (i > n)
          BY <2>2, <3>2, <3>6
        <4> HIDE DEF T, b, step, next
        <4> QED BY <3>4, <4>1
      <3> QED BY <3>5, <3>6
    <2> QED BY <2>1, <2>2
  <1>4. g = [i \in Nat \ {0} |->
                      IF i > n THEN {[bytes |-> <<>>, starts |-> 0]}
                      ELSE LET code == encoded[i]
                               next_1 == i + code
                               mark == Restored(code, next_1, n)
                           IN IF code = 0 \/ next_1 > n + 1 THEN {}
                              ELSE {[bytes |-> SubSeq(encoded, i + 1, next_1 - 1) \o mark \o r.bytes,
                                     starts |-> Len(mark) + r.starts] : r \in g[next_1]}]
    BY <1>3 DEF IsRest, Before
  <1>5. F = [i \in Nat \ {0} |->
                      IF i > n THEN {[bytes |-> <<>>, starts |-> 0]}
                      ELSE LET code == encoded[i]
                               next_1 == i + code
                               mark == Restored(code, next_1, n)
                           IN IF code = 0 \/ next_1 > n + 1 THEN {}
                              ELSE {[bytes |-> SubSeq(encoded, i + 1, next_1 - 1) \o mark \o r.bytes,
                                     starts |-> Len(mark) + r.starts] : r \in F[next_1]}]
    BY <1>4, Zenon
  <1>6. \A index : COBSDecode(encoded, index) =
                      {r.bytes : r \in {s \in F[1] : IndexMatches(s.starts, index)}}
    BY DEF COBSDecode
  <1> HIDE DEF F
  <1>7. IsRest(F, encoded, n)
    BY <1>5 DEF IsRest, Before
  <1>8. \A i \in 1 .. n + 1 : F[i] \in T
    <2> DEFINE G == {i \in 1 .. n : F[i] \in T}
    <2>1. \A i \in Nat : i > n => F[i] \in T
      <3>1. b \in T
        BY EmptySeq DEF Part, AtMostOne
      <3>2. \A i \in Nat : i > n => i \in Nat \ {0}
        OBVIOUS
      <3> QED BY <1>7, <3>1, <3>2 DEF IsRest
    <2>2. ASSUME NEW i \in 1 .. n, \A j \in i + 1 .. n : j \in G PROVE i \in G
      <3>1. F[i] = Before(encoded, n, i, F[i + encoded[i]])
        <4>1. i \in Nat \ {0} /\ ~ (i > n)
          OBVIOUS
        <4> QED BY <1>7, <4>1 DEF IsRest
      <3>2. CASE encoded[i] = 0
        <4>1. F[i] = {}
          BY <3>1, <3>2 DEF Before
        <4> QED BY <4>1 DEF AtMostOne
      <3>3. CASE encoded[i] # 0
        <4>1. PICK j \in Nat : j = i + encoded[i] /\ j > i
          BY <1>1, <3>3
        <4>2. F[j] \in T
          <5>1. j > n \/ j \in i + 1 .. n
            BY <4>1
          <5> HIDE DEF T, F
          <5> QED BY <2>1, <2>2, <5>1
        <4> HIDE DEF F
        <4> QED BY <3>1, <4>1, <4>2, BeforeParts
      <3> QED BY <3>2, <3>3
    <2>3. \A i \in 1 .. n : i \in G
      <3> HIDE DEF G
      <3> QED BY <2>2, Downward
    <2>4. n + 1 \in Nat /\ n + 1 > n /\ \A i \in 1 .. n + 1 : i \in 1 .. n \/ i = n + 1
      OBVIOUS
    <2> HIDE DEF T, F
    <2> QED BY <2>1, <2>3, <2>4
  <1> QED BY <1>6, <1>7, <1>8

\* Bytes k + 1 .. m + 1 of the one are bytes k .. m of the other.
LEMMA Shifted ==
    ASSUME NEW S, NEW long, NEW short, NEW k \in Nat, NEW m \in Nat, k <= m + 1,
           \A j \in k .. m : short[j] \in S,
           \A j \in k + 1 .. m + 1 : long[j] = short[j - 1]
    PROVE  SubSeq(long, k + 1, m + 1) = SubSeq(short, k, m)
  <1> DEFINE s == SubSeq(long, k + 1, m + 1)
             t == SubSeq(short, k, m)
             l == (m + 1) - k
  <1>1. \A j \in k + 1 .. m + 1 : long[j] \in S
    <2>1. ASSUME NEW j \in k + 1 .. m + 1 PROVE long[j] \in S
      <3>1. j - 1 \in k .. m
        OBVIOUS
      <3> QED BY <3>1
    <2> QED BY <2>1
  <1>2. /\ s \in Seq(S) /\ Len(s) = l
        /\ \A i \in 1 .. l : s[i] = long[(k + 1) + i - 1]
    <2>1. /\ s \in Seq(S)
          /\ Len(s) = IF k + 1 <= m + 1 THEN (m + 1) - (k + 1) + 1 ELSE 0
          /\ \A i \in 1 .. (m + 1) - (k + 1) + 1 : s[i] = long[(k + 1) + i - 1]
      BY <1>1, SubSeqProperties
    <2>2. (IF k + 1 <= m + 1 THEN (m + 1) - (k + 1) + 1 ELSE 0) = l /\ (m + 1) - (k + 1) + 1 = l
      OBVIOUS
    <2> HIDE DEF s, l
    <2> QED BY <2>1, <2>2
  <1>3. /\ t \in Seq(S) /\ Len(t) = l
        /\ \A i \in 1 .. l : t[i] = short[k + i - 1]
    <2>1. /\ t \in Seq(S)
          /\ Len(t) = IF k <= m THEN m - k + 1 ELSE 0
          /\ \A i \in 1 .. m - k + 1 : t[i] = short[k + i - 1]
      BY SubSeqProperties
    <2>2. (IF k <= m THEN m - k + 1 ELSE 0) = l /\ m - k + 1 = l
      OBVIOUS
    <2> HIDE DEF t, l
    <2> QED BY <2>1, <2>2
  <1>4. ASSUME NEW i \in 1 .. l PROVE s[i] = t[i]
    <2>1. (k + 1) + i - 1 \in k + 1 .. m + 1 /\ ((k + 1) + i - 1) - 1 = k + i - 1
      OBVIOUS
    <2> HIDE DEF s, t
    <2> QED BY <1>2, <1>3, <2>1
  <1> HIDE DEF s, t, l
  <1>5. s = t
    BY <1>2, <1>3, <1>4, SeqEqual
  <1> QED BY <1>5 DEF s, t

LEMMA Mended ==
    ASSUME NEW input \in Seq(Nat), NEW n \in Nat, n = Len(input), NEW k \in 1 .. n, NEW m \in k .. n,
           input[m] = START_BYTE
    PROVE  SubSeq(input, k, m - 1) \o <<START_BYTE>> \o SubSeq(input, m + 1, n) = SubSeq(input, k, n)
  <1>1. SubSeq(input, k, m) = SubSeq(input, k, m - 1) \o <<input[m]>>
    BY SubSeqRecursiveSecond
  <1>2. SubSeq(input, k, m) \o SubSeq(input, m + 1, n) = SubSeq(input, k, n)
    <2>1. k \in 1 .. n + 1 /\ m \in k - 1 .. n /\ n \in m .. n
      OBVIOUS
    <2> QED BY <2>1, ConcatAdjacentSubSeq
  <1> QED BY <1>1, <1>2

\* The blocks from mark k on stand for the input from byte k on.
StandsFor(rest, input, count, n, k) ==
    rest[k] = {[bytes |-> SubSeq(input, k, n), starts |-> count[n] - count[k - 1]]}

BeforeIs(encoded, n, i, next, mark, bytes, starts) ==
    Before(encoded, n, i, {[bytes |-> bytes, starts |-> starts]})
        = {[bytes |-> SubSeq(encoded, i + 1, next - 1) \o mark \o bytes,
            starts |-> Len(mark) + starts]}

LEMMA BeforeOne ==
    ASSUME NEW encoded, NEW n \in Nat, NEW i \in Nat, NEW next \in Nat,
           NEW mark, NEW bytes, NEW starts,
           i + encoded[i] = next, encoded[i] # 0, ~ (next > n + 1),
           Restored(encoded[i], next, n) = mark
    PROVE  BeforeIs(encoded, n, i, next, mark, bytes, starts)
  <1> DEFINE one == [bytes |-> bytes, starts |-> starts]
  <1>1. Before(encoded, n, i, {one}) =
            {[bytes |-> SubSeq(encoded, i + 1, next - 1) \o mark \o r.bytes,
              starts |-> Len(mark) + r.starts] : r \in {one}}
    BY Zenon DEF Before
  <1>2. one.bytes = bytes /\ one.starts = starts
    OBVIOUS
  <1> HIDE DEF one
  <1>3. {[bytes |-> SubSeq(encoded, i + 1, next - 1) \o mark \o r.bytes,
          starts |-> Len(mark) + r.starts] : r \in {one}}
        = {[bytes |-> SubSeq(encoded, i + 1, next - 1) \o mark \o one.bytes,
            starts |-> Len(mark) + one.starts]}
    BY Zenon
  <1> QED BY <1>1, <1>2, <1>3 DEF one, BeforeIs

LEMMA LastBlock ==
    ASSUME NEW input \in Seq(Nat), NEW n \in Nat, n = Len(input), NEW encoded, NEW count, NEW rest,
           IsRest(rest, encoded, n + 1),
           NEW k \in 1 .. n + 1, encoded[k] = (n + 2) - k,
           \A j \in k + 1 .. n + 1 : encoded[j] = input[j - 1],
           count[n] = count[k - 1], count[n] \in Nat
    PROVE  StandsFor(rest, input, count, n, k)
  <1>1. k + encoded[k] = n + 2 /\ encoded[k] # 0 /\ ~ (k > n + 1) /\ ~ (n + 2 > (n + 1) + 1)
        /\ n + 2 > n + 1 /\ ~ (n + 2 <= n + 1) /\ (n + 2) - 1 = n + 1
    OBVIOUS
  <1>2. rest[n + 2] = {[bytes |-> <<>>, starts |-> 0]}
    <2>1. n + 2 \in Nat \ {0} /\ n + 2 > n + 1
      OBVIOUS
    <2> QED BY <2>1 DEF IsRest
  <1>3. rest[k] = Before(encoded, n + 1, k, rest[n + 2])
    <2>1. k \in Nat \ {0}
      OBVIOUS
    <2> QED BY <1>1, <2>1 DEF IsRest
  <1>4. Restored(encoded[k], n + 2, n + 1) = <<>>
    BY <1>1 DEF Restored
  <1>5. rest[k] = {[bytes |-> SubSeq(encoded, k + 1, n + 1) \o <<>> \o <<>>, starts |-> 0 + 0]}
    <2>1. Before(encoded, n + 1, k, {[bytes |-> <<>>, starts |-> 0]})
              = {[bytes |-> SubSeq(encoded, k + 1, (n + 2) - 1) \o <<>> \o <<>>,
                  starts |-> Len(<<>>) + 0]}
      <3>1. PICK l, m \in Nat : l = n + 1 /\ m = n + 2
        OBVIOUS
      <3>2. k \in Nat /\ k + encoded[k] = m /\ encoded[k] # 0 /\ ~ (m > l + 1)
            /\ Restored(encoded[k], m, l) = <<>>
        BY <1>1, <1>4, <3>1
      <3>3. BeforeIs(encoded, l, k, m, <<>>, <<>>, 0)
        BY <3>2, BeforeOne
      <3> QED BY <3>1, <3>3 DEF BeforeIs
    <2>2. Len(<<>>) = 0
      OBVIOUS
    <2> QED BY <1>1, <1>2, <1>3, <2>1, <2>2
  <1>6. SubSeq(encoded, k + 1, n + 1) = SubSeq(input, k, n)
    <2>1. \A j \in k .. n : input[j] \in Nat
      OBVIOUS
    <2>2. k \in Nat /\ k <= n + 1
      OBVIOUS
    <2> QED BY <2>1, <2>2, Shifted
  <1>7. SubSeq(input, k, n) \o <<>> \o <<>> = SubSeq(input, k, n)
    <2>1. SubSeq(input, k, n) \in Seq(Nat)
      <3>1. \A j \in k .. n : input[j] \in Nat
        OBVIOUS
      <3> QED BY <3>1, SubSeqProperties
    <2> QED BY <2>1, ConcatEmptySeq
  <1>8. count[n] - count[k - 1] = 0 + 0
    OBVIOUS
  <1> QED BY <1>5, <1>6, <1>7, <1>8 DEF StandsFor

LEMMA InnerBlock ==
    ASSUME NEW input \in Seq(Nat), NEW n \in Nat, n = Len(input), NEW encoded, NEW count, NEW rest,
           IsRest(rest, encoded, n + 1),
           NEW k \in 1 .. n + 1, NEW next \in k + 1 .. n + 1,
           encoded[k] = next - k, encoded[k] < START_BYTE,
           \A j \in k + 1 .. next - 1 : encoded[j] = input[j - 1],
           input[next - 1] = START_BYTE, StandsFor(rest, input, count, n, next),
           count[next - 1] = count[k - 1] + 1, count[n] \in Nat, count[k - 1] \in Nat
    PROVE  StandsFor(rest, input, count, n, k)
  <1>1. k + encoded[k] = next /\ encoded[k] # 0 /\ ~ (k > n + 1) /\ ~ (next > (n + 1) + 1)
        /\ next <= n + 1 /\ encoded[k] < 255
    <2>1. encoded[k] < 170
      BY DEF START_BYTE
    <2>2. PICK code \in Nat : code = encoded[k] /\ code = next - k /\ code < 170
      BY <2>1
    <2> QED BY <2>2
  <1>2. rest[k] = Before(encoded, n + 1, k, rest[next])
    <2>1. k \in Nat \ {0}
      OBVIOUS
    <2> QED BY <1>1, <2>1 DEF IsRest
  <1>3. Restored(encoded[k], next, n + 1) = <<START_BYTE>>
    BY <1>1 DEF Restored
  <1>4. rest[k] = {[bytes |-> SubSeq(encoded, k + 1, next - 1) \o <<START_BYTE>> \o SubSeq(input, next, n),
                    starts |-> 1 + (count[n] - count[next - 1])]}
    <2>1. Before(encoded, n + 1, k, {[bytes |-> SubSeq(input, next, n), starts |-> count[n] - count[next - 1]]})
              = {[bytes |-> SubSeq(encoded, k + 1, next - 1) \o <<START_BYTE>> \o SubSeq(input, next, n),
                  starts |-> Len(<<START_BYTE>>) + (count[n] - count[next - 1])]}
      <3>1. PICK l \in Nat : l = n + 1
        OBVIOUS
      <3>2. k \in Nat /\ next \in Nat /\ k + encoded[k] = next /\ encoded[k] # 0 /\ ~ (next > l + 1)
            /\ Restored(encoded[k], next, l) = <<START_BYTE>>
        BY <1>1, <1>3, <3>1
      <3>3. BeforeIs(encoded, l, k, next, <<START_BYTE>>, SubSeq(input, next, n),
                     count[n] - count[next - 1])
        BY <3>2, BeforeOne
      <3> QED BY <3>1, <3>3 DEF BeforeIs
    <2>2. Len(<<START_BYTE>>) = 1
      OBVIOUS
    <2> QED BY <1>2, <2>1, <2>2 DEF StandsFor
  <1>5. PICK m \in k .. n : m = next - 1
    <2>1. next - 1 \in k .. n
      OBVIOUS
    <2> QED BY <2>1
  <1>6. SubSeq(encoded, k + 1, next - 1) = SubSeq(input, k, m - 1)
    <2>1. PICK l \in Nat : l = m - 1
      OBVIOUS
    <2>2. \A j \in k .. l : input[j] \in Nat
      BY <2>1, SMTT(30)
    <2>3. k \in Nat /\ k <= l + 1 /\ l + 1 = next - 1
      BY <1>5, <2>1
    <2>4. \A j \in k + 1 .. l + 1 : encoded[j] = input[j - 1]
      BY <2>3
    <2>5. SubSeq(encoded, k + 1, l + 1) = SubSeq(input, k, l)
      BY <2>2, <2>3, <2>4, Shifted
    <2> QED BY <2>1, <2>3, <2>5
  <1>7. SubSeq(input, k, m - 1) \o <<START_BYTE>> \o SubSeq(input, next, n) = SubSeq(input, k, n)
    <2>1. input[m] = START_BYTE /\ m + 1 = next /\ k \in 1 .. n
      BY <1>5
    <2>2. SubSeq(input, k, m - 1) \o <<START_BYTE>> \o SubSeq(input, m + 1, n) = SubSeq(input, k, n)
      BY <2>1, Mended
    <2> QED BY <2>1, <2>2
  <1>8. 1 + (count[n] - count[next - 1]) = count[n] - count[k - 1]
    <2>1. PICK c \in Nat : c = count[k - 1]
      OBVIOUS
    <2>2. PICK d \in Nat : d = count[n]
      OBVIOUS
    <2>3. count[next - 1] = c + 1
      BY <2>1
    <2>4. 1 + (d - (c + 1)) = d - c
      OBVIOUS
    <2> QED BY <2>1, <2>2, <2>3, <2>4
  <1> QED BY <1>4, <1>6, <1>7, <1>8 DEF StandsFor

LEMMA DecodeFrom ==
    ASSUME NEW input \in Seq(Nat), NEW n \in Nat, n = Len(input), NEW encoded, NEW count, NEW rest,
           Encoded(input, encoded, count, n), IsRest(rest, encoded, n + 1),
           \A i \in 0 .. n : count[i] \in Nat
    PROVE  \A k \in 1 .. n + 1 : Mark(input, k) => StandsFor(rest, input, count, n, k)
  <1> DEFINE G == {k \in 1 .. n + 1 : Mark(input, k) => StandsFor(rest, input, count, n, k)}
  <1>1. ASSUME NEW k \in 1 .. n + 1, \A j \in k + 1 .. n + 1 : j \in G PROVE k \in G
    <2> SUFFICES ASSUME Mark(input, k) PROVE StandsFor(rest, input, count, n, k)
      OBVIOUS
    <2>1. PICK next \in k + 1 .. n + 2 :
              /\ Spans(input, encoded, k, next)
              /\ IF next = n + 2 THEN count[n] = count[k - 1]
                 ELSE Mark(input, next) /\ count[next - 1] = count[k - 1] + 1
      BY DEF Encoded
    <2>2. /\ encoded[k] = next - k /\ encoded[k] < START_BYTE
          /\ \A j \in k + 1 .. next - 1 : ~ Mark(input, j)
      BY <2>1 DEF Spans
    <2>3. \A j \in k + 1 .. next - 1 : encoded[j] = input[j - 1]
      <3>1. ASSUME NEW j \in k + 1 .. next - 1 PROVE encoded[j] = input[j - 1]
        <4>1. j \in 1 .. n + 1
          OBVIOUS
        <4> QED BY <2>2, <4>1 DEF Encoded
      <3> QED BY <3>1
    <2>4. count[n] \in Nat /\ count[k - 1] \in Nat
      <3>1. n \in 0 .. n /\ k - 1 \in 0 .. n
        OBVIOUS
      <3> QED BY <3>1
    <2>5. CASE next = n + 2
      <3>1. encoded[k] = (n + 2) - k /\ count[n] = count[k - 1]
        BY <2>1, <2>2, <2>5
      <3>2. \A j \in k + 1 .. n + 1 : encoded[j] = input[j - 1]
        BY <2>3, <2>5
      <3> HIDE DEF G
      <3> QED BY <2>4, <3>1, <3>2, LastBlock
    <2>6. CASE next \in k + 1 .. n + 1
      <3>1. Mark(input, next) /\ count[next - 1] = count[k - 1] + 1 /\ next # 1
        BY <2>1, <2>6
      <3>2. StandsFor(rest, input, count, n, next) /\ input[next - 1] = START_BYTE
        BY <1>1, <2>6, <3>1 DEF Mark
      <3> HIDE DEF G
      <3> QED BY <2>2, <2>3, <2>4, <2>6, <3>1, <3>2, InnerBlock
    <2> QED BY <2>5, <2>6
  <1>2. \A k \in 1 .. n + 1 : k \in G
    <2> HIDE DEF G
    <2>1. n + 1 \in Nat
      OBVIOUS
    <2> QED BY <1>1, <2>1, Downward
  <1> QED BY <1>2

\* Up to a length that no packet reaches, encode does not throw, what it writes
\* is a sequence of bytes without START_BYTE, one longer than its input, and decode gives
\* the input back for the number of START_BYTEs that encode counted (COBS.cpp 10-65).
THEOREM COBSRoundTrip ==
    ASSUME NEW input \in Seq(Byte), Len(input) <= Longest
    PROVE  \E r : /\ COBSEncode(input) = {r}
                  /\ r.encoded \in Seq(Byte \ {START_BYTE})
                  /\ Len(r.encoded) = Len(input) + 1
                  /\ r.index \in 0 .. Len(input)
                  /\ COBSDecode(r.encoded, r.index) = {input}
  <1> DEFINE r == EncodeBlocks(input)
  <1>1. PICK n \in Nat : n = Len(input)
    OBVIOUS
  <1>2. PICK count : IsEncoding(input, n, r, count)
    BY <1>1, EncodeBlocksResult
  <1> HIDE DEF r
  <1>3. /\ r.encoded \in Seq(Nat) /\ Len(r.encoded) = n + 1
        /\ r.index = count[n] /\ r.index \in 0 .. n
        /\ count[0] = 0 /\ \A i \in 0 .. n : count[i] \in Nat
        /\ Encoded(input, r.encoded, count, n)
    BY <1>2 DEF IsEncoding
  <1>4. \A k \in 1 .. n : input[k] \in Byte
    BY <1>1
  <1>5. \A k \in 1 .. n + 1 : r.encoded[k] \in Byte \ {START_BYTE}
    BY <1>3, <1>4, EncodedBytes
  <1>6. r.encoded \in Seq(Byte \ {START_BYTE})
    <2>1. PICK l \in Nat : l = n + 1
      OBVIOUS
    <2>2. r.encoded \in [1 .. l -> Nat]
      <3>1. PICK encoded \in Seq(Nat) : encoded = r.encoded /\ Len(encoded) = l
        BY <1>3, <2>1
      <3> QED BY <3>1
    <2>3. r.encoded \in [1 .. l -> Byte \ {START_BYTE}]
      BY <1>5, <2>1, <2>2
    <2> QED BY <2>3, SeqDef
  <1>7. START_BYTE \notin ToSet(r.encoded)
    BY <1>3, <1>5 DEF ToSet
  <1>8. COBSEncode(input) = {r}
    BY <1>7 DEF COBSEncode, r
  <1>9. input \in Seq(Nat)
    <2>1. Byte \subseteq Nat
      BY DEF Byte
    <2> QED BY <2>1, SeqMonotonic, Zenon
  <1>10. COBSDecode(r.encoded, r.index) = {input}
    <2>1. PICK rest :
               /\ IsRest(rest, r.encoded, n + 1)
               /\ \A index : COBSDecode(r.encoded, index) =
                      {p.bytes : p \in {s \in rest[1] : IndexMatches(s.starts, index)}}
      <3>1. r.encoded \in Seq(Byte) /\ n + 1 \in Nat
        BY <1>3, <1>5, SMTT(30)
      <3> QED BY <1>3, <3>1, DecodeSteps
    <2>2. StandsFor(rest, input, count, n, 1)
      <3>1. 1 \in 1 .. n + 1 /\ Mark(input, 1)
        BY DEF Mark
      <3> QED BY <1>1, <1>3, <1>9, <2>1, <3>1, DecodeFrom
    <2>3. rest[1] = {[bytes |-> input, starts |-> r.index]}
      <3>1. count[n] - count[1 - 1] = r.index
        BY <1>3
      <3>2. SubSeq(input, 1, n) = input
        BY <1>1, SubSeqFull
      <3> QED BY <2>2, <3>1, <3>2 DEF StandsFor
    <2>4. {p.bytes : p \in {s \in rest[1] : IndexMatches(s.starts, r.index)}} = {input}
      <3> DEFINE one == [bytes |-> input, starts |-> r.index]
      <3>1. {s \in {one} : IndexMatches(s.starts, r.index)} = {one}
        BY DEF IndexMatches
      <3>2. {p.bytes : p \in {one}} = {input}
        OBVIOUS
      <3> QED BY <2>3, <3>1, <3>2
    <2> QED BY <2>1, <2>4
  <1> QED BY <1>1, <1>3, <1>6, <1>8, <1>10

-----------------------------------------------------------------------------
(* Packet: what assemble makes, disassemble takes apart again.             *)

\* p is encoded between three bytes and one.
IsLaidOut(p, a, b, c, encoded, m, d) ==
    /\ p \in Seq(Byte) /\ Len(p) = m + 4
    /\ p[1] = a /\ p[2] = b /\ p[3] = c /\ p[m + 4] = d
    /\ \A k \in 1 .. m : p[k + 3] = encoded[k]
    /\ SubSeq(p, 4, m + 3) = encoded

LEMMA PacketLayout ==
    ASSUME NEW a \in Byte, NEW b \in Byte, NEW c \in Byte, NEW encoded \in Seq(Byte),
           NEW m \in Nat, m = Len(encoded), NEW d \in Byte
    PROVE  IsLaidOut(<<a, b, c>> \o encoded \o <<d>>, a, b, c, encoded, m, d)
  <1> DEFINE front == <<a, b, c>>
             s == front \o encoded
             p == s \o <<d>>
  <1>1. front \in Seq(Byte) /\ Len(front) = 3 /\ front[1] = a /\ front[2] = b /\ front[3] = c
    OBVIOUS
  <1>2. <<d>> \in Seq(Byte) /\ Len(<<d>>) = 1 /\ <<d>>[1] = d
    OBVIOUS
  <1> HIDE DEF front, s, p
  <1>3. /\ s \in Seq(Byte) /\ Len(s) = 3 + m
        /\ \A k \in 1 .. 3 : s[k] = front[k]
        /\ \A k \in 1 .. m : s[3 + k] = encoded[k]
    <2>1. PICK l \in Nat : l = 3
      OBVIOUS
    <2>2. IsJoined(s, Byte, front, l, encoded, m)
      BY <1>1, <2>1, Joined DEF s
    <2> QED BY <2>1, <2>2 DEF IsJoined
  <1>4. /\ p \in Seq(Byte) /\ Len(p) = (3 + m) + 1
        /\ \A k \in 1 .. 3 + m : p[k] = s[k]
        /\ \A k \in 1 .. 1 : p[(3 + m) + k] = <<d>>[k]
    <2>1. PICK l, o \in Nat : l = 3 + m /\ o = 1
      OBVIOUS
    <2>2. IsJoined(p, Byte, s, l, <<d>>, o)
      BY <1>2, <1>3, <2>1, Joined DEF p
    <2> QED BY <2>1, <2>2 DEF IsJoined
  <1>5. /\ 1 \in 1 .. 3 /\ 2 \in 1 .. 3 /\ 3 \in 1 .. 3
        /\ 1 \in 1 .. 3 + m /\ 2 \in 1 .. 3 + m /\ 3 \in 1 .. 3 + m
        /\ (3 + m) + 1 = m + 4 /\ 1 \in 1 .. 1
    OBVIOUS
  <1>6. p[1] = a /\ p[2] = b /\ p[3] = c /\ p[m + 4] = d /\ Len(p) = m + 4
    BY <1>1, <1>2, <1>3, <1>4, <1>5
  <1>7. ASSUME NEW k \in 1 .. m PROVE p[k + 3] = encoded[k]
    <2>1. k + 3 = 3 + k /\ 3 + k \in 1 .. 3 + m
      OBVIOUS
    <2> QED BY <1>3, <1>4, <2>1
  <1>8. SubSeq(p, 4, m + 3) = encoded
    <2>1. \A j \in 1 .. m : encoded[j] \in Byte
      OBVIOUS
    <2>2. /\ SubSeq(p, 4, m + 3) \in Seq(Byte) /\ Len(SubSeq(p, 4, m + 3)) = m
          /\ \A i \in 1 .. m : SubSeq(p, 4, m + 3)[i] = p[i + 3]
      <3>1. \A i \in 4 .. m + 3 : p[i] \in Byte
        <4>1. \A i \in 4 .. m + 3 : i \in 1 .. m + 4
          OBVIOUS
        <4> QED BY <1>4, <1>6, <4>1
      <3>2. /\ 4 \in Int /\ m + 3 \in Int
            /\ (IF 4 <= m + 3 THEN (m + 3) - 4 + 1 ELSE 0) = m /\ (m + 3) - 4 + 1 = m
            /\ \A i \in 1 .. m : 4 + i - 1 = i + 3
        OBVIOUS
      <3> QED BY <3>1, <3>2, SubSeqProperties
    <2>3. \A i \in 1 .. m : SubSeq(p, 4, m + 3)[i] = encoded[i]
      BY <1>7, <2>2
    <2> QED BY <2>2, <2>3, SeqEqual
  <1>9. IsLaidOut(p, a, b, c, encoded, m, d)
    BY <1>4, <1>6, <1>7, <1>8 DEF IsLaidOut
  <1> QED BY <1>9 DEF p, s, front

\* The packet of a payload of n bytes.
IsPacket(p, payload, r, n) ==
    IsLaidOut(p, START_BYTE, LengthByte(n), Tagged(r.index, Calculate2BitChecksum(r.encoded)),
              r.encoded, n + 1, CalculateCRC8(payload))

\* What COBSRoundTrip finds of r.
IsStuffed(r, payload, n) ==
    /\ COBSEncode(payload) = {r}
    /\ r.encoded \in Seq(Byte \ {START_BYTE})
    /\ Len(r.encoded) = n + 1
    /\ r.index \in 0 .. n
    /\ COBSDecode(r.encoded, r.index) = {payload}

LEMMA AssembleOne ==
    ASSUME NEW payload \in Seq(Byte), NEW n \in 0 .. 28
    PROVE  n = Len(payload) =>
               \E r, p : /\ Assemble(payload) = {p}
                         /\ IsStuffed(r, payload, n) /\ IsPacket(p, payload, r, n)
  <1>1. SUFFICES ASSUME n = Len(payload)
                 PROVE  \E r, p : /\ Assemble(payload) = {p}
                                  /\ IsStuffed(r, payload, n) /\ IsPacket(p, payload, r, n)
    OBVIOUS
  <1>2. PICK r : IsStuffed(r, payload, n)
    <2>1. Len(payload) <= Longest
      <3>1. n <= Longest
        BY DEF Longest, START_BYTE
      <3> QED BY <1>1, <3>1
    <2> QED BY <1>1, <2>1, COBSRoundTrip DEF IsStuffed
  <1>3. /\ r.encoded \in Seq(Byte) /\ n + 1 = Len(r.encoded) /\ n + 1 \in Nat
        /\ r.index \in 0 .. 63 /\ COBSEncode(payload) = {r}
    <2>1. r.encoded \in Seq(Byte)
      <3>1. Byte \ {START_BYTE} \subseteq Byte
        OBVIOUS
      <3> QED BY <1>2, <3>1, SeqMonotonic, Zenon DEF IsStuffed
    <2>2. Len(r.encoded) = n + 1 /\ r.index \in 0 .. n /\ COBSEncode(payload) = {r}
      BY <1>2 DEF IsStuffed
    <2>3. \A i \in 0 .. n : i \in 0 .. 63
      OBVIOUS
    <2>4. r.index \in 0 .. 63
      BY <2>2, <2>3, Zenon
    <2>5. n + 1 \in Nat
      OBVIOUS
    <2> QED BY <2>1, <2>2, <2>4, <2>5
  <1> DEFINE b == LengthByte(n)
             c == Tagged(r.index, Calculate2BitChecksum(r.encoded))
             d == CalculateCRC8(payload)
             p == <<START_BYTE, b, c>> \o r.encoded \o <<d>>
  <1>4. b \in Byte
    <2>1. <<n>> \in Seq(Byte) /\ n \in 0 .. 63
      BY DEF Byte
    <2> QED BY <2>1, ChecksumRange, TaggedParts DEF LengthByte
  <1>5. c \in Byte
    BY <1>3, ChecksumRange, TaggedParts
  <1>6. START_BYTE \in Byte /\ d \in Byte
    BY CRC8Byte DEF START_BYTE, Byte
  <1>7. IsPacket(p, payload, r, n)
    <2> HIDE DEF b, c, d
    <2>1. IsLaidOut(p, START_BYTE, b, c, r.encoded, n + 1, d)
      BY <1>3, <1>4, <1>5, <1>6, PacketLayout
    <2> QED BY <2>1 DEF IsPacket, b, c, d
  <1>8. Assemble(payload) = {p}
    <2>1. {s \in COBSEncode(payload) : Len(payload) <= MAX_PAYLOAD_LENGTH} = {r}
      <3>1. n <= MAX_PAYLOAD_LENGTH
        BY DEF MAX_PAYLOAD_LENGTH
      <3> QED BY <1>1, <1>3, <3>1
    <2>2. Assemble(payload) =
            {<<START_BYTE, LengthByte(Len(payload)),
               Tagged(s.index, Calculate2BitChecksum(s.encoded))>>
                 \o s.encoded \o <<CalculateCRC8(payload)>> : s \in {r}}
      BY <2>1 DEF Assemble
    <2> QED BY <1>1, <2>2, Zenon
  <1> QED BY <1>2, <1>7, <1>8

LEMMA DisassembleOne ==
    ASSUME NEW payload \in Seq(Byte), NEW n \in 0 .. 28, NEW r, NEW p
    PROVE  /\ n = Len(payload)
           /\ IsStuffed(r, payload, n)
           /\ IsPacket(p, payload, r, n)
           => Disassemble(p) = {payload}
  <1>0. SUFFICES ASSUME n = Len(payload), IsStuffed(r, payload, n), IsPacket(p, payload, r, n)
                 PROVE  Disassemble(p) = {payload}
    OBVIOUS
  <1> DEFINE b == LengthByte(n)
             c == Tagged(r.index, Calculate2BitChecksum(r.encoded))
             d == CalculateCRC8(payload)
  <1>1. /\ p \in Seq(Byte) /\ Len(p) = (n + 1) + 4
        /\ p[1] = START_BYTE /\ p[2] = b /\ p[3] = c /\ p[(n + 1) + 4] = d
        /\ SubSeq(p, 4, (n + 1) + 3) = r.encoded
    <2> HIDE DEF b, c, d
    <2>1. IsLaidOut(p, START_BYTE, b, c, r.encoded, n + 1, d)
      BY <1>0 DEF IsPacket, b, c, d
    <2> QED BY <2>1 DEF IsLaidOut
  <1>2. b \div 4 = n
    <2>1. <<n>> \in Seq(Byte) /\ n \in 0 .. 63
      BY DEF Byte
    <2> QED BY <2>1, ChecksumRange, TaggedParts DEF LengthByte
  <1>3. c \div 4 = r.index /\ c % 4 = Calculate2BitChecksum(r.encoded)
    <2>1. r.encoded \in Seq(Byte)
      <3>1. Byte \ {START_BYTE} \subseteq Byte
        OBVIOUS
      <3> QED BY <1>0, <3>1, SeqMonotonic, Zenon DEF IsStuffed
    <2>2. r.index \in 0 .. 63
      <3>1. \A i \in 0 .. n : i \in 0 .. 63
        OBVIOUS
      <3>2. r.index \in 0 .. n
        BY <1>0 DEF IsStuffed
      <3> QED BY <3>1, <3>2, Zenon
    <2> QED BY <2>1, <2>2, ChecksumRange, TaggedParts
  <1>4. COBSDecode(r.encoded, r.index) = {payload}
    BY <1>0 DEF IsStuffed
  <1>5. /\ ~ (Len(p) < 4) /\ Len(p) - 1 = (n + 1) + 3 /\ p[Len(p)] = d
    BY <1>1
  <1>6. LengthByte(b \div 4) = b
    BY <1>2
  <1> HIDE DEF b, c, d
  <1>7. Disassemble(p) = {q \in COBSDecode(SubSeq(p, 4, Len(p) - 1), p[3] \div 4) :
                             Len(q) = p[2] \div 4 /\ PayloadIntact(q, p[Len(p)])}
    BY <1>1, <1>3, <1>5, <1>6 DEF Disassemble
  <1>8. PayloadIntact(payload, d)
    BY DEF PayloadIntact, d
  <1> QED BY <1>0, <1>1, <1>2, <1>3, <1>4, <1>5, <1>7, <1>8

LEMMA NoMarkInside ==
    ASSUME NEW payload \in Seq(Byte), NEW n \in 0 .. 28, NEW r, NEW p
    PROVE  /\ IsStuffed(r, payload, n)
           /\ IsPacket(p, payload, r, n)
           => \A i \in 1 .. Len(p) - 1 : p[i] = START_BYTE <=> i = 1
  <1>0. SUFFICES ASSUME IsStuffed(r, payload, n), IsPacket(p, payload, r, n)
                 PROVE  \A i \in 1 .. Len(p) - 1 : p[i] = START_BYTE <=> i = 1
    OBVIOUS
  <1> DEFINE b == LengthByte(n)
             c == Tagged(r.index, Calculate2BitChecksum(r.encoded))
             d == CalculateCRC8(payload)
  <1>1. /\ Len(p) = (n + 1) + 4
        /\ p[1] = START_BYTE /\ p[2] = b /\ p[3] = c
        /\ \A k \in 1 .. n + 1 : p[k + 3] = r.encoded[k]
    <2> HIDE DEF b, c, d
    <2>1. IsLaidOut(p, START_BYTE, b, c, r.encoded, n + 1, d)
      BY <1>0 DEF IsPacket, b, c, d
    <2> QED BY <2>1 DEF IsLaidOut
  <1>2. b # START_BYTE
    <2>1. <<n>> \in Seq(Byte) /\ n \in 0 .. 63
      BY DEF Byte
    <2>2. b \in Byte /\ b \div 4 = n
      BY <2>1, ChecksumRange, TaggedParts DEF LengthByte
    <2>3. START_BYTE \div 4 = 42
      BY DEF START_BYTE
    <2> HIDE DEF b
    <2> QED BY <2>2, <2>3
  <1>3. r.encoded \in Seq(Byte \ {START_BYTE}) /\ Len(r.encoded) = n + 1 /\ r.index \in 0 .. n
    BY <1>0 DEF IsStuffed
  <1>4. c # START_BYTE
    <2>1. r.encoded \in Seq(Byte)
      <3>1. Byte \ {START_BYTE} \subseteq Byte
        OBVIOUS
      <3> QED BY <1>3, <3>1, SeqMonotonic, Zenon
    <2>2. r.index \in 0 .. 63 /\ r.index # 42
      <3>1. \A i \in 0 .. n : i \in 0 .. 63 /\ i # 42
        OBVIOUS
      <3> QED BY <1>3, <3>1, Zenon
    <2>3. c \div 4 = r.index
      BY <2>1, <2>2, ChecksumRange, TaggedParts
    <2>4. START_BYTE \div 4 = 42
      BY DEF START_BYTE
    <2> HIDE DEF c
    <2> QED BY <2>2, <2>3, <2>4
  <1>5. \A k \in 1 .. n + 1 : r.encoded[k] # START_BYTE
    <2>1. \A k \in 1 .. n + 1 : r.encoded[k] \in Byte \ {START_BYTE}
      BY <1>3
    <2> QED BY <2>1
  <1> HIDE DEF b, c, d
  <1>6. ASSUME NEW i \in 1 .. n + 4 PROVE p[i] = START_BYTE <=> i = 1
    <2>1. CASE i \in 1 .. 3
      BY <1>1, <1>2, <1>4, <2>1
    <2>2. CASE i \in 4 .. n + 4
      <3>1. i - 3 \in 1 .. n + 1 /\ (i - 3) + 3 = i /\ i # 1
        BY <2>2
      <3> QED BY <1>1, <1>5, <3>1
    <2> QED BY <2>1, <2>2
  <1>7. Len(p) - 1 = n + 4
    BY <1>1
  <1> QED BY <1>6, <1>7

\* Every payload a packet can carry is assembled into one packet, in which no byte is a
\* START_BYTE between the first and the checksum at the end, and disassemble gives the
\* payload back (Packet.cpp 21-105).
THEOREM PacketRoundTrip ==
    ASSUME NEW payload \in Seq(Byte), Len(payload) <= MAX_PAYLOAD_LENGTH
    PROVE  \E packet \in Seq(Byte) :
               /\ Assemble(payload) = {packet}
               /\ Len(packet) = Len(payload) + 5
               /\ \A i \in 1 .. Len(packet) - 1 : packet[i] = START_BYTE <=> i = 1
               /\ Disassemble(packet) = {payload}
  <1>1. PICK n \in Nat : n = Len(payload)
    OBVIOUS
  <1>2. n \in 0 .. 28
    <2>1. n <= MAX_PAYLOAD_LENGTH
      BY <1>1
    <2> QED BY <2>1 DEF MAX_PAYLOAD_LENGTH
  <1>3. PICK r, p : Assemble(payload) = {p} /\ IsStuffed(r, payload, n) /\ IsPacket(p, payload, r, n)
    BY <1>1, <1>2, AssembleOne
  <1>4. Disassemble(p) = {payload}
    BY <1>1, <1>2, <1>3, DisassembleOne
  <1>5. \A i \in 1 .. Len(p) - 1 : p[i] = START_BYTE <=> i = 1
    BY <1>2, <1>3, NoMarkInside
  <1>6. p \in Seq(Byte) /\ Len(p) = Len(payload) + 5
    <2>1. p \in Seq(Byte) /\ Len(p) = (n + 1) + 4
      BY <1>3 DEF IsPacket, IsLaidOut
    <2>2. (n + 1) + 4 = n + 5
      OBVIOUS
    <2> QED BY <1>1, <2>1, <2>2
  <1> QED BY <1>3, <1>4, <1>5, <1>6

\* A receiver finds at most one payload in what it gets, whatever that is.
LEMMA COBSDecodeType ==
    ASSUME NEW encoded \in Seq(Byte), NEW index
    PROVE  COBSDecode(encoded, index) \in AtMostOne(Seq(Byte))
  <1>1. PICK n \in Nat : n = Len(encoded)
    OBVIOUS
  <1>2. PICK rest :
            /\ \A i \in 1 .. n + 1 : rest[i] \in AtMostOne(Part)
            /\ COBSDecode(encoded, index) =
                   {r.bytes : r \in {s \in rest[1] : IndexMatches(s.starts, index)}}
    BY <1>1, DecodeSteps
  <1>3. rest[1] \in AtMostOne(Part)
    BY <1>2
  <1>4. \A r \in rest[1] : r.bytes \in Seq(Byte)
    BY <1>3 DEF AtMostOne, Part
  <1>5. \A r, s \in rest[1] : r = s
    BY <1>3 DEF AtMostOne
  <1> QED BY <1>2, <1>4, <1>5 DEF AtMostOne

LEMMA DisassembleType ==
    ASSUME NEW data \in Seq(Byte)
    PROVE  Disassemble(data) \in AtMostOne(Seq(Byte))
  <1> DEFINE encoded == SubSeq(data, 4, Len(data) - 1)
  <1>1. CASE Len(data) < 4
    <2>1. Disassemble(data) = {}
      BY <1>1 DEF Disassemble
    <2> QED BY <2>1 DEF AtMostOne
  <1>2. CASE ~ (Len(data) < 4)
    <2>1. encoded \in Seq(Byte)
      <3>1. PICK n \in Nat : n = Len(data) /\ n >= 4
        BY <1>2
      <3>2. \A i \in 4 .. n - 1 : i \in 1 .. n
        BY <3>1
      <3>3. \A i \in 4 .. n - 1 : data[i] \in Byte
        BY <3>1, <3>2
      <3>4. SubSeq(data, 4, n - 1) \in Seq(Byte)
        <4>1. 4 \in Int /\ n - 1 \in Int
          OBVIOUS
        <4> QED BY <3>3, <4>1, SubSeqProperties
      <3> QED BY <3>1, <3>4
    <2>2. COBSDecode(encoded, data[3] \div 4) \in AtMostOne(Seq(Byte))
      <3> HIDE DEF encoded
      <3> QED BY <2>1, COBSDecodeType
    <2>3. Disassemble(data) \subseteq COBSDecode(encoded, data[3] \div 4)
      BY DEF Disassemble
    <2> HIDE DEF encoded
    <2> QED BY <2>2, <2>3 DEF AtMostOne
  <1> QED BY <1>1, <1>2

-----------------------------------------------------------------------------
(* A packet with a bit inverted or a byte lost is rejected.  A bit changes *)
(* the number of bits set by one, which the 2-bit checksums of the length  *)
(* and of the encoded bytes notice; COBS::decode notices another index,    *)
(* and calculateCRC8 its own byte.  Of n encoded bytes n - 1 are decoded,  *)
(* which is not the length the packet says.  Where the length byte is lost *)
(* the COBS byte takes its place, and only one payload each of 15, 23 and  *)
(* 27 bytes gets as far as the CRC-8, which refuses it.                    *)

\* x is the byte of the bits a (of weight 1) to h (of weight 128).
IsBits(x, a, b, c, d, e, f, g, h) ==
    /\ a \in 0 .. 1 /\ b \in 0 .. 1 /\ c \in 0 .. 1 /\ d \in 0 .. 1
    /\ e \in 0 .. 1 /\ f \in 0 .. 1 /\ g \in 0 .. 1 /\ h \in 0 .. 1
    /\ x = a + 2 * b + 4 * c + 8 * d + 16 * e + 32 * f + 64 * g + 128 * h

LEMMA BitsExist ==
    ASSUME NEW x \in Byte
    PROVE  IsBits(x, x % 2, (x \div 2) % 2, (x \div 4) % 2, (x \div 8) % 2,
                  (x \div 16) % 2, (x \div 32) % 2, (x \div 64) % 2, (x \div 128) % 2)
  BY SMTT(60) DEF IsBits, Byte

LEMMA BitsFound ==
    ASSUME NEW x, NEW a, NEW b, NEW c, NEW d, NEW e, NEW f, NEW g, NEW h,
           IsBits(x, a, b, c, d, e, f, g, h)
    PROVE  /\ x \in Byte
           /\ x % 2 = a /\ (x \div 2) % 2 = b /\ (x \div 4) % 2 = c /\ (x \div 8) % 2 = d
           /\ (x \div 16) % 2 = e /\ (x \div 32) % 2 = f /\ (x \div 64) % 2 = g
           /\ (x \div 128) % 2 = h
           /\ x % 4 = a + 2 * b
           /\ IsBits(x \div 4, c, d, e, f, g, h, 0, 0)
  BY SMTT(60) DEF IsBits, Byte

LEMMA OnesBits ==
    ASSUME NEW x, NEW a, NEW b, NEW c, NEW d, NEW e, NEW f, NEW g, NEW h,
           IsBits(x, a, b, c, d, e, f, g, h)
    PROVE  Ones(x) = a + b + c + d + e + f + g + h
  <1>1. x \div 1 = x
    BY DEF IsBits
  <1>2. /\ (x \div 1) % 2 = a /\ (x \div 2) % 2 = b /\ (x \div 4) % 2 = c /\ (x \div 8) % 2 = d
        /\ (x \div 16) % 2 = e /\ (x \div 32) % 2 = f /\ (x \div 64) % 2 = g
        /\ (x \div 128) % 2 = h
    BY <1>1, BitsFound
  <1> QED BY <1>2 DEF Ones

\* A bit of the byte, and whether it is the one of weight w that is inverted.
Inverted(bit, v, w) == IF v = w THEN 1 - bit ELSE bit

\* The term of Xor for the bit of weight v.
XorBit(x, v, w) == v * ((x \div v + w \div v) % 2)

LEMMA XorBits ==
    ASSUME NEW x \in Byte, NEW w \in Weight, NEW v \in Weight
    PROVE  XorBit(x, v, w) = v * Inverted((x \div v) % 2, v, w)
  <1>1. CASE v \in {1, 2}
    BY <1>1 DEF XorBit, Inverted, Byte, Weight
  <1>2. CASE v \in {4, 8}
    BY <1>2 DEF XorBit, Inverted, Byte, Weight
  <1>3. CASE v \in {16, 32}
    BY <1>3 DEF XorBit, Inverted, Byte, Weight
  <1>4. CASE v \in {64, 128}
    BY <1>4 DEF XorBit, Inverted, Byte, Weight
  <1> QED BY <1>1, <1>2, <1>3, <1>4 DEF Weight

\* Xor with the weight of a bit inverts that bit and no other.
LEMMA BitsInverted ==
    ASSUME NEW x, NEW a, NEW b, NEW c, NEW d, NEW e, NEW f, NEW g, NEW h,
           IsBits(x, a, b, c, d, e, f, g, h), NEW w \in Weight
    PROVE  IsBits(Xor[x][w], Inverted(a, 1, w), Inverted(b, 2, w), Inverted(c, 4, w),
                  Inverted(d, 8, w), Inverted(e, 16, w), Inverted(f, 32, w),
                  Inverted(g, 64, w), Inverted(h, 128, w))
  <1>1. x \in Byte /\ w \in Byte
    BY BitsFound DEF Weight, Byte
  <1>2. Xor[x][w] = XorBit(x, 1, w) + XorBit(x, 2, w) + XorBit(x, 4, w) + XorBit(x, 8, w)
                  + XorBit(x, 16, w) + XorBit(x, 32, w) + XorBit(x, 64, w) + XorBit(x, 128, w)
    BY <1>1 DEF Xor, XorBit
  <1>3. /\ XorBit(x, 1, w) = Inverted(a, 1, w) /\ XorBit(x, 2, w) = 2 * Inverted(b, 2, w)
        /\ XorBit(x, 4, w) = 4 * Inverted(c, 4, w) /\ XorBit(x, 8, w) = 8 * Inverted(d, 8, w)
        /\ XorBit(x, 16, w) = 16 * Inverted(e, 16, w) /\ XorBit(x, 32, w) = 32 * Inverted(f, 32, w)
        /\ XorBit(x, 64, w) = 64 * Inverted(g, 64, w) /\ XorBit(x, 128, w) = 128 * Inverted(h, 128, w)
    <2>1. \A v \in Weight : XorBit(x, v, w) = v * Inverted((x \div v) % 2, v, w)
      BY <1>1, XorBits
    <2>2. /\ 1 \in Weight /\ 2 \in Weight /\ 4 \in Weight /\ 8 \in Weight
          /\ 16 \in Weight /\ 32 \in Weight /\ 64 \in Weight /\ 128 \in Weight
      BY DEF Weight
    <2>3. /\ (x \div 1) % 2 = a /\ (x \div 2) % 2 = b /\ (x \div 4) % 2 = c /\ (x \div 8) % 2 = d
          /\ (x \div 16) % 2 = e /\ (x \div 32) % 2 = f /\ (x \div 64) % 2 = g
          /\ (x \div 128) % 2 = h
      <3>1. x \div 1 = x
        BY <1>1 DEF Byte
      <3> QED BY <3>1, BitsFound
    <2>4. 1 * Inverted(a, 1, w) = Inverted(a, 1, w)
      BY DEF IsBits, Inverted
    <2> QED BY <2>1, <2>2, <2>3, <2>4
  <1> QED BY <1>2, <1>3 DEF IsBits, Inverted

\* Two counts that differ by one.
OneApart(m, n) == m = n + 1 \/ n = m + 1

\* y is x but for one bit: which of the six upper and the two lower bits it is among.
IsInverted(x, y) ==
    /\ y \in Byte
    /\ OneApart(Ones(y), Ones(x))
    /\ \/ y \div 4 = x \div 4 /\ y % 4 # x % 4
       \/ y % 4 = x % 4 /\ OneApart(Ones(y \div 4), Ones(x \div 4)) /\ y \div 4 # x \div 4

LEMMA BitInverted ==
    ASSUME NEW x \in Byte, NEW w \in Weight
    PROVE  IsInverted(x, Xor[x][w])
  <1>1. PICK a, b, c, d, e, f, g, h : IsBits(x, a, b, c, d, e, f, g, h)
    BY BitsExist
  <1>2. PICK y : y = Xor[x][w]
    OBVIOUS
  <1>3. PICK i, j, k, l, m, n, o, p :
            /\ i = Inverted(a, 1, w) /\ j = Inverted(b, 2, w) /\ k = Inverted(c, 4, w)
            /\ l = Inverted(d, 8, w) /\ m = Inverted(e, 16, w) /\ n = Inverted(f, 32, w)
            /\ o = Inverted(g, 64, w) /\ p = Inverted(h, 128, w)
    OBVIOUS
  <1>4. IsBits(y, i, j, k, l, m, n, o, p)
    BY <1>1, <1>2, <1>3, BitsInverted
  <1>5. /\ IsBits(x \div 4, c, d, e, f, g, h, 0, 0) /\ x % 4 = a + 2 * b
        /\ Ones(x) = a + b + c + d + e + f + g + h
        /\ Ones(x \div 4) = c + d + e + f + g + h + 0 + 0
    BY <1>1, BitsFound, OnesBits
  <1>6. /\ IsBits(y \div 4, k, l, m, n, o, p, 0, 0) /\ y % 4 = i + 2 * j /\ y \in Byte
        /\ Ones(y) = i + j + k + l + m + n + o + p
        /\ Ones(y \div 4) = k + l + m + n + o + p + 0 + 0
    BY <1>4, BitsFound, OnesBits
  <1>7. /\ OneApart(i + j + k + l + m + n + o + p, a + b + c + d + e + f + g + h)
        /\ \/ k = c /\ l = d /\ m = e /\ n = f /\ o = g /\ p = h /\ i + 2 * j # a + 2 * b
           \/ i = a /\ j = b /\ OneApart(k + l + m + n + o + p + 0 + 0, c + d + e + f + g + h + 0 + 0)
    BY <1>1, <1>3 DEF IsBits, Inverted, OneApart, Weight
  <1>8. y \div 4 = k + 2 * l + 4 * m + 8 * n + 16 * o + 32 * p + 64 * 0 + 128 * 0
    BY <1>6 DEF IsBits
  <1>9. x \div 4 = c + 2 * d + 4 * e + 8 * f + 16 * g + 32 * h + 64 * 0 + 128 * 0
    BY <1>5 DEF IsBits
  <1>10. OneApart(Ones(y), Ones(x))
    BY <1>5, <1>6, <1>7
  <1>11. CASE k = c /\ l = d /\ m = e /\ n = f /\ o = g /\ p = h /\ i + 2 * j # a + 2 * b
    BY <1>2, <1>5, <1>6, <1>8, <1>9, <1>11, <1>10 DEF IsInverted
  <1>12. CASE i = a /\ j = b /\ OneApart(k + l + m + n + o + p + 0 + 0, c + d + e + f + g + h + 0 + 0)
    <2>1. OneApart(Ones(y \div 4), Ones(x \div 4))
      BY <1>5, <1>6, <1>12
    <2>2. Ones(y \div 4) # Ones(x \div 4)
      <3>1. c + d + e + f + g + h + 0 + 0 \in Nat /\ k + l + m + n + o + p + 0 + 0 \in Nat
        BY <1>1, <1>4 DEF IsBits
      <3>2. \A s, t \in Nat : OneApart(s, t) => s # t
        BY DEF OneApart
      <3> QED BY <1>5, <1>6, <1>12, <3>1, <3>2
    <2> QED BY <1>2, <1>5, <1>6, <1>12, <1>10, <2>1, <2>2 DEF IsInverted
  <1> QED BY <1>7, <1>11, <1>12

\* The addition of a uint8_t.
Plus(x, y) == (x + y) % 256

\* One, and minus one as a uint8_t.
IsUnit(d) == d = 1 \/ d = 255

\* p is o and d more.
IsOne(d, o, p) == (d = 1 /\ p = o + 1) \/ (d = 255 /\ o = p + 1)

\* A total so far, and the bits set in a byte of each of two messages.
Summands(s, o, p) == s \in 0 .. 255 /\ o \in 0 .. 8 /\ p \in 0 .. 8

LEMMA OneMore ==
    ASSUME NEW s, NEW o, NEW p, NEW d, Summands(s, o, p), IsOne(d, o, p)
    PROVE  Plus(s, p) = Plus(Plus(s, o), d)
  <1>1. /\ (s + (o + 1)) % 256 = (((s + o) % 256) + 1) % 256
        /\ (s + p) % 256 = (((s + (p + 1)) % 256) + 255) % 256
    BY DEF Summands
  <1> QED BY <1>1 DEF Plus, IsOne

LEMMA OneKept ==
    ASSUME NEW s, NEW o, NEW d, Summands(s, o, o), IsUnit(d)
    PROVE  Plus(Plus(s, d), o) = Plus(Plus(s, o), d) /\ Plus(s, d) % 4 # s % 4
  <1>1. /\ (((s + 1) % 256) + o) % 256 = (((s + o) % 256) + 1) % 256
        /\ (((s + 255) % 256) + o) % 256 = (((s + o) % 256) + 255) % 256
        /\ ((s + 1) % 256) % 4 # s % 4
        /\ ((s + 255) % 256) % 4 # s % 4
    BY DEF Summands
  <1> QED BY <1>1 DEF Plus, IsUnit

\* F counts the bits set in the first bytes (calculate2BitChecksum).
Totals(F, data, n) ==
    /\ F \in [0 .. n -> 0 .. 255]
    /\ F[0] = 0
    /\ \A i \in 1 .. n : F[i] = Plus(F[i - 1], Ones(data[i]))
    /\ Calculate2BitChecksum(data) = F[n] % 4

LEMMA TotalsExist ==
    ASSUME NEW data \in Seq(Byte), NEW n \in Nat, n = Len(data)
    PROVE  \E F : Totals(F, data, n)
  <1>1. PICK F \in [0 .. n -> Byte] :
            /\ F[0] = 0
            /\ \A i \in 1 .. n : F[i] = (F[i - 1] + Ones(data[i])) % 256
            /\ Calculate2BitChecksum(data) = F[n] % 4
    BY ChecksumSteps
  <1>2. \A i \in 1 .. n : F[i] = Plus(F[i - 1], Ones(data[i]))
    BY <1>1, Zenon DEF Plus
  <1>3. F \in [0 .. n -> 0 .. 255]
    BY <1>1 DEF Byte
  <1> QED BY <1>1, <1>2, <1>3, Zenon DEF Totals

\* Position i is where the n bytes of the two differ, and by one bit.
DifferAt(data, other, n, i) ==
    /\ n = Len(data) /\ n = Len(other)
    /\ OneApart(Ones(other[i]), Ones(data[i]))
    /\ \A j \in 1 .. n : j # i => other[j] = data[j]

\* A number and the other one that it is d away from.
IsOff(F, G, i, j, d) == IF j < i THEN G[j] = F[j] ELSE G[j] = Plus(F[j], d)

\* The 2-bit checksum of two messages that differ by one bit differs.
LEMMA ChecksumInverted ==
    ASSUME NEW data \in Seq(Byte), NEW other \in Seq(Byte), NEW n \in Nat, NEW i \in 1 .. n,
           DifferAt(data, other, n, i)
    PROVE  Calculate2BitChecksum(other) # Calculate2BitChecksum(data)
  <1>1. Len(data) = n /\ Len(other) = n /\ \A j \in 1 .. n : j # i => other[j] = data[j]
    BY DEF DifferAt
  <1>2. PICK F : Totals(F, data, n)
    BY <1>1, TotalsExist
  <1>3. PICK G : Totals(G, other, n)
    BY <1>1, TotalsExist
  <1>4. \A j \in 1 .. n : Ones(data[j]) \in 0 .. 8 /\ Ones(other[j]) \in 0 .. 8
    <2>1. \A j \in 1 .. n : data[j] \in Byte
      BY <1>1
    <2>2. \A j \in 1 .. n : other[j] \in Byte
      BY <1>1
    <2> QED BY <2>1, <2>2, OnesRange
  <1>5. PICK d : IsUnit(d) /\ IsOne(d, Ones(data[i]), Ones(other[i]))
    BY DEF DifferAt, OneApart, IsOne, IsUnit
  <1> DEFINE Off == {j \in 0 .. n : IsOff(F, G, i, j, d)}
  <1>6. 0 \in Off
    BY <1>2, <1>3 DEF IsOff, Totals
  <1>7. ASSUME NEW j \in 0 .. n - 1, j \in Off PROVE j + 1 \in Off
    <2>1. PICK k \in 1 .. n : k = j + 1 /\ k - 1 = j
      OBVIOUS
    <2>2. PICK s, t, o, p : s = F[j] /\ t = G[j] /\ o = Ones(data[k]) /\ p = Ones(other[k])
      OBVIOUS
    <2>3. Summands(s, o, p)
      <3>1. j \in 0 .. n
        OBVIOUS
      <3>2. F[j] \in 0 .. 255
        BY <1>2, <3>1 DEF Totals
      <3> QED BY <1>4, <2>1, <2>2, <3>2 DEF Summands
    <2>4. F[k] = Plus(s, o) /\ G[k] = Plus(t, p)
      BY <1>2, <1>3, <2>1, <2>2 DEF Totals
    <2>5. IF j < i THEN t = s ELSE t = Plus(s, d)
      BY <1>7, <2>2 DEF IsOff
    <2>6. k # i => o = p
      BY <1>1, <2>1, <2>2
    <2>7. CASE k < i
      <3>1. j < i /\ k # i
        BY <2>1, <2>7
      <3> QED BY <2>1, <2>4, <2>5, <2>6, <2>7, <3>1 DEF IsOff
    <2>8. CASE k = i
      <3>1. j < i /\ ~ (k < i)
        BY <2>1, <2>8
      <3>2. IsOne(d, o, p)
        BY <1>5, <2>2, <2>8
      <3>3. Plus(s, p) = Plus(Plus(s, o), d)
        BY <2>3, <3>2, OneMore
      <3> QED BY <2>1, <2>4, <2>5, <3>1, <3>3 DEF IsOff
    <2>9. CASE k > i
      <3>1. ~ (j < i) /\ k # i /\ ~ (k < i)
        BY <2>1, <2>9
      <3>2. Plus(Plus(s, d), o) = Plus(Plus(s, o), d)
        <4>1. Summands(s, o, o)
          BY <2>3 DEF Summands
        <4> QED BY <1>5, <4>1, OneKept
      <3> QED BY <2>1, <2>4, <2>5, <2>6, <3>1, <3>2 DEF IsOff
    <2> QED BY <2>7, <2>8, <2>9
  <1>8. \A j \in 0 .. n : j \in Off
    <2> HIDE DEF Off
    <2> QED BY <1>6, <1>7, Upward
  <1>9. G[n] = Plus(F[n], d)
    <2>1. n \in 0 .. n /\ ~ (n < i)
      OBVIOUS
    <2> QED BY <1>8, <2>1 DEF IsOff
  <1>10. Plus(F[n], d) % 4 # F[n] % 4
    <2>1. Summands(F[n], 0, 0)
      <3>1. n \in 0 .. n
        OBVIOUS
      <3>2. F[n] \in 0 .. 255
        BY <1>2, <3>1 DEF Totals
      <3> QED BY <3>2 DEF Summands
    <2> QED BY <1>5, <2>1, OneKept
  <1> QED BY <1>2, <1>3, <1>9, <1>10 DEF Totals

\* Encoded bytes are decoded for one index only: decode counts its START_BYTEs.
LEMMA OneIndex ==
    ASSUME NEW encoded \in Seq(Byte), NEW i, NEW j, i # j, COBSDecode(encoded, i) # {}
    PROVE  COBSDecode(encoded, j) = {}
  <1>1. PICK n \in Nat : n = Len(encoded)
    OBVIOUS
  <1>2. PICK rest :
            /\ \A k \in 1 .. n + 1 : rest[k] \in AtMostOne(Part)
            /\ \A index : COBSDecode(encoded, index) =
                   {r.bytes : r \in {s \in rest[1] : IndexMatches(s.starts, index)}}
    BY <1>1, DecodeSteps
  <1>3. \A r, s \in rest[1] : r = s
    BY <1>2 DEF AtMostOne
  <1>4. PICK r \in rest[1] : r.starts = i
    BY <1>2 DEF IndexMatches
  <1>5. \A s \in rest[1] : s.starts # j
    BY <1>3, <1>4
  <1> QED BY <1>2, <1>5 DEF IndexMatches

\* The fields of what is received, when it is not too short.
LEMMA Fields ==
    ASSUME NEW q \in Seq(Byte), NEW m \in Nat, Len(q) = m + 4
    PROVE  \E e \in Seq(Byte) : Len(e) = m /\ IsLaidOut(q, q[1], q[2], q[3], e, m, q[m + 4])
  <1> DEFINE e == SubSeq(q, 4, m + 3)
  <1>1. /\ e \in Seq(Byte) /\ Len(e) = m
        /\ \A i \in 1 .. m : e[i] = q[i + 3]
    <2>1. \A i \in 4 .. m + 3 : q[i] \in Byte
      <3>1. \A i \in 4 .. m + 3 : i \in 1 .. m + 4
        OBVIOUS
      <3> QED BY <3>1
    <2>2. /\ 4 \in Int /\ m + 3 \in Int
          /\ (IF 4 <= m + 3 THEN (m + 3) - 4 + 1 ELSE 0) = m /\ (m + 3) - 4 + 1 = m
          /\ \A i \in 1 .. m : 4 + i - 1 = i + 3
      OBVIOUS
    <2> QED BY <2>1, <2>2, SubSeqProperties
  <1> HIDE DEF e
  <1>2. IsLaidOut(q, q[1], q[2], q[3], e, m, q[m + 4])
    BY <1>1 DEF IsLaidOut, e
  <1> QED BY <1>1, <1>2

\* The length byte b or the COBS byte c of the encoded bytes e is refused.
Refused(b, c, e) ==
    \/ b # LengthByte(b \div 4)
    \/ c % 4 # Calculate2BitChecksum(e)

\* What disassemble makes of a packet of the fields a to e and the checksum d.
DisassembledTo(q, a, b, c, e, d) ==
    Disassemble(q) =
        IF a # START_BYTE \/ Refused(b, c, e) THEN {}
        ELSE {payload \in COBSDecode(e, c \div 4) :
                 Len(payload) = b \div 4 /\ PayloadIntact(payload, d)}

LEMMA FieldsTaken ==
    ASSUME NEW q, NEW a, NEW b, NEW c, NEW e, NEW m \in Nat, NEW d, IsLaidOut(q, a, b, c, e, m, d)
    PROVE  DisassembledTo(q, a, b, c, e, d)
  <1>1. /\ Len(q) = m + 4 /\ q[1] = a /\ q[2] = b /\ q[3] = c /\ q[m + 4] = d
        /\ SubSeq(q, 4, m + 3) = e
    BY DEF IsLaidOut
  <1>2. ~ (Len(q) < 4) /\ Len(q) - 1 = m + 3
    BY <1>1
  <1> QED BY <1>1, <1>2, Zenon DEF Disassemble, Refused, DisassembledTo

LEMMA ChecksumOfOne ==
    ASSUME NEW l \in Byte
    PROVE  Calculate2BitChecksum(<<l>>) = Ones(l) % 4
  <1>1. PICK data \in Seq(Byte) : data = <<l>> /\ Len(data) = 1 /\ data[1] = l
    <2>1. <<l>> \in Seq(Byte) /\ Len(<<l>>) = 1 /\ <<l>>[1] = l
      OBVIOUS
    <2> QED BY <2>1, Zenon
  <1>2. PICK F : Totals(F, data, 1)
    BY <1>1, TotalsExist
  <1>3. F[0] = 0 /\ F[1] = Plus(F[0], Ones(l)) /\ Calculate2BitChecksum(data) = F[1] % 4
    <2>1. 1 \in 1 .. 1 /\ 1 - 1 = 0
      OBVIOUS
    <2> QED BY <1>1, <1>2, <2>1 DEF Totals
  <1>4. Ones(l) \in 0 .. 8
    BY OnesRange
  <1>5. Plus(0, Ones(l)) % 4 = Ones(l) % 4
    BY <1>4 DEF Plus
  <1> QED BY <1>1, <1>3, <1>5

\* A length byte with a bit inverted is refused: its six upper bits and its two lower ones
\* are a length and the checksum of it.
LEMMA LengthInverted ==
    ASSUME NEW n \in 0 .. 28, NEW y, IsInverted(LengthByte(n), y)
    PROVE  y # LengthByte(y \div 4)
  <1>1. \A l \in Byte : Ones(l) \in 0 .. 8
    BY OnesRange
  <1>2. \A l \in Byte : Calculate2BitChecksum(<<l>>) = Ones(l) % 4
    BY ChecksumOfOne
  <1>3. PICK x : x = LengthByte(n)
    OBVIOUS
  <1>4. n \in Byte /\ n \in 0 .. 63
    BY DEF Byte
  <1>5. x \div 4 = n /\ x % 4 = Ones(n) % 4
    <2>1. Ones(n) % 4 \in 0 .. 3 /\ Calculate2BitChecksum(<<n>>) = Ones(n) % 4
      BY <1>1, <1>2, <1>4
    <2> QED BY <1>3, <1>4, <2>1, TaggedParts DEF LengthByte
  <1>6. CASE y \div 4 = x \div 4 /\ y % 4 # x % 4
    BY <1>3, <1>5, <1>6
  <1>7. CASE y % 4 = x % 4 /\ OneApart(Ones(y \div 4), Ones(x \div 4))
    <2>1. y \div 4 \in 0 .. 63 /\ y \div 4 \in Byte
      BY DEF IsInverted, Byte
    <2>2. Ones(y \div 4) % 4 \in 0 .. 3 /\ LengthByte(y \div 4) % 4 = Ones(y \div 4) % 4
      <3>1. Ones(y \div 4) % 4 \in 0 .. 3 /\ Calculate2BitChecksum(<<y \div 4>>) = Ones(y \div 4) % 4
        BY <1>1, <1>2, <2>1
      <3> QED BY <2>1, <3>1, TaggedParts DEF LengthByte
    <2>3. \A s, t \in 0 .. 8 : OneApart(s, t) => s % 4 # t % 4
      BY DEF OneApart
    <2>4. Ones(y \div 4) % 4 # Ones(n) % 4
      BY <1>1, <1>4, <1>5, <1>7, <2>1, <2>3
    <2> QED BY <1>5, <1>7, <2>2, <2>4
  <1> QED BY <1>3, <1>6, <1>7 DEF IsInverted

\* The fields of the packet of a payload, and what is known of them.
IsSent(p, payload, n, c, e, index) ==
    /\ p \in Seq(Byte) /\ Len(p) = n + 5
    /\ e \in Seq(Byte) /\ Len(e) = n + 1
    /\ IsLaidOut(p, START_BYTE, LengthByte(n), c, e, n + 1, CalculateCRC8(payload))
    /\ index \in 0 .. n
    /\ c \div 4 = index /\ c % 4 = Calculate2BitChecksum(e)
    /\ LengthByte(n) \in Byte /\ LengthByte(n) \div 4 = n
    /\ COBSDecode(e, index) = {payload}
    /\ n = Len(payload)

LEMMA SentFields ==
    ASSUME NEW payload \in Seq(Byte), NEW n \in 0 .. 28, NEW r, NEW p
    PROVE  n = Len(payload) /\ IsStuffed(r, payload, n) /\ IsPacket(p, payload, r, n)
               => IsSent(p, payload, n, Tagged(r.index, Calculate2BitChecksum(r.encoded)),
                         r.encoded, r.index)
  <1>0. SUFFICES ASSUME n = Len(payload), IsStuffed(r, payload, n), IsPacket(p, payload, r, n)
                 PROVE  IsSent(p, payload, n, Tagged(r.index, Calculate2BitChecksum(r.encoded)),
                               r.encoded, r.index)
    OBVIOUS
  <1> DEFINE c == Tagged(r.index, Calculate2BitChecksum(r.encoded))
  <1>1. LengthByte(n) \in Byte /\ LengthByte(n) \div 4 = n
    <2>1. <<n>> \in Seq(Byte) /\ n \in 0 .. 63
      BY DEF Byte
    <2> QED BY <2>1, ChecksumRange, TaggedParts DEF LengthByte
  <1>2. Len(r.encoded) = n + 1 /\ r.index \in 0 .. n /\ COBSDecode(r.encoded, r.index) = {payload}
    BY <1>0 DEF IsStuffed
  <1>3. r.encoded \in Seq(Byte)
    <2>1. Byte \ {START_BYTE} \subseteq Byte
      OBVIOUS
    <2> QED BY <1>0, <2>1, SeqMonotonic, Zenon DEF IsStuffed
  <1>4. c \div 4 = r.index /\ c % 4 = Calculate2BitChecksum(r.encoded)
    <2>1. r.index \in 0 .. 63
      <3>1. \A i \in 0 .. n : i \in 0 .. 63
        OBVIOUS
      <3> QED BY <1>2, <3>1, Zenon
    <2> QED BY <1>3, <2>1, ChecksumRange, TaggedParts
  <1> HIDE DEF c
  <1>5. IsLaidOut(p, START_BYTE, LengthByte(n), c, r.encoded, n + 1, CalculateCRC8(payload))
    BY <1>0 DEF IsPacket, c
  <1>6. p \in Seq(Byte) /\ Len(p) = n + 5
    <2>1. p \in Seq(Byte) /\ Len(p) = (n + 1) + 4
      BY <1>5 DEF IsLaidOut
    <2>2. (n + 1) + 4 = n + 5
      OBVIOUS
    <2> QED BY <2>1, <2>2
  <1>7. IsSent(p, payload, n, c, r.encoded, r.index)
    BY <1>0, <1>1, <1>2, <1>3, <1>4, <1>5, <1>6 DEF IsSent
  <1> QED BY <1>7 DEF c

\* A packet with the bit of weight w of its byte i inverted.
Altered(p, i, w) == [p EXCEPT ![i] = Xor[@][w]]

\* Each field that a bit is inverted in has a check that notices it, and the other fields
\* are as they were.
LEMMA BitRefused ==
    ASSUME NEW p, NEW payload \in Seq(Byte), NEW n \in 0 .. 28, NEW c, NEW e, NEW index,
           IsSent(p, payload, n, c, e, index), NEW i \in 1 .. n + 5, NEW w \in Weight
    PROVE  Disassemble(Altered(p, i, w)) = {}
  <1>1. /\ p \in Seq(Byte) /\ Len(p) = n + 5
        /\ e \in Seq(Byte) /\ Len(e) = n + 1
        /\ IsLaidOut(p, START_BYTE, LengthByte(n), c, e, n + 1, CalculateCRC8(payload))
        /\ c \div 4 = index /\ c % 4 = Calculate2BitChecksum(e)
        /\ LengthByte(n) \in Byte /\ LengthByte(n) \div 4 = n
        /\ COBSDecode(e, index) = {payload}
        /\ n = Len(payload)
    BY DEF IsSent
  <1>2. PICK q : q = Altered(p, i, w)
    OBVIOUS
  <1>3. PICK y : y = Xor[p[i]][w] /\ IsInverted(p[i], y)
    <2>1. p[i] \in Byte
      BY <1>1
    <2> QED BY <2>1, BitInverted
  <1>4. q \in Seq(Byte) /\ Len(q) = n + 5 /\ q[i] = y /\ \A j \in 1 .. n + 5 : j # i => q[j] = p[j]
    <2>1. y \in Byte
      BY <1>3 DEF IsInverted
    <2> QED BY <1>1, <1>2, <1>3, <2>1 DEF Altered
  <1>5. PICK m \in Nat : m = n + 1 /\ m + 4 = n + 5
    OBVIOUS
  <1>6. PICK f \in Seq(Byte) : Len(f) = m /\ IsLaidOut(q, q[1], q[2], q[3], f, m, q[m + 4])
    BY <1>4, <1>5, Fields
  <1>7. Disassemble(q) =
            IF q[1] # START_BYTE \/ Refused(q[2], q[3], f) THEN {}
            ELSE {found \in COBSDecode(f, q[3] \div 4) :
                     Len(found) = q[2] \div 4 /\ PayloadIntact(found, q[m + 4])}
    <2>1. DisassembledTo(q, q[1], q[2], q[3], f, q[m + 4])
      BY <1>6, FieldsTaken
    <2> QED BY <2>1, Zenon DEF DisassembledTo
  <1>8. /\ p[1] = START_BYTE /\ p[2] = LengthByte(n) /\ p[3] = c /\ p[m + 4] = CalculateCRC8(payload)
        /\ \A k \in 1 .. m : p[k + 3] = e[k]
    BY <1>1, <1>5 DEF IsLaidOut
  <1>9. \A k \in 1 .. m : q[k + 3] = f[k]
    BY <1>6 DEF IsLaidOut
  <1>10. y \in Byte /\ y # p[i]
    BY <1>3 DEF IsInverted
  <1>11. 1 \in 1 .. n + 5 /\ 2 \in 1 .. n + 5 /\ 3 \in 1 .. n + 5 /\ n + 5 \in 1 .. n + 5
         /\ \A k \in 1 .. m : k + 3 \in 4 .. n + 4 /\ k + 3 \in 1 .. n + 5
    BY <1>5
  <1>12. i \notin 4 .. n + 4 => f = e
    <2> SUFFICES ASSUME i \notin 4 .. n + 4 PROVE f = e
      OBVIOUS
    <2>1. \A k \in 1 .. m : f[k] = e[k]
      BY <1>4, <1>8, <1>9, <1>11
    <2> QED BY <1>1, <1>5, <1>6, <2>1, SeqEqual
  <1>13. CASE i = 1
    BY <1>4, <1>7, <1>8, <1>10, <1>13, <1>2
  <1>14. CASE i = 2
    <2>1. y # LengthByte(y \div 4)
      BY <1>3, <1>8, <1>14, LengthInverted
    <2> QED BY <1>2, <1>4, <1>7, <1>14, <2>1 DEF Refused
  <1>15. CASE i = 3
    <2>1. f = e
      <3>1. 3 \notin 4 .. n + 4
        OBVIOUS
      <3> QED BY <1>12, <1>15, <3>1
    <2>2. q[3] = y /\ p[i] = c
      BY <1>4, <1>8, <1>15
    <2>3. CASE y % 4 # c % 4
      BY <1>1, <1>2, <1>7, <2>1, <2>2, <2>3 DEF Refused
    <2>4. CASE y \div 4 # c \div 4
      <3>1. COBSDecode(e, y \div 4) = {}
        BY <1>1, <2>4, OneIndex
      <3> QED BY <1>2, <1>7, <2>1, <2>2, <3>1
    <2> QED BY <1>3, <2>2, <2>3, <2>4 DEF IsInverted
  <1>16. CASE i \in 4 .. n + 4
    <2>1. PICK j \in 1 .. m : j + 3 = i
      <3>1. i - 3 \in 1 .. m /\ (i - 3) + 3 = i
        BY <1>5, <1>16
      <3> QED BY <3>1
    <2>2. DifferAt(e, f, m, j)
      <3>1. m = Len(e) /\ m = Len(f)
        BY <1>1, <1>5, <1>6
      <3>2. OneApart(Ones(f[j]), Ones(e[j]))
        BY <1>3, <1>4, <1>8, <1>9, <2>1 DEF IsInverted
      <3>3. ASSUME NEW k \in 1 .. m, k # j PROVE f[k] = e[k]
        <4>1. k + 3 # i
          BY <2>1, <3>3
        <4> QED BY <1>4, <1>8, <1>9, <1>11, <4>1
      <3> QED BY <3>1, <3>2, <3>3 DEF DifferAt
    <2>3. Calculate2BitChecksum(f) # Calculate2BitChecksum(e)
      BY <1>1, <2>2, ChecksumInverted
    <2>4. q[3] = c
      <3>1. 3 # i
        BY <1>16
      <3> QED BY <1>4, <1>8, <1>11, <3>1
    <2> QED BY <1>1, <1>2, <1>7, <2>3, <2>4 DEF Refused
  <1>17. CASE i = n + 5
    <2>1. f = e
      <3>1. n + 5 \notin 4 .. n + 4
        OBVIOUS
      <3> QED BY <1>12, <1>17, <3>1
    <2>2. q[3] = c /\ q[m + 4] = y /\ y # CalculateCRC8(payload)
      <3>1. 3 # i /\ m + 4 = i
        BY <1>5, <1>17
      <3> QED BY <1>4, <1>8, <1>10, <1>11, <3>1
    <2>3. ~ PayloadIntact(payload, q[m + 4])
      BY <2>2 DEF PayloadIntact
    <2>4. COBSDecode(f, q[3] \div 4) = {payload}
      BY <1>1, <2>1, <2>2
    <2> QED BY <1>2, <1>7, <2>3, <2>4
  <1>18. i \in 1 .. 3 \/ i \in 4 .. n + 4 \/ i = n + 5
    OBVIOUS
  <1> QED BY <1>2, <1>13, <1>14, <1>15, <1>16, <1>17, <1>18

\* What the block at i and the part r behind it stand for.
IsWhole(s, encoded, n, i, next, r) ==
    /\ next \in i + 1 .. n + 1
    /\ next = i + encoded[i]
    /\ next <= n => Len(s.bytes) = next - i + Len(r.bytes) /\ s.starts = 1 + r.starts
    /\ next = n + 1 /\ r.bytes = <<>>
          => s.bytes = SubSeq(encoded, i + 1, n) /\ Len(s.bytes) = n - i

LEMMA WholeParts ==
    ASSUME NEW encoded \in Seq(Byte), NEW n \in Nat, n < 255, n = Len(encoded), NEW i \in 1 .. n,
           NEW parts, NEW s, s \in Before(encoded, n, i, parts), \A r \in parts : r \in Part
    PROVE  \E next \in Nat, r \in parts : IsWhole(s, encoded, n, i, next, r)
  <1>1. PICK code \in Nat : code = encoded[i]
    <2>1. encoded[i] \in Byte
      OBVIOUS
    <2> QED BY <2>1 DEF Byte
  <1>2. PICK next \in Nat : next = i + code
    OBVIOUS
  <1>3. PICK mark : mark = Restored(code, next, n)
    OBVIOUS
  <1>4. PICK run : run = SubSeq(encoded, i + 1, next - 1)
    OBVIOUS
  <1>5. /\ code # 0 /\ ~ (next > n + 1)
        /\ \E r \in parts : s = [bytes |-> run \o mark \o r.bytes, starts |-> Len(mark) + r.starts]
    BY <1>1, <1>2, <1>3, <1>4 DEF Before
  <1>6. next \in i + 1 .. n + 1
    BY <1>2, <1>5
  <1>7. run \in Seq(Byte) /\ Len(run) = next - i - 1
    <2>1. PICK a, b \in Nat : a = i + 1 /\ b = next - 1
      <3>1. next - 1 \in Nat
        BY <1>6
      <3> QED BY <3>1
    <2>2. \A j \in a .. b : j \in 1 .. n
      BY <1>6, <2>1
    <2>3. \A j \in a .. b : encoded[j] \in Byte
      BY <2>2
    <2>4. run \in Seq(Byte) /\ Len(run) = IF a <= b THEN b - a + 1 ELSE 0
      <3>1. SubSeq(encoded, a, b) \in Seq(Byte) /\ Len(SubSeq(encoded, a, b)) = IF a <= b THEN b - a + 1 ELSE 0
        BY <2>3, SubSeqProperties
      <3> QED BY <1>4, <2>1, <3>1
    <2> QED BY <1>6, <2>1, <2>4
  <1>8. PICK r \in parts : s = [bytes |-> run \o mark \o r.bytes, starts |-> Len(mark) + r.starts]
    BY <1>5
  <1>9. PICK t \in Seq(Byte) : t = r.bytes
    BY <1>8 DEF Part
  <1>10. s.bytes = run \o mark \o t /\ s.starts = Len(mark) + r.starts
    BY <1>8, <1>9
  <1>11. ASSUME next <= n PROVE Len(s.bytes) = next - i + Len(t) /\ s.starts = 1 + r.starts
    <2>1. mark = <<START_BYTE>>
      <3>1. code < 255
        BY <1>2, <1>11
      <3> QED BY <1>3, <1>11, <3>1 DEF Restored
    <2>2. START_BYTE \in Byte
      BY DEF START_BYTE, Byte
    <2>3. mark \in Seq(Byte) /\ Len(mark) = 1
      BY <2>1, <2>2
    <2>4. run \o mark \in Seq(Byte) /\ Len(run \o mark) = Len(run) + Len(mark)
      BY <1>7, <2>3, ConcatProperties
    <2>5. Len(run \o mark \o t) = Len(run \o mark) + Len(t)
      BY <2>4, ConcatProperties
    <2>6. Len(t) \in Nat /\ (next - i - 1) + 1 + Len(t) = next - i + Len(t)
      BY <1>6
    <2> QED BY <1>7, <1>10, <2>3, <2>4, <2>5, <2>6
  <1>12. ASSUME next = n + 1, r.bytes = <<>>
         PROVE  s.bytes = SubSeq(encoded, i + 1, n) /\ Len(s.bytes) = n - i
    <2>1. mark = <<>>
      <3>1. ~ (next <= n)
        BY <1>12
      <3> QED BY <1>3, <3>1 DEF Restored
    <2>2. run \o <<>> \o <<>> = run
      BY <1>7, ConcatEmptySeq
    <2>3. s.bytes = run
      BY <1>9, <1>10, <1>12, <2>1, <2>2
    <2>4. next - 1 = n /\ next - i - 1 = n - i
      BY <1>12
    <2> QED BY <1>4, <1>7, <2>3, <2>4
  <1>13. IsWhole(s, encoded, n, i, next, r)
    BY <1>1, <1>2, <1>6, <1>9, <1>11, <1>12 DEF IsWhole
  <1> QED BY <1>13

\* The parts that the blocks from each position on stand for.
AreParts(rest, encoded, n) ==
    /\ IsRest(rest, encoded, n)
    /\ \A i \in 1 .. n + 1 : rest[i] \in AtMostOne(Part)
    /\ \A j : COBSDecode(encoded, j) =
           {r.bytes : r \in {s \in rest[1] : IndexMatches(s.starts, j)}}

\* A part from position i on begins with the block there.
LEMMA PartsFrom ==
    ASSUME NEW encoded \in Seq(Byte), NEW n \in Nat, n < 255, n = Len(encoded),
           NEW rest, AreParts(rest, encoded, n), NEW i \in 1 .. n, NEW s, s \in rest[i]
    PROVE  \E next \in Nat : next \in i + 1 .. n + 1 /\
               \E r \in rest[next] : r \in Part /\ IsWhole(s, encoded, n, i, next, r)
  <1>1. s \in Before(encoded, n, i, rest[i + encoded[i]])
    <2>1. i \in Nat \ {0} /\ ~ (i > n)
      OBVIOUS
    <2> QED BY <2>1 DEF AreParts, IsRest
  <1>2. PICK code \in Nat : code = encoded[i]
    <2>1. encoded[i] \in Byte
      OBVIOUS
    <2> QED BY <2>1 DEF Byte
  <1>3. code # 0 /\ ~ (i + code > n + 1)
    BY <1>1, <1>2 DEF Before
  <1>4. PICK parts : parts = rest[i + encoded[i]]
    OBVIOUS
  <1>5. \A r \in parts : r \in Part
    <2>1. i + code \in 1 .. n + 1
      BY <1>3
    <2> QED BY <1>2, <1>4, <2>1 DEF AreParts, AtMostOne
  <1>6. PICK next \in Nat, r \in parts : IsWhole(s, encoded, n, i, next, r)
    BY <1>1, <1>4, <1>5, WholeParts
  <1>7. next \in i + 1 .. n + 1 /\ rest[next] = parts
    BY <1>4, <1>6 DEF IsWhole
  <1> QED BY <1>5, <1>6, <1>7

\* Nothing stands behind the last byte.
LEMMA PartBehind ==
    ASSUME NEW encoded, NEW n \in Nat, NEW rest, AreParts(rest, encoded, n)
    PROVE  \A r \in rest[n + 1] : r.bytes = <<>>
  <1>1. n + 1 \in Nat \ {0} /\ n + 1 > n
    OBVIOUS
  <1>2. rest[n + 1] = {[bytes |-> <<>>, starts |-> 0]}
    BY <1>1 DEF AreParts, IsRest
  <1> QED BY <1>2

\* Of n bytes n - 1 are decoded.
LEMMA DecodedLength ==
    ASSUME NEW encoded \in Seq(Byte), NEW n \in Nat, 0 < n, n < 255, n = Len(encoded), NEW index,
           NEW found \in COBSDecode(encoded, index)
    PROVE  Len(found) = n - 1
  <1>1. PICK rest : AreParts(rest, encoded, n)
    BY DecodeSteps DEF AreParts
  <1> DEFINE G == {i \in 1 .. n : \A s \in rest[i] : Len(s.bytes) = n - i}
  <1>2. ASSUME NEW i \in 1 .. n, \A j \in i + 1 .. n : j \in G PROVE i \in G
    <2> SUFFICES ASSUME NEW s, s \in rest[i] PROVE Len(s.bytes) = n - i
      OBVIOUS
    <2>1. PICK next \in Nat : next \in i + 1 .. n + 1 /\
               \E r \in rest[next] : r \in Part /\ IsWhole(s, encoded, n, i, next, r)
      BY <1>1, PartsFrom
    <2>2. PICK r : r \in rest[next] /\ r \in Part /\ IsWhole(s, encoded, n, i, next, r)
      BY <2>1
    <2>3. CASE next <= n
      <3>1. Len(r.bytes) = n - next
        <4>1. next \in i + 1 .. n
          BY <2>1, <2>3
        <4> QED BY <1>2, <2>2, <4>1
      <3>2. Len(s.bytes) = next - i + Len(r.bytes)
        BY <2>2, <2>3 DEF IsWhole
      <3> QED BY <3>1, <3>2
    <2>4. CASE next = n + 1
      <3>1. r.bytes = <<>>
        BY <1>1, <2>2, <2>4, PartBehind
      <3> QED BY <2>2, <2>4, <3>1 DEF IsWhole
    <2> QED BY <2>1, <2>3, <2>4
  <1>3. \A i \in 1 .. n : i \in G
    <2> HIDE DEF G
    <2> QED BY <1>2, Downward
  <1>4. 1 \in 1 .. n
    OBVIOUS
  <1>5. \A s \in rest[1] : Len(s.bytes) = n - 1
    BY <1>3, <1>4
  <1> QED BY <1>1, <1>5 DEF AreParts

\* Decoded for an index of zero there can be only one block.
LEMMA DecodedBlock ==
    ASSUME NEW encoded \in Seq(Byte), NEW n \in Nat, 0 < n, n < 255, n = Len(encoded),
           NEW found \in COBSDecode(encoded, 0)
    PROVE  encoded[1] = n /\ found = SubSeq(encoded, 2, n)
  <1>1. PICK rest : AreParts(rest, encoded, n)
    BY DecodeSteps DEF AreParts
  <1>2. PICK s : s \in rest[1] /\ s.starts = 0 /\ found = s.bytes
    BY <1>1 DEF AreParts, IndexMatches
  <1>3. PICK i \in 1 .. n : i = 1
    OBVIOUS
  <1>4. PICK next \in Nat : next \in i + 1 .. n + 1 /\
               \E r \in rest[next] : r \in Part /\ IsWhole(s, encoded, n, i, next, r)
    BY <1>1, <1>2, <1>3, PartsFrom
  <1>5. PICK r : r \in rest[next] /\ r \in Part /\ IsWhole(s, encoded, n, i, next, r)
    BY <1>4
  <1>6. next = n + 1
    <2> SUFFICES ASSUME next <= n PROVE FALSE
      BY <1>4
    <2>1. s.starts = 1 + r.starts /\ r.starts \in Nat
      BY <1>5 DEF IsWhole, Part
    <2> QED BY <1>2, <2>1
  <1>7. r.bytes = <<>>
    BY <1>1, <1>5, <1>6, PartBehind
  <1>8. s.bytes = SubSeq(encoded, 2, n)
    <2>1. i + 1 = 2
      BY <1>3
    <2> QED BY <1>5, <1>6, <1>7, <2>1 DEF IsWhole
  <1>9. encoded[1] = n
    <2>1. PICK code \in Nat : code = encoded[i]
      <3>1. encoded[i] \in Byte
        OBVIOUS
      <3> QED BY <3>1 DEF Byte
    <2>2. n + 1 = 1 + code
      BY <1>3, <1>5, <1>6, <2>1 DEF IsWhole
    <2> QED BY <1>3, <2>1, <2>2
  <1> QED BY <1>2, <1>8, <1>9

\* What is left when byte i of n + 1 is lost.
IsShortened(q, p, n, i) ==
    /\ q \in Seq(Byte) /\ Len(q) = n
    /\ \A j \in 1 .. n : q[j] = IF j < i THEN p[j] ELSE p[j + 1]

LEMMA ByteLost ==
    ASSUME NEW p \in Seq(Byte), NEW n \in Nat, Len(p) = n + 1, NEW i \in 1 .. n + 1
    PROVE  IsShortened(RemoveAt(p, i), p, n, i)
  <1>1. PICK s : s = SubSeq(p, 1, i - 1)
    OBVIOUS
  <1>2. PICK t : t = SubSeq(p, i + 1, n + 1)
    OBVIOUS
  <1>3. PICK a, b \in Nat : a = i - 1 /\ b = n + 1 - i
    <2>1. i - 1 \in Nat /\ n + 1 - i \in Nat
      OBVIOUS
    <2> QED BY <2>1
  <1>4. s \in Seq(Byte) /\ Len(s) = a /\ \A j \in 1 .. a : s[j] = p[j]
    <2>1. \A j \in 1 .. a : j \in 1 .. n + 1
      BY <1>3
    <2>2. \A j \in 1 .. a : p[j] \in Byte
      BY <2>1
    <2>3. /\ SubSeq(p, 1, a) \in Seq(Byte)
          /\ Len(SubSeq(p, 1, a)) = IF 1 <= a THEN a - 1 + 1 ELSE 0
          /\ \A j \in 1 .. a - 1 + 1 : SubSeq(p, 1, a)[j] = p[1 + j - 1]
      <3>1. PICK k \in Nat : k = 1
        OBVIOUS
      <3> QED BY <2>2, <3>1, SubSeqProperties
    <2>4. a - 1 + 1 = a /\ (IF 1 <= a THEN a - 1 + 1 ELSE 0) = a /\ \A j \in 1 .. a : 1 + j - 1 = j
      OBVIOUS
    <2> QED BY <1>1, <1>3, <2>3, <2>4
  <1>5. t \in Seq(Byte) /\ Len(t) = b /\ \A j \in 1 .. b : t[j] = p[i + j]
    <2>1. \A j \in i + 1 .. n + 1 : p[j] \in Byte
      <3>1. \A j \in i + 1 .. n + 1 : j \in 1 .. n + 1
        OBVIOUS
      <3> QED BY <3>1
    <2>2. PICK k, l \in Nat : k = i + 1 /\ l = n + 1
      OBVIOUS
    <2>3. /\ SubSeq(p, k, l) \in Seq(Byte)
          /\ Len(SubSeq(p, k, l)) = IF k <= l THEN l - k + 1 ELSE 0
          /\ \A j \in 1 .. l - k + 1 : SubSeq(p, k, l)[j] = p[k + j - 1]
      BY <2>1, <2>2, SubSeqProperties
    <2>4. l - k + 1 = b /\ (IF k <= l THEN l - k + 1 ELSE 0) = b /\ \A j \in 1 .. b : k + j - 1 = i + j
      BY <1>3, <2>2
    <2> QED BY <1>2, <2>2, <2>3, <2>4
  <1>6. IsJoined(s \o t, Byte, s, a, t, b)
    BY <1>4, <1>5, Joined
  <1>7. PICK q : q = RemoveAt(p, i) /\ q = s \o t
    BY <1>1, <1>2 DEF RemoveAt
  <1>8. /\ q \in Seq(Byte) /\ Len(q) = a + b
        /\ \A k \in 1 .. a : q[k] = s[k]
        /\ \A k \in 1 .. b : q[a + k] = t[k]
    BY <1>6, <1>7 DEF IsJoined
  <1>9. ASSUME NEW j \in 1 .. n PROVE q[j] = IF j < i THEN p[j] ELSE p[j + 1]
    <2>1. CASE j < i
      <3>1. j \in 1 .. a
        BY <1>3, <2>1
      <3> QED BY <1>4, <1>8, <2>1, <3>1
    <2>2. CASE ~ (j < i)
      <3>1. PICK k \in 1 .. b : a + k = j /\ i + k = j + 1
        <4>1. j - a \in 1 .. b /\ a + (j - a) = j /\ i + (j - a) = j + 1
          BY <1>3, <2>2
        <4> QED BY <4>1
      <3> QED BY <1>5, <1>8, <2>2, <3>1
    <2> QED BY <2>1, <2>2
  <1>10. a + b = n
    BY <1>3
  <1> QED BY <1>7, <1>8, <1>9, <1>10 DEF IsShortened

LEMMA ChecksumOfNone ==
    ASSUME NEW data \in Seq(Byte), Len(data) = 0
    PROVE  Calculate2BitChecksum(data) = 0
  <1>1. PICK n \in Nat : n = 0 /\ n = Len(data)
    OBVIOUS
  <1>2. PICK F : Totals(F, data, n)
    BY <1>1, TotalsExist
  <1>3. Calculate2BitChecksum(data) = F[n] % 4 /\ F[0] = 0
    BY <1>2 DEF Totals
  <1> QED BY <1>1, <1>3

\* The total of the n + 1 bytes and of the n behind the first one.
LEMMA PlusFirst ==
    ASSUME NEW s, NEW o, NEW p, Summands(s, o, p)
    PROVE  Plus(Plus(o, s), p) = Plus(o, Plus(s, p)) /\ Plus(o, s) = Plus(s, o)
           /\ Plus(o, s) % 4 = (o + (s % 4)) % 4
  BY DEF Summands, Plus

\* The 2-bit checksum of e, and that of f, which is e without its first byte.
LEMMA ChecksumBehind ==
    ASSUME NEW e \in Seq(Byte), NEW f \in Seq(Byte), NEW n \in Nat, Len(e) = n + 1, Len(f) = n,
           \A k \in 1 .. n : f[k] = e[k + 1]
    PROVE  Calculate2BitChecksum(e) = (Ones(e[1]) + Calculate2BitChecksum(f)) % 4
  <1>0. PICK m \in Nat : m = n + 1
    OBVIOUS
  <1>1. PICK F : Totals(F, e, m)
    BY <1>0, TotalsExist
  <1>2. PICK G : Totals(G, f, n)
    BY TotalsExist
  <1>3. \A j \in 1 .. m : Ones(e[j]) \in 0 .. 8
    <2>1. \A j \in 1 .. m : e[j] \in Byte
      BY <1>0
    <2> QED BY <2>1, OnesRange
  <1>4. PICK o : o = Ones(e[1]) /\ o \in 0 .. 8
    <2>1. 1 \in 1 .. m
      BY <1>0
    <2> QED BY <1>3, <2>1
  <1>5. F[0] = 0 /\ G[0] = 0 /\ F[1] = Plus(F[0], o)
    <2>1. 1 \in 1 .. m /\ 1 - 1 = 0
      BY <1>0
    <2> QED BY <1>1, <1>2, <1>4, <2>1 DEF Totals
  <1> DEFINE A == {j \in 0 .. n : F[j + 1] = Plus(o, G[j])}
  <1>6. 0 \in A
    <2>1. F[0 + 1] = Plus(o, G[0])
      <3>1. Plus(0, o) = Plus(o, 0)
        BY <1>4 DEF Plus
      <3> QED BY <1>5, <3>1
    <2> QED BY <2>1
  <1>7. ASSUME NEW j \in 0 .. n - 1, j \in A PROVE j + 1 \in A
    <2>1. PICK k \in 1 .. n : k = j + 1 /\ k - 1 = j /\ k \in 0 .. n /\ k + 1 \in 1 .. m /\ (k + 1) - 1 = k
      BY <1>0
    <2>2. PICK s, p : s = G[j] /\ p = Ones(f[k])
      OBVIOUS
    <2>3. Summands(s, o, p)
      <3>1. j \in 0 .. n
        OBVIOUS
      <3>2. G[j] \in 0 .. 255
        BY <1>2, <3>1 DEF Totals
      <3> QED BY <1>3, <1>4, <2>1, <2>2, <3>2 DEF Summands
    <2>4. G[k] = Plus(s, p)
      BY <1>2, <2>1, <2>2 DEF Totals
    <2>5. F[k + 1] = Plus(F[k], p)
      <3>1. F[k + 1] = Plus(F[(k + 1) - 1], Ones(e[k + 1]))
        BY <1>1, <2>1 DEF Totals
      <3> QED BY <2>1, <2>2, <3>1
    <2>6. F[k] = Plus(o, s)
      BY <1>7, <2>1, <2>2
    <2>7. Plus(Plus(o, s), p) = Plus(o, Plus(s, p))
      BY <2>3, PlusFirst
    <2>8. F[k + 1] = Plus(o, G[k])
      BY <2>4, <2>5, <2>6, <2>7
    <2> QED BY <2>1, <2>8
  <1>8. \A j \in 0 .. n : j \in A
    <2> HIDE DEF A
    <2> QED BY <1>6, <1>7, Upward
  <1>9. F[m] = Plus(o, G[n])
    <2>1. n \in 0 .. n
      OBVIOUS
    <2> QED BY <1>0, <1>8, <2>1
  <1>10. PICK g \in 0 .. 255 : g = G[n] /\ Plus(o, g) % 4 = (o + (g % 4)) % 4
    <2>1. n \in 0 .. n
      OBVIOUS
    <2>2. G[n] \in 0 .. 255
      BY <1>2, <2>1 DEF Totals
    <2>3. Summands(G[n], o, o)
      BY <1>4, <2>2 DEF Summands
    <2>4. Plus(o, G[n]) % 4 = (o + (G[n] % 4)) % 4
      BY <2>3, PlusFirst
    <2> QED BY <2>2, <2>4
  <1>11. Calculate2BitChecksum(e) = F[m] % 4
    BY <1>1 DEF Totals
  <1>12. Calculate2BitChecksum(f) = g % 4
    BY <1>2, <1>10 DEF Totals
  <1> QED BY <1>4, <1>9, <1>10, <1>11, <1>12

\* ShiftCRC without Xor, so that it can be calculated.
Doubled(x) == IF x < 128 THEN 2 * x ELSE LET s == 2 * (x - 128) IN (s - 2 * (s % 8)) + 7

LEMMA ShiftValue ==
    ASSUME NEW x \in 0 .. 255
    PROVE  ShiftCRC(x) = Doubled(x)
  <1>1. CASE x < 128
    BY <1>1 DEF ShiftCRC, Doubled
  <1>2. CASE x >= 128
    <2>1. PICK s \in 0 .. 255 : s = 2 * (x - 128) /\ s = (2 * x) % 256
      BY <1>2
    <2>2. Xor[s][7] = (s - 2 * (s % 8)) + 7
      <3> DEFINE Bit(w) == w * ((s \div w + 7 \div w) % 2)
      <3>0. s \in Byte /\ 7 \in Byte
        BY DEF Byte
      <3>1. Xor[s][7] = Bit(1) + Bit(2) + Bit(4) + Bit(8) + Bit(16) + Bit(32) + Bit(64) + Bit(128)
        BY <3>0 DEF Xor
      <3>2. PICK a, b, c, d, e, f, g, h : IsBits(s, a, b, c, d, e, f, g, h)
        BY <3>0, BitsExist
      <3>3. /\ Bit(1) = 1 - a /\ Bit(2) = 2 * (1 - b) /\ Bit(4) = 4 * (1 - c) /\ Bit(8) = 8 * d
            /\ Bit(16) = 16 * e /\ Bit(32) = 32 * f /\ Bit(64) = 64 * g /\ Bit(128) = 128 * h
        BY <3>2 DEF IsBits
      <3>4. s % 8 = a + 2 * b + 4 * c
        BY <3>2 DEF IsBits
      <3> HIDE DEF Bit
      <3>5. Xor[s][7] = (1 - a) + 2 * (1 - b) + 4 * (1 - c) + 8 * d + 16 * e + 32 * f + 64 * g + 128 * h
        BY <3>1, <3>3
      <3>6. (s - 2 * (s % 8)) + 7 = (1 - a) + 2 * (1 - b) + 4 * (1 - c) + 8 * d + 16 * e + 32 * f + 64 * g + 128 * h
        BY <3>2, <3>4 DEF IsBits
      <3> QED BY <3>5, <3>6
    <2>3. ~ (x < 128)
      BY <1>2
    <2> QED BY <1>2, <2>1, <2>2, <2>3 DEF ShiftCRC, Doubled
  <1> QED BY <1>1, <1>2

\* A round of calculateCRC8.
NextCRC(crc, byte) == CRCTable[Xor[crc][byte]]

\* The checksum after each byte.
IsCRC(F, data, n) ==
    /\ F[0] = 0
    /\ \A i \in 1 .. n : F[i] = NextCRC(F[i - 1], data[i])
    /\ CalculateCRC8(data) = F[n]

LEMMA CRCExists ==
    ASSUME NEW data \in Seq(Byte), NEW n \in Nat, n = Len(data)
    PROVE  \E F : IsCRC(F, data, n)
  BY CRC8Steps DEF IsCRC, NextCRC

\* The checksums of the bytes up to n, of which the first one is a and the others are b.
RunsOn(F, a, b, n) ==
    /\ F[0] = 0
    /\ F[1] = NextCRC(F[0], a)
    /\ \A i \in 2 .. n : F[i] = NextCRC(F[i - 1], b)

\* The checksums of 14, 22 and 26 bytes of one.
LEMMA RunOfOnesValues ==
    /\ NextCRC(0, 1) = 7 /\ NextCRC(7, 1) = 18 /\ NextCRC(18, 1) = 121 /\ NextCRC(121, 1) = 111
    /\ NextCRC(111, 1) = 13 /\ NextCRC(13, 1) = 36 /\ NextCRC(36, 1) = 251 /\ NextCRC(251, 1) = 232
    /\ NextCRC(232, 1) = 145 /\ NextCRC(145, 1) = 249 /\ NextCRC(249, 1) = 230 /\ NextCRC(230, 1) = 187
    /\ NextCRC(187, 1) = 47 /\ NextCRC(47, 1) = 202 /\ NextCRC(202, 1) = 127 /\ NextCRC(127, 1) = 125
    /\ NextCRC(125, 1) = 115 /\ NextCRC(115, 1) = 89 /\ NextCRC(89, 1) = 143 /\ NextCRC(143, 1) = 163
    /\ NextCRC(163, 1) = 103 /\ NextCRC(103, 1) = 53 /\ NextCRC(53, 1) = 140 /\ NextCRC(140, 1) = 170
    /\ NextCRC(170, 1) = 88 /\ NextCRC(88, 1) = 136
  BY ShiftValue DEF NextCRC, FourRounds, Doubled, CRCTable, Xor, Byte

LEMMA RunOfOnes ==
    ASSUME NEW F
    PROVE  /\ RunsOn(F, 1, 1, 14) => F[14] = 202
           /\ RunsOn(F, 1, 1, 22) => F[22] = 53
           /\ RunsOn(F, 1, 1, 26) => F[26] = 136
  BY RunOfOnesValues DEF RunsOn

\* The checksum of a byte of 15 and 14 START_BYTEs.
LEMMA RunBehind15Values ==
    /\ NextCRC(0, 15) = 45
    /\ NextCRC(45, 170) = 156 /\ NextCRC(156, 170) = 130 /\ NextCRC(130, 170) = 216 /\ NextCRC(216, 170) = 89
    /\ NextCRC(89, 170) = 215 /\ NextCRC(215, 170) = 116 /\ NextCRC(116, 170) = 20 /\ NextCRC(20, 170) = 51
    /\ NextCRC(51, 170) = 198 /\ NextCRC(198, 170) = 3 /\ NextCRC(3, 170) = 86 /\ NextCRC(86, 170) = 250
    /\ NextCRC(250, 170) = 183 /\ NextCRC(183, 170) = 83
  BY ShiftValue DEF NextCRC, FourRounds, Doubled, CRCTable, Xor, Byte

LEMMA RunBehind15 ==
    ASSUME NEW F, RunsOn(F, 15, 170, 15)
    PROVE  F[15] = 83
  BY RunBehind15Values DEF RunsOn

\* The checksum of a byte of 23 and 22 START_BYTEs.
LEMMA RunBehind23Values ==
    /\ NextCRC(0, 23) = 101
    /\ NextCRC(101, 170) = 99 /\ NextCRC(99, 170) = 113 /\ NextCRC(113, 170) = 15 /\ NextCRC(15, 170) = 114
    /\ NextCRC(114, 170) = 6 /\ NextCRC(6, 170) = 77 /\ NextCRC(77, 170) = 187 /\ NextCRC(187, 170) = 119
    /\ NextCRC(119, 170) = 29 /\ NextCRC(29, 170) = 12 /\ NextCRC(12, 170) = 123 /\ NextCRC(123, 170) = 57
    /\ NextCRC(57, 170) = 240 /\ NextCRC(240, 170) = 129 /\ NextCRC(129, 170) = 209 /\ NextCRC(209, 170) = 102
    /\ NextCRC(102, 170) = 106 /\ NextCRC(106, 170) = 78 /\ NextCRC(78, 170) = 178 /\ NextCRC(178, 170) = 72
    /\ NextCRC(72, 170) = 160 /\ NextCRC(160, 170) = 54
  BY ShiftValue DEF NextCRC, FourRounds, Doubled, CRCTable, Xor, Byte

LEMMA RunBehind23 ==
    ASSUME NEW F, RunsOn(F, 23, 170, 23)
    PROVE  F[23] = 54
  BY RunBehind23Values DEF RunsOn

\* The checksum of a byte of 27 and 26 START_BYTEs.
LEMMA RunBehind27Values ==
    /\ NextCRC(0, 27) = 65
    /\ NextCRC(65, 170) = 159 /\ NextCRC(159, 170) = 139 /\ NextCRC(139, 170) = 231 /\ NextCRC(231, 170) = 228
    /\ NextCRC(228, 170) = 237 /\ NextCRC(237, 170) = 210 /\ NextCRC(210, 170) = 111 /\ NextCRC(111, 170) = 85
    /\ NextCRC(85, 170) = 243 /\ NextCRC(243, 170) = 136 /\ NextCRC(136, 170) = 238 /\ NextCRC(238, 170) = 219
    /\ NextCRC(219, 170) = 80 /\ NextCRC(80, 170) = 232 /\ NextCRC(232, 170) = 201 /\ NextCRC(201, 170) = 46
    /\ NextCRC(46, 170) = 149 /\ NextCRC(149, 170) = 189 /\ NextCRC(189, 170) = 101 /\ NextCRC(101, 170) = 99
    /\ NextCRC(99, 170) = 113 /\ NextCRC(113, 170) = 15 /\ NextCRC(15, 170) = 114 /\ NextCRC(114, 170) = 6
    /\ NextCRC(6, 170) = 77 /\ NextCRC(77, 170) = 187
  BY ShiftValue DEF NextCRC, FourRounds, Doubled, CRCTable, Xor, Byte

LEMMA RunBehind27 ==
    ASSUME NEW F, RunsOn(F, 27, 170, 27)
    PROVE  F[27] = 187
  BY RunBehind27Values DEF RunsOn

\* The bits set in the lengths a packet can have.
LEMMA OnesValues ==
    /\ Ones(0) = 0 /\ Ones(1) = 1 /\ Ones(2) = 1 /\ Ones(3) = 2 /\ Ones(4) = 1 /\ Ones(5) = 2 /\ Ones(6) = 2
    /\ Ones(7) = 3 /\ Ones(8) = 1 /\ Ones(9) = 2 /\ Ones(10) = 2 /\ Ones(11) = 3 /\ Ones(12) = 2 /\ Ones(13) = 3
    /\ Ones(14) = 3 /\ Ones(15) = 4 /\ Ones(16) = 1 /\ Ones(17) = 2 /\ Ones(18) = 2 /\ Ones(19) = 3 /\ Ones(20) = 2
    /\ Ones(21) = 3 /\ Ones(22) = 3 /\ Ones(23) = 4 /\ Ones(24) = 2 /\ Ones(25) = 3 /\ Ones(26) = 3 /\ Ones(27) = 4
    /\ Ones(28) = 3
  BY DEF Ones

\* Two different messages of the same two checksums of bits: which lengths they have.
LEMMA LengthsLeft ==
    ASSUME NEW n \in 1 .. 28, Ones(n - 1) % 4 = 3, (Ones(n) + (n - 1)) % 4 = 2
    PROVE  n \in {15, 23, 27}
  BY OnesValues

\* The numbers of START_BYTEs among the first bytes, of which a payload has n - 1 in all.
LEMMA OneLeft ==
    ASSUME NEW payload, NEW n \in Nat, NEW count \in [0 .. n -> Nat],
           count[0] = 0, count[n] = n - 1, 0 < n, payload[1] # START_BYTE,
           \A i \in 1 .. n : IF payload[i] = START_BYTE THEN count[i] <= count[i - 1] + 1
                             ELSE count[i] = count[i - 1]
    PROVE  \A i \in 2 .. n : payload[i] = START_BYTE
  <1> SUFFICES ASSUME NEW k \in 2 .. n, payload[k] # START_BYTE PROVE FALSE
    OBVIOUS
  <1> DEFINE G == {i \in 0 .. n : /\ i >= 1 => count[i] <= i - 1
                                  /\ i >= k => count[i] <= i - 2}
  <1>1. 0 \in G
    OBVIOUS
  <1>2. ASSUME NEW i \in 0 .. n - 1, i \in G PROVE i + 1 \in G
    <2>1. PICK j \in 1 .. n : j = i + 1 /\ j - 1 = i
      OBVIOUS
    <2>2. PICK a, b \in Nat : a = count[i] /\ b = count[j]
      BY <2>1
    <2>3. b <= a + 1
      <3>1. IF payload[j] = START_BYTE THEN b <= a + 1 ELSE b = a
        BY <2>1, <2>2
      <3> QED BY <3>1
    <2>4. j = 1 \/ j = k => b = a
      BY <2>1, <2>2
    <2>5. (i >= 1 => a <= i - 1) /\ (i >= k => a <= i - 2)
      BY <1>2, <2>2
    <2>6. (i = 0 => a = 0) /\ (j >= 1 => b <= j - 1) /\ (j >= k => b <= j - 2) => j \in G
      BY <2>1, <2>2
    <2>7. i = 0 => a = 0
      BY <2>2
    <2> HIDE DEF G
    <2>8. (j >= 1 => b <= j - 1) /\ (j >= k => b <= j - 2)
      BY <2>1, <2>3, <2>4, <2>5, <2>7
    <2> QED BY <2>1, <2>8, <2>6, <2>7
  <1>3. \A i \in 0 .. n : i \in G
    <2> HIDE DEF G
    <2> QED BY <1>1, <1>2, Upward
  <1>4. n \in G
    <2> HIDE DEF G
    <2> QED BY <1>3
  <1> QED BY <1>4

\* count bounds the START_BYTEs that COBS::encode has counted in the first bytes.
IsCount(count, payload, n) ==
    /\ count \in [0 .. n -> Nat]
    /\ count[0] = 0
    /\ \A i \in 1 .. n : IF payload[i] = START_BYTE THEN count[i] <= count[i - 1] + 1
                         ELSE count[i] = count[i - 1]

LEMMA IndexCounts ==
    ASSUME NEW payload \in Seq(Byte), NEW n \in Nat, n = Len(payload)
    PROVE  \E count : IsCount(count, payload, n) /\ EncodeBlocks(payload).index = count[n]
  <1>1. PICK F \in [0 .. n -> State] :
               /\ F[0] = Opened
               /\ \A i \in 1 .. n : F[i] = Put(F[i - 1], payload[i])
               /\ EncodeBlocks(payload) = Close(F[n], F[n].index)
    BY EncodeSteps
  <1> DEFINE count == [i \in 0 .. n |-> F[i].index]
  <1>2. count \in [0 .. n -> Nat] /\ count[0] = 0
    BY <1>1 DEF State, Opened
  <1>3. EncodeBlocks(payload).index = count[n]
    BY <1>1 DEF Close
  <1>4. ASSUME NEW i \in 1 .. n
        PROVE  IF payload[i] = START_BYTE THEN count[i] <= count[i - 1] + 1
               ELSE count[i] = count[i - 1]
    <2>1. PICK s \in State : s = F[i - 1] /\ F[i] = Put(s, payload[i])
      BY <1>1
    <2>2. s.index \in Nat /\ count[i] = Put(s, payload[i]).index /\ count[i - 1] = s.index
      BY <2>1 DEF State
    <2>3. CASE payload[i] = START_BYTE
      <3>1. Put(s, payload[i]).index = (s.index + 1) % 256
        BY <2>3 DEF Put, Close
      <3>2. (s.index + 1) % 256 <= s.index + 1
        BY <2>2
      <3> QED BY <2>2, <2>3, <3>1, <3>2
    <2>4. CASE payload[i] # START_BYTE
      <3>1. PICK run : run = Append(s.run, payload[i])
        OBVIOUS
      <3>2. PICK t : t = [s EXCEPT !.run = run]
        OBVIOUS
      <3>3. t.index = s.index
        BY <3>2 DEF State
      <3>4. Put(s, payload[i]).index = s.index
        BY <2>4, <3>1, <3>2, <3>3 DEF Put, Close
      <3> QED BY <2>2, <2>4, <3>4
    <2> QED BY <2>3, <2>4
  <1> QED BY <1>2, <1>3, <1>4 DEF IsCount

\* What a payload of n bytes of which one is no START_BYTE is encoded as: e begins with it,
\* or with a START_BYTE.
EncodesOne(payload, n, e) ==
    \/ e[1] = 1 /\ (e[2] = n => n = 2)
    \/ /\ payload[1] # START_BYTE /\ \A i \in 2 .. n : payload[i] = START_BYTE
       /\ e[1] = 2 /\ e[2] = payload[1] /\ \A k \in 3 .. n + 1 : e[k] = 1

LEMMA EncodedOne ==
    ASSUME NEW payload \in Seq(Byte), NEW n \in Nat, 0 < n, n <= 28, n = Len(payload), NEW e,
           e = EncodeBlocks(payload).encoded, EncodeBlocks(payload).index = n - 1
    PROVE  EncodesOne(payload, n, e)
  <1>1. PICK count : IsEncoding(payload, n, EncodeBlocks(payload), count)
    <2>1. n <= Longest
      BY DEF Longest, START_BYTE
    <2> QED BY <2>1, EncodeBlocksResult
  <1>2. /\ count[n] = n - 1 /\ count[0] = 0 /\ Encoded(payload, e, count, n)
        /\ \A i \in 0 .. n : count[i] \in Nat
    BY <1>1 DEF IsEncoding
  <1>3. \A k \in 1 .. n + 1 :
            IF Mark(payload, k)
            THEN \E next \in k + 1 .. n + 2 :
                    /\ e[k] = next - k
                    /\ \A j \in k + 1 .. next - 1 : ~ Mark(payload, j)
                    /\ IF next = n + 2 THEN count[n] = count[k - 1]
                       ELSE Mark(payload, next) /\ count[next - 1] = count[k - 1] + 1
            ELSE e[k] = payload[k - 1]
    BY <1>2 DEF Encoded, Spans
  <1>4. Mark(payload, 1) /\ \A k \in 2 .. n + 1 : Mark(payload, k) <=> payload[k - 1] = START_BYTE
    BY DEF Mark
  <1>5. PICK next \in 2 .. n + 2 :
            /\ e[1] = next - 1
            /\ \A j \in 2 .. next - 1 : ~ Mark(payload, j)
            /\ IF next = n + 2 THEN count[n] = count[0]
               ELSE Mark(payload, next) /\ count[next - 1] = count[0] + 1
    <2>1. PICK k \in 1 .. n + 1 : k = 1 /\ k + 1 = 2 /\ k - 1 = 0
      OBVIOUS
    <2>2. Mark(payload, k)
      BY <1>4, <2>1
    <2>3. \E next \in k + 1 .. n + 2 :
              /\ e[k] = next - k
              /\ \A j \in k + 1 .. next - 1 : ~ Mark(payload, j)
              /\ IF next = n + 2 THEN count[n] = count[k - 1]
                 ELSE Mark(payload, next) /\ count[next - 1] = count[k - 1] + 1
      BY <1>3, <2>2, Zenon
    <2> QED BY <2>1, <2>3
  <1>6. CASE payload[1] = START_BYTE
    <2>1. Mark(payload, 2)
      <3>1. 2 \in 2 .. n + 1 /\ 2 - 1 = 1
        OBVIOUS
      <3> QED BY <1>4, <1>6, <3>1
    <2>2. next = 2
      BY <1>5, <2>1
    <2>3. e[1] = 1 /\ count[1] = 1
      BY <1>2, <1>5, <2>2
    <2>4. ASSUME e[2] = n PROVE n = 2
      <3>1. PICK last \in 3 .. n + 2 :
                /\ e[2] = last - 2
                /\ last = n + 2 => count[n] = count[1]
        <4>1. 2 \in 1 .. n + 1
          OBVIOUS
        <4> QED BY <1>3, <2>1, <4>1
      <3>2. last = n + 2
        BY <2>4, <3>1
      <3>3. count[n] = count[1]
        BY <3>1, <3>2
      <3>4. n - 1 = 1
        BY <1>2, <2>3, <3>3
      <3>5. \A m \in Nat : m - 1 = 1 => m = 2
        OBVIOUS
      <3> QED BY <3>4, <3>5
    <2> QED BY <2>3, <2>4 DEF EncodesOne
  <1>7. CASE payload[1] # START_BYTE
    <2>1. \A i \in 2 .. n : payload[i] = START_BYTE
      <3>1. PICK c : IsCount(c, payload, n) /\ c[n] = n - 1
        BY IndexCounts
      <3> QED BY <1>7, <3>1, OneLeft DEF IsCount
    <2>2. ~ Mark(payload, 2) /\ e[2] = payload[1]
      <3>1. 2 \in 1 .. n + 1 /\ 2 \in 2 .. n + 1 /\ 2 - 1 = 1
        OBVIOUS
      <3> QED BY <1>3, <1>4, <1>7, <3>1
    <2>3. \A k \in 3 .. n + 1 : Mark(payload, k)
      <3>1. \A k \in 3 .. n + 1 : k - 1 \in 2 .. n
        OBVIOUS
      <3> QED BY <1>4, <2>1, <3>1
    <2>4. next = 3
      <3>1. next # 2
        BY <1>5, <2>2
      <3>2. ~ (next > 3)
        BY <1>5, <2>3
      <3> QED BY <3>1, <3>2
    <2>5. ASSUME NEW k \in 3 .. n + 1 PROVE e[k] = 1
      <3>1. PICK last \in k + 1 .. n + 2 :
                /\ e[k] = last - k
                /\ \A j \in k + 1 .. last - 1 : ~ Mark(payload, j)
        BY <1>3, <2>3
      <3>2. last = k + 1
        BY <2>3, <3>1
      <3> QED BY <3>1, <3>2
    <2> QED BY <1>5, <1>7, <2>1, <2>2, <2>4, <2>5 DEF EncodesOne
  <1> QED BY <1>6, <1>7

\* The one message and the other: n and n - 1 START_BYTEs behind it, and n - 1 ones.
LEMMA CRCsDiffer ==
    ASSUME NEW payload \in Seq(Byte), NEW found \in Seq(Byte), NEW n \in {15, 23, 27},
           Len(payload) = n, Len(found) = n - 1,
           payload[1] = n, \A i \in 2 .. n : payload[i] = START_BYTE,
           \A i \in 1 .. n - 1 : found[i] = 1
    PROVE  CalculateCRC8(payload) # CalculateCRC8(found)
  <1>1. PICK F : IsCRC(F, payload, n)
    BY CRCExists
  <1>2. PICK m \in {14, 22, 26} : m = n - 1
    OBVIOUS
  <1>3. PICK G : IsCRC(G, found, m)
    BY <1>2, CRCExists
  <1>4. RunsOn(G, 1, 1, m)
    <2>1. 1 \in 1 .. m /\ 1 - 1 = 0 /\ \A i \in 2 .. m : i \in 1 .. m
      OBVIOUS
    <2> QED BY <1>2, <1>3, <2>1 DEF IsCRC, RunsOn
  <1>5. RunsOn(F, n, 170, n)
    <2>1. 1 \in 1 .. n /\ 1 - 1 = 0 /\ \A i \in 2 .. n : i \in 1 .. n
      OBVIOUS
    <2> QED BY <1>1, <2>1 DEF IsCRC, RunsOn, START_BYTE
  <1>6. CalculateCRC8(payload) = F[n] /\ CalculateCRC8(found) = G[m]
    BY <1>1, <1>3 DEF IsCRC
  <1>7. CASE n = 15
    <2>1. m = 14
      BY <1>2, <1>7
    <2>2. F[15] = 83
      BY <1>5, <1>7, RunBehind15
    <2>3. G[14] = 202
      BY <1>4, <2>1, RunOfOnes
    <2> QED BY <1>6, <1>7, <2>1, <2>2, <2>3
  <1>8. CASE n = 23
    <2>1. m = 22
      BY <1>2, <1>8
    <2>2. F[23] = 54
      BY <1>5, <1>8, RunBehind23
    <2>3. G[22] = 53
      BY <1>4, <2>1, RunOfOnes
    <2> QED BY <1>6, <1>8, <2>1, <2>2, <2>3
  <1>9. CASE n = 27
    <2>1. m = 26
      BY <1>2, <1>9
    <2>2. F[27] = 187
      BY <1>5, <1>9, RunBehind27
    <2>3. G[26] = 136
      BY <1>4, <2>1, RunOfOnes
    <2> QED BY <1>6, <1>9, <2>1, <2>2, <2>3
  <1> QED BY <1>7, <1>8, <1>9

\* The checksum of f, which is n followed by n - 1 ones.
LEMMA ChecksumOfOnes ==
    ASSUME NEW f \in Seq(Byte), NEW n \in Nat, 0 < n, n <= 28, Len(f) = n,
           f[1] = n, \A k \in 2 .. n : f[k] = 1
    PROVE  Calculate2BitChecksum(f) = (Ones(n) + (n - 1)) % 4
  <1>1. PICK F : Totals(F, f, n)
    BY TotalsExist
  <1>2. PICK o \in 0 .. 8 : o = Ones(n)
    <2>1. n \in Byte
      BY DEF Byte
    <2> QED BY <2>1, OnesRange
  <1>3. F[0] = 0 /\ F[1] = Plus(F[0], o) /\ \A i \in 2 .. n : F[i] = Plus(F[i - 1], 1)
    <2>1. 1 \in 1 .. n /\ 1 - 1 = 0 /\ \A i \in 2 .. n : i \in 1 .. n
      OBVIOUS
    <2>2. F[0] = 0 /\ \A i \in 1 .. n : F[i] = Plus(F[i - 1], Ones(f[i]))
      BY <1>1 DEF Totals
    <2>3. Ones(1) = 1
      BY OnesValues, Zenon
    <2>4. F[1] = Plus(F[0], o)
      BY <1>2, <2>1, <2>2
    <2> QED BY <2>1, <2>2, <2>3, <2>4
  <1> DEFINE G == {i \in 0 .. n : i > 0 => F[i] = o + (i - 1)}
  <1>4. 0 \in G
    OBVIOUS
  <1>5. ASSUME NEW i \in 0 .. n - 1, i \in G PROVE i + 1 \in G
    <2>1. PICK j \in 1 .. n : j = i + 1 /\ j - 1 = i
      OBVIOUS
    <2>2. CASE i = 0
      <3>1. j = 1 /\ F[1] = o + 0
        <4>1. Plus(0, o) = o
          BY DEF Plus
        <4> QED BY <1>3, <2>1, <2>2, <4>1
      <3> QED BY <2>1, <3>1
    <2>3. CASE i > 0
      <3>1. F[j] = Plus(F[i], 1)
        <4>1. j \in 2 .. n
          BY <2>1, <2>3
        <4> QED BY <1>3, <2>1, <4>1
      <3>2. F[i] = o + (i - 1)
        BY <1>5, <2>3
      <3>3. Plus(o + (i - 1), 1) = o + (j - 1)
        BY <2>1, <2>3 DEF Plus
      <3> QED BY <2>1, <3>1, <3>2, <3>3
    <2> QED BY <2>2, <2>3
  <1>6. \A i \in 0 .. n : i \in G
    <2> HIDE DEF G
    <2> QED BY <1>4, <1>5, Upward
  <1>7. F[n] = o + (n - 1)
    <2>1. n \in 0 .. n /\ n > 0
      OBVIOUS
    <2> QED BY <1>6, <2>1
  <1> QED BY <1>1, <1>2, <1>7 DEF Totals

\* f is e without its first byte.
IsBehindFirst(e, f, n) ==
    /\ e \in Seq(Byte) /\ Len(e) = n + 1
    /\ f \in Seq(Byte) /\ Len(f) = n
    /\ \A k \in 1 .. n : f[k] = e[k + 1]

\* Were the length byte lost, and what is received taken for a packet: the COBS byte would
\* pass for the length byte, and the first code for the COBS byte.
IsMistaken(payload, n, e, f, found) ==
    /\ e = EncodeBlocks(payload).encoded /\ EncodeBlocks(payload).index = n - 1
    /\ Calculate2BitChecksum(e) = Ones(n - 1) % 4
    /\ e[1] % 4 = Calculate2BitChecksum(f)
    /\ found \in COBSDecode(f, e[1] \div 4)
    /\ CalculateCRC8(found) = CalculateCRC8(payload)

LEMMA NoneMistaken ==
    ASSUME NEW payload \in Seq(Byte), NEW n \in Nat, 0 < n, n <= 28, n = Len(payload),
           NEW e, NEW f, IsBehindFirst(e, f, n), NEW found \in Seq(Byte)
    PROVE  ~ IsMistaken(payload, n, e, f, found)
  <1>0. SUFFICES ASSUME IsMistaken(payload, n, e, f, found) PROVE FALSE
    OBVIOUS
  <1>1. /\ e \in Seq(Byte) /\ Len(e) = n + 1 /\ f \in Seq(Byte) /\ Len(f) = n
        /\ \A k \in 1 .. n : f[k] = e[k + 1]
    BY DEF IsBehindFirst
  <1>2. /\ Calculate2BitChecksum(e) = Ones(n - 1) % 4
        /\ e[1] % 4 = Calculate2BitChecksum(f)
        /\ found \in COBSDecode(f, e[1] \div 4)
        /\ CalculateCRC8(found) = CalculateCRC8(payload)
    BY <1>0 DEF IsMistaken
  <1>3. \/ e[1] = 1 /\ (e[2] = n => n = 2)
        \/ /\ payload[1] # START_BYTE /\ \A i \in 2 .. n : payload[i] = START_BYTE
           /\ e[1] = 2 /\ e[2] = payload[1] /\ \A k \in 3 .. n + 1 : e[k] = 1
    <2>1. e = EncodeBlocks(payload).encoded /\ EncodeBlocks(payload).index = n - 1
      BY <1>0 DEF IsMistaken
    <2>2. EncodesOne(payload, n, e)
      BY <2>1, EncodedOne
    <2> QED BY <2>2 DEF EncodesOne
  <1>4. f[1] = n /\ f[1] = e[2] /\ found = SubSeq(f, 2, n)
    <2>1. e[1] \div 4 = 0
      BY <1>3
    <2>2. found \in COBSDecode(f, 0)
      BY <1>2, <2>1
    <2>3. f[1] = n /\ found = SubSeq(f, 2, n)
      <3>1. n < 255
        OBVIOUS
      <3> QED BY <1>1, <2>2, <3>1, DecodedBlock
    <2>4. 1 \in 1 .. n /\ 1 + 1 = 2
      OBVIOUS
    <2> QED BY <1>1, <2>3, <2>4
  <1>5. Calculate2BitChecksum(e) = (Ones(e[1]) + Calculate2BitChecksum(f)) % 4
    BY <1>1, ChecksumBehind
  <1>6. CASE e[1] = 1 /\ (e[2] = n => n = 2)
    <2>1. n = 2
      BY <1>4, <1>6
    <2>2. Calculate2BitChecksum(f) = 1
      BY <1>2, <1>6
    <2>3. Ones(e[1]) = 1 /\ Ones(n - 1) = 1
      <3>1. n - 1 = 1
        BY <2>1
      <3> QED BY <1>6, <3>1, OnesValues
    <2>4. Calculate2BitChecksum(e) = (1 + 1) % 4
      BY <1>5, <2>2, <2>3
    <2>5. Calculate2BitChecksum(e) = 1 % 4
      BY <1>2, <2>3
    <2> QED BY <2>4, <2>5
  <1>7. CASE /\ payload[1] # START_BYTE /\ \A i \in 2 .. n : payload[i] = START_BYTE
             /\ e[1] = 2 /\ e[2] = payload[1] /\ \A k \in 3 .. n + 1 : e[k] = 1
    <2>1. payload[1] = n
      BY <1>4, <1>7
    <2>2. \A k \in 2 .. n : f[k] = 1
      <3>1. \A k \in 2 .. n : k \in 1 .. n /\ k + 1 \in 3 .. n + 1
        OBVIOUS
      <3> QED BY <1>1, <1>7, <3>1
    <2>3. Calculate2BitChecksum(f) = (Ones(n) + (n - 1)) % 4
      BY <1>1, <1>4, <2>2, ChecksumOfOnes
    <2>4. Calculate2BitChecksum(f) = 2
      BY <1>2, <1>7
    <2>5. Ones(n - 1) % 4 = 3
      <3>1. Ones(e[1]) = 1
        BY <1>7, OnesValues
      <3>2. Calculate2BitChecksum(e) = (1 + 2) % 4
        BY <1>5, <2>4, <3>1
      <3>3. (1 + 2) % 4 = 3
        OBVIOUS
      <3> QED BY <1>2, <3>2, <3>3
    <2>6. n \in {15, 23, 27}
      <3>1. (Ones(n) + (n - 1)) % 4 = 2 /\ n \in 1 .. 28
        <4>1. \A m \in Nat : 0 < m /\ m <= 28 => m \in 1 .. 28
          OBVIOUS
        <4>2. n \in 1 .. 28
          BY <4>1, Zenon
        <4> QED BY <2>3, <2>4, <4>2, Zenon
      <3> QED BY <2>5, <3>1, LengthsLeft
    <2>7. Len(found) = n - 1 /\ \A i \in 1 .. n - 1 : found[i] = 1
      <3>1. PICK k \in Nat : k = 2
        OBVIOUS
      <3>2. \A j \in k .. n : f[j] \in Byte
        <4>1. \A j \in k .. n : j \in 1 .. n
          BY <3>1
        <4> QED BY <1>1, <4>1
      <3>3. /\ Len(SubSeq(f, k, n)) = IF k <= n THEN n - k + 1 ELSE 0
            /\ \A i \in 1 .. n - k + 1 : SubSeq(f, k, n)[i] = f[k + i - 1]
        BY <3>2, SubSeqProperties
      <3>4. /\ (IF k <= n THEN n - k + 1 ELSE 0) = n - 1 /\ n - k + 1 = n - 1
            /\ \A i \in 1 .. n - 1 : k + i - 1 \in 2 .. n
        BY <2>6, <3>1
      <3> QED BY <1>4, <2>2, <3>1, <3>3, <3>4
    <2>8. CalculateCRC8(payload) # CalculateCRC8(found)
      <3>1. Len(payload) = n
        OBVIOUS
      <3> QED BY <1>7, <2>1, <2>6, <2>7, <3>1, CRCsDiffer
    <2> QED BY <1>2, <2>8
  <1> QED BY <1>3, <1>6, <1>7

\* Of the n bytes that are left of n + 1 encoded ones, or that take their place, n - 1 are
\* decoded, which is not the length the packet says; but for the length byte itself.
LEMMA ByteRefused ==
    ASSUME NEW p, NEW payload \in Seq(Byte), NEW n \in 0 .. 28, NEW c, NEW e, NEW index,
           IsSent(p, payload, n, c, e, index), NEW i \in 1 .. n + 5,
           e = EncodeBlocks(payload).encoded, index = EncodeBlocks(payload).index
    PROVE  Disassemble(RemoveAt(p, i)) = {}
  <1>1. /\ p \in Seq(Byte) /\ Len(p) = n + 5
        /\ e \in Seq(Byte) /\ Len(e) = n + 1
        /\ IsLaidOut(p, START_BYTE, LengthByte(n), c, e, n + 1, CalculateCRC8(payload))
        /\ index \in 0 .. n
        /\ c \div 4 = index /\ c % 4 = Calculate2BitChecksum(e)
        /\ LengthByte(n) \in Byte /\ LengthByte(n) \div 4 = n
        /\ COBSDecode(e, index) = {payload}
        /\ n = Len(payload)
    BY DEF IsSent
  <1>2. PICK q : q = RemoveAt(p, i)
    OBVIOUS
  <1>3. /\ q \in Seq(Byte) /\ Len(q) = n + 4
        /\ \A j \in 1 .. n + 4 : q[j] = IF j < i THEN p[j] ELSE p[j + 1]
    <2>1. PICK l \in Nat : l = n + 4 /\ l + 1 = n + 5
      OBVIOUS
    <2>2. IsShortened(q, p, l, i)
      BY <1>1, <1>2, <2>1, ByteLost
    <2> QED BY <2>1, <2>2 DEF IsShortened
  <1>4. PICK f \in Seq(Byte) : Len(f) = n /\ IsLaidOut(q, q[1], q[2], q[3], f, n, q[n + 4])
    <2>1. PICK m \in Nat : m = n
      OBVIOUS
    <2>2. \E f \in Seq(Byte) : Len(f) = m /\ IsLaidOut(q, q[1], q[2], q[3], f, m, q[m + 4])
      BY <1>3, <2>1, Fields
    <2> QED BY <2>1, <2>2
  <1>5. Disassemble(q) =
            IF q[1] # START_BYTE \/ Refused(q[2], q[3], f) THEN {}
            ELSE {found \in COBSDecode(f, q[3] \div 4) :
                     Len(found) = q[2] \div 4 /\ PayloadIntact(found, q[n + 4])}
    <2>1. DisassembledTo(q, q[1], q[2], q[3], f, q[n + 4])
      BY <1>4, FieldsTaken
    <2> QED BY <2>1, Zenon DEF DisassembledTo
  <1>6. /\ p[1] = START_BYTE /\ p[2] = LengthByte(n) /\ p[3] = c /\ p[n + 5] = CalculateCRC8(payload)
        /\ \A k \in 1 .. n + 1 : p[k + 3] = e[k]
    <2>1. (n + 1) + 4 = n + 5
      OBVIOUS
    <2> QED BY <1>1, <2>1 DEF IsLaidOut
  <1>7. \A k \in 1 .. n : q[k + 3] = f[k]
    BY <1>4 DEF IsLaidOut
  <1>8. /\ \A found \in COBSDecode(f, q[3] \div 4) : found \in Seq(Byte)
        /\ n > 0 => \A found \in COBSDecode(f, q[3] \div 4) : Len(found) = n - 1
    <2>1. \A found \in COBSDecode(f, q[3] \div 4) : found \in Seq(Byte)
      BY COBSDecodeType DEF AtMostOne
    <2>2. n > 0 => \A found \in COBSDecode(f, q[3] \div 4) : Len(found) = n - 1
      <3>1. n < 255
        OBVIOUS
      <3> QED BY <1>4, <3>1, DecodedLength
    <2> QED BY <2>1, <2>2
  \* Of an empty payload one byte is left, which says so.
  <1>9. n = 0 => e[1] = 1 /\ Calculate2BitChecksum(e) = 1 /\ Calculate2BitChecksum(f) = 0
    <2> SUFFICES ASSUME n = 0 PROVE e[1] = 1 /\ Calculate2BitChecksum(e) = 1 /\ Calculate2BitChecksum(f) = 0
      OBVIOUS
    <2>1. e[1] = 1
      <3>1. PICK l \in Nat : l = 1 /\ 0 < l /\ l < 255 /\ l = Len(e)
        BY <1>1
      <3>2. payload \in COBSDecode(e, 0)
        BY <1>1
      <3> QED BY <1>1, <3>1, <3>2, DecodedBlock
    <2>2. Calculate2BitChecksum(f) = 0
      BY <1>4, ChecksumOfNone
    <2>3. Calculate2BitChecksum(e) = (Ones(e[1]) + 0) % 4
      <3>1. PICK l \in Nat : l = 0 /\ Len(e) = l + 1 /\ Len(f) = l
        BY <1>1, <1>4
      <3>2. \A k \in 1 .. l : f[k] = e[k + 1]
        BY <3>1
      <3> QED BY <1>1, <2>2, <3>1, <3>2, ChecksumBehind
    <2>4. Ones(e[1]) = 1
      BY <2>1, OnesValues, Zenon
    <2>5. Calculate2BitChecksum(e) = (1 + 0) % 4
      BY <2>3, <2>4, Zenon
    <2>6. (1 + 0) % 4 = 1
      OBVIOUS
    <2> QED BY <2>1, <2>2, <2>5, <2>6, Zenon
  <1>10. 1 \in 1 .. n + 4 /\ 2 \in 1 .. n + 4 /\ 3 \in 1 .. n + 4 /\ n + 4 \in 1 .. n + 4
         /\ 1 \in 1 .. n + 1
    OBVIOUS
  <1>11. CASE i = 1
    <2>1. q[1] = LengthByte(n)
      BY <1>3, <1>6, <1>10, <1>11
    <2>2. START_BYTE \div 4 = 42
      BY DEF START_BYTE
    <2>3. q[1] # START_BYTE
      <3>1. n # 42
        OBVIOUS
      <3> QED BY <1>1, <2>1, <2>2, <3>1
    <2> QED BY <1>2, <1>5, <2>3
  <1>12. CASE i = 2
    <2>1. q[2] = c /\ q[3] = e[1] /\ q[n + 4] = CalculateCRC8(payload)
      <3>1. q[2] = p[3] /\ q[3] = p[1 + 3] /\ q[n + 4] = p[n + 5]
        <4>1. ~ (2 < i) /\ ~ (3 < i) /\ ~ (n + 4 < i) /\ (n + 4) + 1 = n + 5 /\ 2 + 1 = 3 /\ 3 + 1 = 1 + 3
          BY <1>12
        <4> QED BY <1>3, <1>10, <4>1
      <3> QED BY <1>6, <1>10, <3>1
    <2>2. IsBehindFirst(e, f, n)
      <3>1. ASSUME NEW k \in 1 .. n PROVE f[k] = e[k + 1]
        <4>1. k + 3 \in 1 .. n + 4 /\ ~ (k + 3 < i) /\ (k + 3) + 1 = (k + 1) + 3 /\ k + 1 \in 1 .. n + 1
          BY <1>12
        <4> QED BY <1>3, <1>6, <1>7, <4>1
      <3> QED BY <1>1, <1>4, <3>1 DEF IsBehindFirst
    <2>3. CASE n = 0
      <3>1. q[3] % 4 # Calculate2BitChecksum(f)
        BY <1>9, <2>1, <2>3
      <3> QED BY <1>2, <1>5, <3>1 DEF Refused
    <2>4. CASE n > 0
      <3> SUFFICES ASSUME NEW found \in Disassemble(q) PROVE FALSE
        BY <1>2
      <3>1. /\ c = LengthByte(c \div 4) /\ e[1] % 4 = Calculate2BitChecksum(f)
            /\ found \in COBSDecode(f, e[1] \div 4)
            /\ Len(found) = c \div 4 /\ CalculateCRC8(found) = CalculateCRC8(payload)
        BY <1>5, <2>1 DEF Refused, PayloadIntact
      <3>2. found \in Seq(Byte) /\ Len(found) = n - 1
        BY <1>8, <2>1, <2>4, <3>1
      <3>3. index = n - 1 /\ c = LengthByte(n - 1)
        BY <1>1, <3>1, <3>2
      <3>4. Calculate2BitChecksum(e) = Ones(n - 1) % 4
        <4>1. n - 1 \in Byte /\ n - 1 \in 0 .. 63
          BY <2>4 DEF Byte
        <4>2. <<n - 1>> \in Seq(Byte)
          BY <4>1
        <4>3. Calculate2BitChecksum(<<n - 1>>) \in 0 .. 3
          BY <4>2, ChecksumRange
        <4>4. LengthByte(n - 1) % 4 = Calculate2BitChecksum(<<n - 1>>)
          BY <4>1, <4>3, TaggedParts DEF LengthByte
        <4> QED BY <1>1, <3>3, <4>1, <4>4, ChecksumOfOne
      <3>5. IsMistaken(payload, n, e, f, found)
        BY <3>1, <3>3, <3>4 DEF IsMistaken
      <3>6. 0 < n /\ n <= 28 /\ n \in Nat /\ n = Len(payload)
        <4>1. 0 < n /\ n <= 28 /\ n \in Nat
          BY <2>4
        <4> QED BY <1>1, <4>1
      <3> QED BY <2>2, <3>2, <3>5, <3>6, NoneMistaken
    <2> QED BY <2>3, <2>4
  <1>13. CASE i \in 3 .. n + 5
    <2>1. q[2] = LengthByte(n)
      BY <1>3, <1>6, <1>10, <1>13
    <2>2. CASE n = 0
      <3>1. q[3] = c \/ q[3] = e[1]
        <4>1. q[3] = p[3] \/ q[3] = p[1 + 3]
          BY <1>3, <1>10
        <4> QED BY <1>6, <1>10, <4>1
      <3>2. q[3] % 4 # Calculate2BitChecksum(f)
        <4>1. c % 4 = 1 /\ e[1] % 4 = 1
          BY <1>1, <1>9, <2>2
        <4> QED BY <1>9, <2>2, <3>1, <4>1
      <3> QED BY <1>2, <1>5, <3>2 DEF Refused
    <2>3. CASE n > 0
      <3>1. \A found \in COBSDecode(f, q[3] \div 4) : Len(found) # q[2] \div 4
        BY <1>1, <1>8, <2>1, <2>3
      <3> QED BY <1>2, <1>5, <3>1
    <2> QED BY <2>2, <2>3
  <1>14. i = 1 \/ i = 2 \/ i \in 3 .. n + 5
    OBVIOUS
  <1> QED BY <1>11, <1>12, <1>13, <1>14

\* The packet of a payload of n bytes, with its COBS byte c.
Whole(packet, payload, n, c) ==
    LET r == EncodeBlocks(payload)
    IN Assemble(payload) = {packet} /\ IsSent(packet, payload, n, c, r.encoded, r.index)

LEMMA PacketSent ==
    ASSUME NEW payload \in Seq(Byte), NEW n \in 0 .. 28, n = Len(payload)
    PROVE  \E packet, c : Whole(packet, payload, n, c)
  <1>1. PICK r, p : Assemble(payload) = {p} /\ IsStuffed(r, payload, n) /\ IsPacket(p, payload, r, n)
    BY AssembleOne
  <1>2. r = EncodeBlocks(payload)
    <2>1. COBSEncode(payload) = {r}
      BY <1>1 DEF IsStuffed
    <2>2. COBSEncode(payload) \subseteq {EncodeBlocks(payload)}
      BY Zenon DEF COBSEncode
    <2> QED BY <2>1, <2>2
  <1>3. IsSent(p, payload, n, Tagged(r.index, Calculate2BitChecksum(r.encoded)), r.encoded, r.index)
    BY <1>1, SentFields
  <1> QED BY <1>1, <1>2, <1>3, Zenon DEF Whole

\* Whatever assemble makes is such a packet.
LEMMA SentPacket ==
    ASSUME NEW payload \in Seq(Byte), NEW packet \in Assemble(payload)
    PROVE  \E n \in 0 .. 28 : \E c :
              /\ Len(packet) = n + 5
              /\ IsSent(packet, payload, n, c, EncodeBlocks(payload).encoded, EncodeBlocks(payload).index)
  <1>1. PICK n \in 0 .. 28 : n = Len(payload)
    <2>1. Len(payload) <= MAX_PAYLOAD_LENGTH
      BY DEF Assemble
    <2>2. PICK m \in Nat : m = Len(payload)
      OBVIOUS
    <2>3. m \in 0 .. 28
      <3>1. m <= 28
        BY <2>1, <2>2 DEF MAX_PAYLOAD_LENGTH
      <3> QED BY <3>1
    <2> QED BY <2>2, <2>3
  <1>2. PICK p, c : Whole(p, payload, n, c)
    BY <1>1, PacketSent
  <1>3. packet = p
    BY <1>2 DEF Whole
  <1>4. IsSent(packet, payload, n, c, EncodeBlocks(payload).encoded, EncodeBlocks(payload).index)
    BY <1>2, <1>3, Zenon DEF Whole
  <1> QED BY <1>4 DEF IsSent

\* Whichever bit of whichever packet is inverted, in its start, length, COBS, payload or
\* checksum bytes, disassemble rejects it: no gap is left between the checks of
\* Packet.cpp 45-105 (start byte, the two 2-bit checksums, COBS::decode, the CRC-8).
THEOREM InvertedBitRejected ==
    ASSUME NEW payload \in Seq(Byte), NEW packet \in Assemble(payload),
           NEW i \in 1 .. Len(packet), NEW weight \in Weight
    PROVE  Disassemble([packet EXCEPT ![i] = Xor[@][weight]]) = {}
  <1>1. PICK n \in 0 .. 28 : \E c :
              /\ Len(packet) = n + 5
              /\ IsSent(packet, payload, n, c, EncodeBlocks(payload).encoded, EncodeBlocks(payload).index)
    BY SentPacket
  <1>2. i \in 1 .. n + 5
    BY <1>1
  <1>3. Disassemble(Altered(packet, i, weight)) = {}
    BY <1>1, <1>2, BitRefused
  <1> QED BY <1>3 DEF Altered

\* Whichever byte of whichever packet is lost, disassemble rejects what is left of it, also
\* where it starts with a START_BYTE and its fields have moved by one (Packet.cpp 45-105).
THEOREM LostByteRejected ==
    ASSUME NEW payload \in Seq(Byte), NEW packet \in Assemble(payload), NEW i \in 1 .. Len(packet)
    PROVE  Disassemble(RemoveAt(packet, i)) = {}
  <1>1. PICK n \in 0 .. 28 : \E c :
              /\ Len(packet) = n + 5
              /\ IsSent(packet, payload, n, c, EncodeBlocks(payload).encoded, EncodeBlocks(payload).index)
    BY SentPacket
  <1>2. i \in 1 .. n + 5
    BY <1>1
  <1> QED BY <1>1, <1>2, ByteRefused
=============================================================================
