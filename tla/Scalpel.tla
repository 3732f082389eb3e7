-------------------------------- MODULE Scalpel --------------------------------
(***************************************************************************)
(* The packet codec of SCALPEL (src/src/SCALPEL/{Checksum,COBS,Packet}.cpp)*)
(* as functions on sequences of bytes, which are numbers below 256.        *)
(*                                                                         *)
(* A function of the code that may throw returns a set here: the singleton *)
(* of its result, or {} where it throws.                                   *)
(***************************************************************************)
EXTENDS Integers, Sequences, SequencesExt

START_BYTE == 170
MAX_PAYLOAD_LENGTH == 28

Byte == 0 .. 255
Weight == {1, 2, 4, 8, 16, 32, 64, 128}     \* the values of the bits of a byte

Xor ==
    [a \in Byte |-> [b \in Byte |->
        LET Bit(w) == w * ((a \div w + b \div w) % 2)
        IN Bit(1) + Bit(2) + Bit(4) + Bit(8) + Bit(16) + Bit(32) + Bit(64) + Bit(128)]]

\* One round of the inner loop: shift out a bit, and x^8 + x^2 + x + 1 if it was set.
ShiftCRC(crc) ==
    LET shifted == (2 * crc) % 256
    IN IF crc >= 128 THEN Xor[shifted][7] ELSE shifted

FourRounds(crc) == ShiftCRC(ShiftCRC(ShiftCRC(ShiftCRC(crc))))

\* The eight rounds for each value of crc ^ data[i].
CRCTable == [byte \in Byte |-> FourRounds(FourRounds(byte))]

\* Mutant: one shift more, and the checksum kept in a wider integer.
CalculateCRC8Wide(data) ==
    LET crc[i \in 0 .. Len(data)] ==
            IF i = 0 THEN 0 ELSE 2 * CRCTable[Xor[crc[i - 1] % 256][data[i]]]
    IN crc[Len(data)]

CalculateCRC8(data) ==
    LET crc[i \in 0 .. Len(data)] == IF i = 0 THEN 0 ELSE CRCTable[Xor[crc[i - 1]][data[i]]]
    IN crc[Len(data)]

Ones(byte) ==
    LET Bit(w) == (byte \div w) % 2
    IN Bit(1) + Bit(2) + Bit(4) + Bit(8) + Bit(16) + Bit(32) + Bit(64) + Bit(128)

\* totalBitCount is a uint8_t; that it wraps does not change it modulo 4.
Calculate2BitChecksum(data) ==
    LET total[i \in 0 .. Len(data)] ==
            IF i = 0 THEN 0 ELSE (total[i - 1] + Ones(data[i])) % 256
    IN total[Len(data)] % 4

-----------------------------------------------------------------------------
(* COBS: a run of bytes other than START_BYTE is written behind its length *)
(* plus one, and that code byte stands for the START_BYTE before it.       *)

\* Mutant: the byte that ends a run is written too.
BlockWithMark(run) == <<Len(run) + 1>> \o run \o <<START_BYTE>>

Block(run) == <<Len(run) + 1>> \o run

\* The loop keeps the blocks that are closed, the run of the open one, and the number
\* of START_BYTEs so far.
Opened == [encoded |-> <<>>, run |-> <<>>, index |-> 0]

Close(s, index) == [encoded |-> s.encoded \o Block(s.run), run |-> <<>>, index |-> index]

\* A block is closed by a START_BYTE, or when it is as long as its code can say.
Put(s, byte) ==
    LET t == [s EXCEPT !.run = Append(@, byte)]
    IN IF byte = START_BYTE THEN Close(s, (s.index + 1) % 256)
       ELSE IF Len(t.run) + 1 = 255 THEN Close(t, t.index) ELSE t

\* The encoded bytes, and the number of START_BYTEs they stand for.
EncodeBlocks(input) ==
    LET after[i \in 0 .. Len(input)] == IF i = 0 THEN Opened ELSE Put(after[i - 1], input[i])
        last == after[Len(input)]
    IN Close(last, last.index)

\* COBS::encode throws when a code byte comes out as START_BYTE.
COBSEncode(input) ==
    {r \in {EncodeBlocks(input)} : START_BYTE \notin ToSet(r.encoded)}

\* Mutant: a START_BYTE is restored behind the last block too.
RestoredAlways(code, next, n) == IF code < 255 THEN <<START_BYTE>> ELSE <<>>

\* The START_BYTE that followed a block, when another block comes next.
Restored(code, next, n) == IF code < 255 /\ next <= n THEN <<START_BYTE>> ELSE <<>>

\* Mutant: the index is not compared with the number of START_BYTEs restored.
IndexIgnored(starts, index) == TRUE

\* decode counts index down at each START_BYTE it restores and must end at zero.
IndexMatches(starts, index) == starts = index

\* What COBS::decode returns for a given index.
COBSDecode(encoded, index) ==
    LET n == Len(encoded)
        \* what the blocks from position i on stand for
        rest[i \in Nat \ {0}] ==
            IF i > n THEN {[bytes |-> <<>>, starts |-> 0]}
            ELSE LET code == encoded[i]
                     next == i + code
                     mark == Restored(code, next, n)
                 IN IF code = 0 \/ next > n + 1 THEN {}
                    ELSE {[bytes |-> SubSeq(encoded, i + 1, next - 1) \o mark \o r.bytes,
                           starts |-> Len(mark) + r.starts] : r \in rest[next]}
    IN {r.bytes : r \in {s \in rest[1] : IndexMatches(s.starts, index)}}

-----------------------------------------------------------------------------
(* Packet: start byte, length byte, COBS byte, encoded payload, checksum.  *)

\* A value in the upper six bits, a 2-bit checksum in the lower two.
Tagged(value, checksum) == (value % 64) * 4 + checksum

LengthByte(length) == Tagged(length, Calculate2BitChecksum(<<length>>))

\* Packet::Packet(payload) and assemble.
Assemble(payload) ==
    {<<START_BYTE, LengthByte(Len(payload)),
       Tagged(r.index, Calculate2BitChecksum(r.encoded))>>
         \o r.encoded \o <<CalculateCRC8(payload)>> :
     r \in {s \in COBSEncode(payload) : Len(payload) <= MAX_PAYLOAD_LENGTH}}

\* Mutant: the CRC-8 is not verified.
PayloadIntactUnchecked(payload, checksum) == TRUE

PayloadIntact(payload, checksum) == CalculateCRC8(payload) = checksum

Disassemble(data) ==
    LET n == Len(data)
        encoded == SubSeq(data, 4, n - 1)
        length == data[2] \div 4
    IN IF \/ n < 4
          \/ data[1] # START_BYTE
          \/ data[2] # LengthByte(length)
          \/ data[3] % 4 # Calculate2BitChecksum(encoded)
       THEN {}
       ELSE {payload \in COBSDecode(encoded, data[3] \div 4) :
                Len(payload) = length /\ PayloadIntact(payload, data[n])}

=============================================================================
