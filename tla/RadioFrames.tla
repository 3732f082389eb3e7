------------------------------ MODULE RadioFrames ------------------------------
(***************************************************************************)
(* The frames that the drivers RFD900 and XBeePro900HP                     *)
(* (src/src/PhysicalLayer) put around a packet, and what their read        *)
(* threads make of the bytes on the serial port, as functions on sequences *)
(* of bytes.  Packets come out as the sequence of their payloads; the      *)
(* errors that are counted on the way are left to RadioDriver.             *)
(***************************************************************************)
EXTENDS Scalpel

\* The packet in data, if there is one, as a sequence.
Packets(data) == SetToSeq(Disassemble(data))

-----------------------------------------------------------------------------
(* RFD900: a MAVLink frame around the packet.                              *)

MAVLINK_START == 254

Xor16(a, b) == 256 * Xor[a \div 256][b \div 256] + Xor[a % 256][b % 256]

\* One round of the inner loop, on 16 bits.
ShiftCRC16(crc) ==
    LET shifted == (2 * crc) % 65536
    IN IF crc >= 32768 THEN Xor16(shifted, 4129) ELSE shifted

FourRounds16(crc) == ShiftCRC16(ShiftCRC16(ShiftCRC16(ShiftCRC16(crc))))

\* The eight rounds for each value of the upper byte of crc ^ (byte << 8).
CRC16Table == [byte \in Byte |-> FourRounds16(FourRounds16(256 * byte))]

TakeByte(crc, byte) == Xor16(256 * (crc % 256), CRC16Table[Xor[crc \div 256][byte]])

FirstCRC == 65535

CRC16(data) ==
    LET crc[i \in 0 .. Len(data)] == IF i = 0 THEN FirstCRC ELSE TakeByte(crc[i - 1], data[i])
    IN crc[Len(data)]

\* RFD900::sendPacket: the length and four fixed bytes before the packet, the CRC
\* behind it, the lower byte first.
MAVLinkFrame(packet) ==
    LET framed == <<MAVLINK_START, Len(packet) % 256, 0, 1, 1, 0>> \o packet
        crc == CRC16(framed)
    IN framed \o <<crc % 256, crc \div 256>>

\* Mutant: the index is moved behind the frame, and once more by the loop itself.
BehindTooFar(i, length) == i + length + 9

\* Where the search goes on after a frame.
Behind(i, length) == i + length + 8

\* RFD900::processFrame on what one read returned: a frame that the read does not hold
\* to its end is passed over, and the CRC is not looked at.
ProcessFrame(data) ==
    LET n == Len(data)
        InFull(i) == data[i] = MAVLINK_START /\ i + data[i + 1] + 7 <= n
        \* what is found from position i on
        from[i \in Nat \ {0}] ==
            LET frames == {j \in i .. n - 8 : InFull(j)}
                first == Min(frames)
            IN IF frames = {} THEN <<>>
               ELSE Packets(SubSeq(data, first + 6, first + 5 + data[first + 1]))
                        \o from[Behind(first, data[first + 1])]
    IN from[1]

-----------------------------------------------------------------------------
(* XBeePro900HP: an API frame around the packet.                           *)

DELIMITER == 126
ESCAPE == 125
TRANSMIT_REQUEST == 16
RECEIVE_PACKET == 144

ByteSum(data) ==
    LET sum[i \in 0 .. Len(data)] == IF i = 0 THEN 0 ELSE (sum[i - 1] + data[i]) % 256
    IN sum[Len(data)]

\* The start delimiter, the length of the content, the content and its checksum.
APIFrame(content) ==
    <<DELIMITER, Len(content) \div 256, Len(content) % 256>>
        \o content \o <<255 - ByteSum(content)>>

\* constructTransmitRequest: the frame's number, a broadcast address, no options.
TransmitRequest(packet) ==
    APIFrame(<<TRANSMIT_REQUEST, 1>> \o [i \in 1 .. 9 |-> 255] \o <<254, 0, 0>> \o packet)

\* The peer's modem, which takes the request as it is written: it hands over the data
\* behind the sender's addresses and a byte of options (XBeePro900HP.cpp:245).
Received(request, options) ==
    APIFrame(<<RECEIVE_PACKET>> \o [i \in 1 .. 10 |-> 0] \o <<options>>
             \o SubSeq(request, 18, Len(request) - 1))

\* In API mode 2, which initialize asks for (XBeePro900HP.cpp:38), the modem escapes what
\* it hands over, all but the start delimiter: an escape, then the byte with a bit inverted.
EscapedByte(i, byte) ==
    IF i > 1 /\ byte \in {DELIMITER, ESCAPE, 17, 19} THEN <<ESCAPE, Xor[byte][32]>>
    ELSE <<byte>>

Escaped(frame) ==
    LET sent[i \in 0 .. Len(frame)] ==
            IF i = 0 THEN <<>> ELSE sent[i - 1] \o EscapedByte(i, frame[i])
    IN sent[Len(frame)]

\* parseRxPacket, on the frame without its checksum.
ParseRxPacket(frame) ==
    IF Len(frame) < 15 THEN {} ELSE Disassemble(SubSeq(frame, 15, Len(frame)))

\* XBeePro900HP::processFrame: other frames, the modem's status among them, are ignored.
ProcessAPIFrame(frame) ==
    IF Len(frame) >= 4 /\ frame[4] = RECEIVE_PACKET THEN ParseRxPacket(frame) ELSE {}

ChecksumHolds(content, checksum) == 255 - ByteSum(content) = checksum

\* Mutant: of the bytes that remain, the checksum is forgotten.
EndTooEarly(i, length) == i + length + 2

\* Where a frame that starts at position i ends, with its checksum.
EndOfFrame(i, length) == i + length + 3

\* XBeePro900HP::readLoop on the bytes that come, which it does not unescape: the frames
\* that it hands to processFrame, without their checksums.  It waits for the end of a frame
\* once it has read the start.
ReadFrames(data) ==
    LET n == Len(data)
        End(i) == IF i + 2 > n THEN n + 1 ELSE EndOfFrame(i, 256 * data[i + 1] + data[i + 2])
        Take(i) ==
            LET last == End(i) - 1
            IN IF ChecksumHolds(SubSeq(data, i + 3, last), data[last + 1])
               THEN <<SubSeq(data, i, last)>>
               ELSE <<>>
        \* what is found from position i on
        from[i \in Nat \ {0}] ==
            LET starts == {j \in i .. n : data[j] = DELIMITER}
                first == Min(starts)
            IN IF starts = {} \/ End(first) > n THEN <<>>
               ELSE Take(first) \o from[End(first) + 1]
    IN from[1]

\* The payloads of the packets that come out of it.
PacketsRead(data) == UNION {ProcessAPIFrame(frame) : frame \in ToSet(ReadFrames(data))}
=============================================================================
