------------------------------- MODULE AVCFrame -------------------------------
(***************************************************************************)
(* The codecs of the AVC layer: AVC::Command and AVC::Telemetry            *)
(* (src/src/AVC/{Command,Telemetry}.{hpp,cpp}), and the framing that       *)
(* AVCProtocol (src/src/AVC/AVCProtocol.cpp) puts around a packet.  As in  *)
(* Scalpel, {} is a thrown exception or a frame that is dropped.           *)
(***************************************************************************)
EXTENDS Scalpel

\* PayloadDescriptor and TelemetryDescriptor.
COMMAND == 1
ACKNOWLEDGMENT == 2
TELEMETRY_A == 16
TELEMETRY_B == 17

\* Mutant: the two halves of the header the other way round.
PackSenderFirst(sender, receiver) == sender * 16 + receiver

\* CommandHeader: two fields of four bits.
Pack(sender, receiver) == receiver * 16 + sender

EncodeCommand(c) ==
    IF Len(c.payload) > 255 THEN {}
    ELSE {<<Pack(c.sender, c.receiver), COMMAND, c.number, Len(c.payload)>> \o c.payload}

DecodeCommand(data) ==
    IF \/ Len(data) < 4
       \/ data[2] # COMMAND
       \/ Len(data) < 4 + data[4]
    THEN {}
    ELSE {[sender |-> data[1] % 16, receiver |-> data[1] \div 16, number |-> data[3],
           payload |-> SubSeq(data, 5, 4 + data[4])]}

\* A word on the link, the higher byte first; the first two are unsigned (voltages),
\* the other nine signed (position, velocity, acceleration).
EncodeWord(word) == <<(word \div 256) % 256, word % 256>>

\* Mutant: the signed words are read as unsigned ones.
DecodeWordUnsigned(high, low, signed) == 256 * high + low

DecodeWord(high, low, signed) ==
    LET value == 256 * high + low
    IN IF signed /\ value >= 32768 THEN value - 65536 ELSE value

EncodeTelemetry(t) ==
    <<Pack(t.sender, t.receiver), t.descriptor>>
        \o [i \in 1 .. 22 |-> EncodeWord(t.words[(i + 1) \div 2])[2 - (i % 2)]]
        \o t.memory \o <<t.status>>

DecodeTelemetry(data) ==
    IF Len(data) < 28 THEN {}
    ELSE {[sender |-> data[1] % 16, receiver |-> data[1] \div 16, descriptor |-> data[2],
           words |-> [i \in 1 .. 11 |-> DecodeWord(data[2*i + 1], data[2*i + 2], i > 2)],
           memory |-> SubSeq(data, 25, 27), status |-> data[28]]}

\* sendCommand and sendTelemetry: the packet, the CRC-8 of what it carries, and
\* COBS over both.
Frame(content) ==
    UNION {COBSEncode(Append(packet, CalculateCRC8(content))) : packet \in Assemble(content)}

\* onDataReceived: COBS with index 0, the CRC-8 of the packet, the packet.
OnDataReceived(data) ==
    LET Content(decoded) ==
            LET packet == Front(decoded)
            IN IF CalculateCRC8(packet) = Last(decoded) THEN Disassemble(packet) ELSE {}
    IN UNION {Content(decoded) : decoded \in {d \in COBSDecode(data, 0) : d # <<>>}}

\* registerPayloadDescriptors: what the handler of each descriptor makes of a payload;
\* {} where there is none or the payload is not decoded.
Handled(descriptor, data) ==
    CASE descriptor = COMMAND -> {<<"command", c>> : c \in DecodeCommand(data)}
      [] descriptor \in {TELEMETRY_A, TELEMETRY_B} ->
            {<<"telemetry", t>> : t \in DecodeTelemetry(data)}
      [] descriptor = ACKNOWLEDGMENT /\ Len(data) >= 3 -> {<<"acknowledgment", data[3]>>}
      [] OTHER -> {}

HandleIncomingPacket(data) == IF Len(data) < 2 THEN {} ELSE Handled(data[2], data)
=============================================================================
