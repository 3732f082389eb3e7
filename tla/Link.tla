--------------------------------- MODULE Link ---------------------------------
(***************************************************************************)
(* One transmission over a noisy link, by one of the ways in which the    *)
(* library frames what it sends:                                           *)
(*                                                                         *)
(*   packet   the SCALPEL packet alone (src/src/SCALPEL)                   *)
(*   rfd900   the RFD900 sends it in a MAVLink frame and the RFD900 of the *)
(*            peer looks for one in what it reads (src/src/PhysicalLayer)  *)
(*   xbee     the XBeePro900HP asks its modem to transmit it, and the      *)
(*            modem of the peer hands it over in a frame of its own        *)
(*   avc      AVCProtocol frames a command or telemetry, and its peer's    *)
(*            onDataReceived takes the frame in (src/src/AVC)              *)
(*   resend   AVCProtocol sends an unacknowledged command once more        *)
(*                                                                         *)
(* The link, which is no part of the library, may invert a bit or lose a   *)
(* byte of what it carries.                                                *)
(***************************************************************************)
EXTENDS AVCFrame, RadioFrames

Route == {"packet", "rfd900", "xbee", "avc", "resend"}

CONSTANTS
    Command,        \* the commands sent
    Telemetry,      \* the telemetry sent
    Payload,        \* whatever else packets are made of
    Options,        \* what an XBee modem says of the packets it hands over
    MaxDamage       \* bound: bits inverted and bytes lost, for each way and length

\* The types of the fields: two of four bits, bytes, and 16-bit words of which the first
\* two are unsigned.
ASSUME PayloadAssumption == Payload \subseteq Seq(Byte)

ASSUME OptionsAssumption == Options \subseteq Byte

ASSUME CommandAssumption ==
    Command \subseteq [sender : 0 .. 15, receiver : 0 .. 15, number : Byte, payload : Seq(Byte)]

ASSUME TelemetryAssumption ==
    \A t \in Telemetry :
        /\ t \in [sender : 0 .. 15, receiver : 0 .. 15, descriptor : {TELEMETRY_A, TELEMETRY_B},
                  words : [1 .. 11 -> Int], memory : [1 .. 3 -> Byte], status : Byte]
        /\ \A i \in 1 .. 11 :
              IF i > 2 THEN -32768 <= t.words[i] /\ t.words[i] <= 32767
              ELSE 0 <= t.words[i] /\ t.words[i] <= 65535

ASSUME DamageAssumption == MaxDamage \in [Route \X (0 .. MAX_PAYLOAD_LENGTH) -> Nat]

VARIABLES
    phase,          \* "idle", "sent" or "received"
    route,          \* one of Route
    content,        \* what was framed
    wire,           \* the bytes on the link
    damage,         \* auxiliary: how often the link has altered them
    result          \* what the receiver makes of them: a singleton, or {}

vars == <<phase, route, content, wire, damage, result>>

Contents ==
    Payload \cup (UNION {EncodeCommand(c) : c \in Command})
            \cup {EncodeTelemetry(t) : t \in Telemetry}

Init ==
    /\ phase = "idle"
    /\ route = "packet"
    /\ content = <<>>
    /\ wire = <<>>
    /\ damage = 0
    /\ result = {}

Send(by, what) ==
    /\ phase = "idle"
    /\ phase' = "sent"
    /\ route' = by
    /\ content' = what
    /\ UNCHANGED <<damage, result>>

SendPacket(payload) ==
    /\ Send("packet", payload)
    /\ wire' \in Assemble(payload)

SendRFD900(payload) ==
    /\ Send("rfd900", payload)
    /\ \E packet \in Assemble(payload) : wire' = MAVLinkFrame(packet)

\* What is disturbed is the frame that the peer's modem hands over, escaped or, should
\* it not have taken the request for API mode 2, not.
SendXBee(payload) ==
    /\ Send("xbee", payload)
    /\ \E packet \in Assemble(payload), options \in Options :
         LET frame == Received(TransmitRequest(packet), options)
         IN wire' \in {frame, Escaped(frame)}

\* Commands numbered 0 are refused before they are encoded.
SendCommand(c) ==
    /\ c.number # 0
    /\ \E encoded \in EncodeCommand(c) :
         /\ Send("avc", encoded)
         /\ \E frame \in Frame(encoded) : wire' = frame.encoded

\* retransmissionHandler passes on what encode returns, without a packet around it, of
\* a command that sendCommand has sent.
ResendCommand(c) ==
    /\ c.number # 0
    /\ \E encoded \in EncodeCommand(c) :
         /\ Send("resend", encoded)
         /\ Frame(encoded) # {}
         /\ wire' = encoded

SendTelemetry(t) ==
    /\ Send("avc", EncodeTelemetry(t))
    /\ \E frame \in Frame(EncodeTelemetry(t)) : wire' = frame.encoded

Alter(bytes) ==
    /\ phase = "sent"
    /\ damage < MaxDamage[<<route, Len(content)>>]
    /\ wire' = bytes
    /\ damage' = damage + 1
    /\ UNCHANGED <<phase, route, content, result>>

InvertBit(i, weight) == Alter([wire EXCEPT ![i] = Xor[@][weight]])

LoseByte(i) == Alter(RemoveAt(wire, i))

Receive(by, value) ==
    /\ phase = "sent"
    /\ route = by
    /\ phase' = "received"
    /\ result' = value
    /\ UNCHANGED <<route, content, wire, damage>>

\* The payloads found in one read of the port.
ReceiveRFD900 == Receive("rfd900", ToSet(ProcessFrame(wire)))

ReceiveXBee == Receive("xbee", PacketsRead(wire))

ReceivePacket == Receive("packet", Disassemble(wire))

ReceiveData == Receive("avc", OnDataReceived(wire)) \/ Receive("resend", OnDataReceived(wire))

\* One transmission is a behaviour.
Finished == phase = "received" /\ UNCHANGED vars

Next ==
    \/ \E payload \in Contents : SendPacket(payload) \/ SendRFD900(payload) \/ SendXBee(payload)
    \/ \E c \in Command : SendCommand(c) \/ ResendCommand(c)
    \/ \E t \in Telemetry : SendTelemetry(t)
    \/ \E i \in 1 .. Len(wire) : LoseByte(i) \/ \E weight \in Weight : InvertBit(i, weight)
    \/ ReceivePacket \/ ReceiveRFD900 \/ ReceiveXBee \/ ReceiveData \/ Finished

Spec == Init /\ [][Next]_vars

-----------------------------------------------------------------------------

TypeOK ==
    /\ phase \in {"idle", "sent", "received"}
    /\ route \in Route
    /\ content \in Seq(Byte)
    /\ wire \in Seq(Byte)
    /\ damage \in Nat
    /\ result \in SUBSET Seq(Byte)

\* Every payload a packet can carry arrives unchanged over an undisturbed link, by
\* itself and in the frame of an RFD900, also where it holds start bytes, is as long as
\* it may be, or empty.
PacketsArrive ==
    phase = "received" /\ route \in {"packet", "rfd900"} /\ damage = 0 => result = {content}

\* Every payload that is not too long can be sent: assemble never throws because a
\* START_BYTE is left, and in what it makes only the first byte and, by chance, the
\* checksum byte at the end are one.
StuffingNeverFails ==
    phase = "idle" =>
        \A payload \in Contents : Len(payload) <= MAX_PAYLOAD_LENGTH =>
            \E packet \in Assemble(payload) :
                \A i \in 1 .. Len(packet) - 1 : packet[i] = START_BYTE <=> i = 1

\* Whichever bit of a packet is inverted, or byte lost, the start, length, COBS and
\* checksum bytes included, disassemble rejects it: together its checks leave no gap.
DamageDetected ==
    phase = "received" /\ route = "packet" /\ damage = 1 => result = {}

\* However the bytes were altered, within the bound, whatever frame they are in, what is
\* taken in is the payload that was sent or none, never another one.  A retransmission
\* goes out without the packet and its checksum: if the command has the start byte of a
\* packet for its number, another payload can come out, but none that a handler gets.
NothingMisread ==
    phase = "received" =>
        \/ result \subseteq {content}
        \/ /\ route = "resend" /\ content[3] = START_BYTE
           /\ \A data \in result : HandleIncomingPacket(data) = {}

\* A command that comes out of a packet is the one that was encoded into it,
\* sender and receiver included, and goes to the handler of commands.
CommandsSurvive ==
    \A c \in Command :
        phase = "received" /\ route = "packet" /\ damage = 0 /\ content \in EncodeCommand(c)
            => \E data \in result : HandleIncomingPacket(data) = {<<"command", c>>}

\* So does telemetry, which fills a packet to the last byte: the signed fields keep
\* their sign, and every field its place.
TelemetrySurvives ==
    \A t \in Telemetry :
        phase = "received" /\ route = "packet" /\ damage = 0 /\ content = EncodeTelemetry(t)
            => \E data \in result : HandleIncomingPacket(data) = {<<"telemetry", t>>}

\* Two frames one behind the other, between a part of the first, unless it happens to
\* hold a start byte, and the beginning of the first once more.
Rows(start, cut, first, second) ==
    LET before == SubSeq(first, cut, Len(first))
    IN IF start \in ToSet(before) THEN {}
       ELSE {before \o first \o second \o SubSeq(first, 1, cut)}

\* MAVLink frames in a row are all found by processFrame, and in their order.
FramesRecovered ==
    phase = "idle" =>
        \A p \in Contents, q \in {EncodeTelemetry(t) : t \in Telemetry}, cut \in {2, 6} :
            \A first \in Assemble(p), second \in Assemble(q) :
                \A data \in Rows(MAVLINK_START, cut, MAVLinkFrame(first), MAVLinkFrame(second)) :
                    ProcessFrame(data) = <<p, q>>

\* API frames in a row, as the modem hands them over when it does not escape: readLoop
\* passes each to processFrame, whole but for the checksum, and in their order.
FramesDelimited ==
    phase = "idle" =>
        \A p \in Contents, q \in {EncodeTelemetry(t) : t \in Telemetry}, cut \in {2, 6},
           options \in Options :
            \A first \in Assemble(p), second \in Assemble(q) :
                LET frame == Received(TransmitRequest(first), options)
                    other == Received(TransmitRequest(second), options)
                IN \A data \in Rows(DELIMITER, cut, frame, other) :
                       ReadFrames(data) = <<Front(frame), Front(other)>>

\* XBeePro900HP.cpp:245 gives the layout of a received frame: a byte of options, then the
\* data.  A packet that the modem hands over so arrives.
XBeePacketsArrive ==
    phase = "received" /\ route = "xbee" /\ damage = 0 => result = {content}

\* AVCProtocol.cpp:103 decodes with index 0 and says "Index managed internally": the
\* frame that sendCommand makes is taken in by the onDataReceived of a peer.
OwnFramesHandled ==
    phase = "received" /\ route = "avc" /\ damage = 0 => result = {content}
=============================================================================
